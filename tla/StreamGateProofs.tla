-------------------------- MODULE StreamGateProofs --------------------------
(***************************************************************************)
(* StreamGate implements StreamDelivery, for any number of chunks, any     *)
(* buffer, channel and accumulators, and any calls of plugins; and, as     *)
(* long as the TTL does not reap a running stream, no flusher outlives the *)
(* channel, what the gate buffered is delivered, nothing handed over after *)
(* the end of the stream is, and a pause lets out two chunks at most.      *)
(***************************************************************************)
EXTENDS StreamGate, TLAPS

Chunk == 1..Chunks
Hand == 0..Chunks
Gate == [state : GateStates, buf : Seq(Chunk), terminal : BOOLEAN, interval : BOOLEAN,
         err : BOOLEAN, target : BOOLEAN, flusher : FlusherSteps, hand : Hand,
         cleanup : BOOLEAN, failed : BOOLEAN]
Sending == [at : ProducerSteps, chunk : Chunk, final : BOOLEAN, gen : 0..MaxGen]

\* A gate whose flusher has produced the synthetic error stays ended and produces no other,
\* and while the flusher sends it nothing is buffered.
Sound(a) ==
    /\ a.failed => a.state = "ended" /\ ~a.err
    /\ a.flusher = "sendErr" => a.failed /\ a.buf = <<>>

StreamInv ==
    /\ gate \in [Gens -> Gate] /\ \A g \in Gens : Sound(gate[g])
    /\ cur \in Gens
    /\ prod \in Sending

Lanes == 0..MaxGen

\* The lanes other than l are as they were.
Others(l) == \A m \in Lanes \ {l} : LaneQueue(m)' = LaneQueue(m)

\* No flusher has produced an error it had not produced.
NoError == \A g \in Gens : gate'[g].failed = gate[g].failed

\* A chunk is a number, and can be in hand as the error can.
LEMMA ChunkIsNat == Err \in Hand /\ \A c \in Chunk : c \in Nat /\ c \in Hand /\ c > 0
BY StreamAssumption DEF Chunk, Hand, Err
-----------------------------------------------------------------------------
(* What the steps of StreamDelivery look like from the lanes. *)

\* Nothing the client could tell changes.
LEMMA SeenAsNothing ==
    ASSUME \A m \in Lanes : LaneQueue(m)' = LaneQueue(m), NoError,
           Unsent' = Unsent, out' = out
    PROVE  UNCHANGED Delivery!vars
BY DEF Delivery!vars, Lanes, NoError

\* A step that moves one lane updates the abstract queue at that lane.
LEMMA OneLaneMoves ==
    ASSUME NEW l \in Lanes, Others(l)
    PROVE  /\ [m \in 0..MaxGen |-> LaneQueue(m)]'
              = [[m \in 0..MaxGen |-> LaneQueue(m)] EXCEPT ![l] = LaneQueue(l)']
           /\ [m \in 0..MaxGen |-> LaneQueue(m)][l] = LaneQueue(l)
BY Zenon DEF Others, Lanes

\* No error: the abstract set of finished lanes stays.
LEMMA DoneStays == NoError => {g \in Gens : gate[g].failed}' = {g \in Gens : gate[g].failed}
BY DEF NoError

\* The next chunk joins lane l (GateSend).
LEMMA SeenAsPut ==
    ASSUME NEW l \in Lanes, l = 0 \/ ~gate[l].failed, Others(l), NoError,
           Unsent \in Nat, Unsent' = Unsent + 1, out' = out,
           LaneQueue(l)' = Append(LaneQueue(l), Unsent)
    PROVE  Delivery!Next
<1>1. (Unsent - 1)' = Unsent - 1 + 1 /\ (Unsent - 1)' = Unsent
  OBVIOUS
<1>2. l \notin {g \in Gens : gate[g].failed}
  BY StreamAssumption DEF Gens, Lanes
<1>3. Delivery!Put(l)
  BY <1>1, <1>2, OneLaneMoves, DoneStays, Zenon DEF Delivery!Put
<1> QED
  BY <1>3 DEF Delivery!Next, Lanes

\* The next chunk is dropped.
LEMMA SeenAsRefuse ==
    ASSUME \A m \in Lanes : LaneQueue(m)' = LaneQueue(m), NoError,
           Unsent \in Nat, Unsent' = Unsent + 1, out' = out
    PROVE  Delivery!Next
<1>1. (Unsent - 1)' = Unsent - 1 + 1
  OBVIOUS
<1>2. [m \in 0..MaxGen |-> LaneQueue(m)]' = [m \in 0..MaxGen |-> LaneQueue(m)]
  BY DEF Lanes
<1> QED
  BY <1>1, <1>2, DoneStays DEF Delivery!Next, Delivery!Refuse

\* Lane l writes its first chunk to the channel.
LEMMA SeenAsDeliver ==
    ASSUME NEW l \in Lanes, Others(l), NoError, Unsent' = Unsent,
           LaneQueue(l) # <<>>, LaneQueue(l)' = Tail(LaneQueue(l)),
           out' = Append(out, Head(LaneQueue(l)))
    PROVE  Delivery!Next
<1>1. Delivery!Deliver(l)
  BY OneLaneMoves, DoneStays, Zenon DEF Delivery!Deliver
<1> QED
  BY <1>1, Zenon DEF Delivery!Next, Lanes

\* Lane l gives up its chunks, or all but the first.
LEMMA SeenAsDiscard ==
    ASSUME NEW l \in Lanes, Others(l), NoError, Unsent' = Unsent, out' = out,
           LaneQueue(l) # <<>>, LaneQueue(l)' \in {<<>>, <<Head(LaneQueue(l))>>}
    PROVE  Delivery!Next
<1>1. Delivery!Discard(l)
  BY OneLaneMoves, DoneStays, Zenon DEF Delivery!Discard
<1> QED
  BY <1>1 DEF Delivery!Next, Lanes

\* The flusher of l, with nothing left to send, produces its error.
LEMMA SeenAsFail ==
    ASSUME NEW l \in Gens, Others(l), ~gate[l].failed, Unsent' = Unsent, out' = out,
           LaneQueue(l) = <<>>, LaneQueue(l)' = <<Err>>,
           gate'[l].failed = TRUE, \A g \in Gens \ {l} : gate'[g].failed = gate[g].failed
    PROVE  Delivery!Next
<1>1. l \in Lanes /\ l # 0
  BY StreamAssumption DEF Gens, Lanes
<1>2. {g \in Gens : gate[g].failed}' = {g \in Gens : gate[g].failed} \cup {l}
  OBVIOUS
<1>3. Delivery!Fail(l)
  BY <1>1, <1>2, OneLaneMoves, Zenon DEF Delivery!Fail
<1> QED
  BY <1>1, <1>3 DEF Delivery!Next, Lanes
-----------------------------------------------------------------------------
(* The gates under a step. *)

\* b follows a without a difference the client could tell.
Alike(a, b) == GateQueue(b) = GateQueue(a) /\ b.failed = a.failed

\* Every gate but g is alike after the step.
Aside(g) == \A h \in Gens \ {g} : Alike(gate[h], gate'[h])

\* The lanes of gates that are alike are the same.
LEMMA LanesAside ==
    ASSUME NEW g \in Gens, Aside(g), DirectQueue' = DirectQueue
    PROVE  /\ Others(g)
           /\ LaneQueue(g) = GateQueue(gate[g]) /\ LaneQueue(g)' = GateQueue(gate'[g])
           /\ gate'[g].failed = gate[g].failed => NoError
BY StreamAssumption DEF Aside, Alike, Others, Lanes, Gens, LaneQueue, NoError

\* What a lane holds, by the step of its flusher.
LEMMA QueueByStep ==
    ASSUME NEW a \in Gate
    PROVE  /\ a.flusher = "cancelled" => GateQueue(a) = <<>>
           /\ a.flusher = "send" => GateQueue(a) = <<a.hand>> \o a.buf
           /\ a.flusher = "sendErr" => GateQueue(a) = <<Err>>
           /\ a.flusher \notin {"cancelled", "send", "sendErr"} => GateQueue(a) = a.buf
BY Zenon DEF GateQueue

\* A gate whose flusher, buffer, hand and error stay is alike.
LEMMA FieldsAlike ==
    ASSUME NEW a, NEW b, b.flusher = a.flusher, b.buf = a.buf, b.hand = a.hand,
           b.failed = a.failed
    PROVE  Alike(a, b)
BY DEF Alike, GateQueue

\* Waking and starting the flusher change nothing the client could tell.
LEMMA BroadcastAlike ==
    ASSUME NEW a \in Gate
    PROVE  /\ Broadcast(a) \in Gate /\ Alike(a, Broadcast(a))
           /\ Sound(a) => Sound(Broadcast(a))
           /\ Broadcast(a).buf = a.buf
BY DEF Broadcast, Gate, FlusherSteps, Alike, GateQueue, Sound

LEMMA StartFlusherAlike ==
    ASSUME NEW a \in Gate
    PROVE  /\ StartFlusher(a) \in Gate /\ Alike(a, StartFlusher(a))
           /\ Sound(a) => Sound(StartFlusher(a))
           /\ StartFlusher(a).interval = a.interval
           /\ StartFlusher(a).failed = a.failed
           /\ StartFlusher(a).flusher = "sendErr" => a.flusher = "sendErr"
BY DEF StartFlusher, On, Gate, FlusherSteps, Alike, GateQueue, Sound

\* Ending a gate keeps its lane (EndGate).
LEMMA EndGateAlike ==
    ASSUME NEW a \in Gate, Sound(a), NEW err \in BOOLEAN
    PROVE  EndGate(a, err) \in Gate /\ Sound(EndGate(a, err)) /\ Alike(a, EndGate(a, err))
<1> DEFINE e == [a EXCEPT !.state = "ended",
                          !.interval = IF a.state = "paused" THEN FALSE ELSE @,
                          !.err = @ \/ err]
           t == IF e.target /\ (e.buf # <<>> \/ e.err) THEN StartFlusher(e) ELSE e
<1>1. CASE a.state = "ended"
  BY <1>1 DEF EndGate, Alike
<1>2. CASE a.state # "ended"
  <2>1. e \in Gate /\ Sound(e) /\ Alike(a, e)
    BY <1>2, Zenon DEF Gate, GateStates, Sound, Alike, GateQueue
  <2>2. t \in Gate /\ Sound(t) /\ Alike(e, t)
    <3> HIDE DEF e
    <3> QED
      BY <2>1, StartFlusherAlike, Zenon DEF Alike
  <2>3. EndGate(a, err) = Broadcast(t)
    BY <1>2 DEF EndGate
  <2> HIDE DEF e, t
  <2> QED
    BY <2>1, <2>2, <2>3, BroadcastAlike, Zenon DEF Alike
<1> QED
  BY <1>1, <1>2, Zenon

\* A step that replaces the gate g by b leaves the others aside.
LEMMA OneGate ==
    ASSUME StreamInv, NEW g \in Gens, NEW b \in Gate, Sound(b),
           gate' = [gate EXCEPT ![g] = b], cur' \in Gens, prod' \in Sending
    PROVE  StreamInv' /\ Aside(g) /\ gate'[g] = b
BY DEF StreamInv, Aside, Alike

\* The teardown (Release) marks the stored gate and nothing else.
LEMMA ReleaseAlike ==
    ASSUME NEW gs \in [Gens -> Gate], \A h \in Gens : Sound(gs[h]), cur \in Gens, Release(gs)
    PROVE  /\ gate' \in [Gens -> Gate]
           /\ \A h \in Gens : Sound(gate'[h]) /\ Alike(gs[h], gate'[h])
<1>1. CASE gate' = gs
  BY <1>1, Zenon DEF Alike
<1>2. CASE gate' = [gs EXCEPT ![cur].cleanup = TRUE]
  <2> DEFINE b == [gs[cur] EXCEPT !.cleanup = TRUE]
  <2>1. b \in Gate /\ Sound(b) /\ Alike(gs[cur], b)
    BY Zenon DEF Gate, Sound, Alike, GateQueue
  <2>2. gate' = [gs EXCEPT ![cur] = b]
    BY <1>2
  <2> HIDE DEF b
  <2> QED
    BY <2>1, <2>2, Zenon DEF Alike
<1> QED
  BY <1>1, <1>2, Zenon DEF Release

\* The flusher of g leaves (Exit): its lane is what is buffered.
LEMMA ExitAside ==
    ASSUME StreamInv, NEW g \in Gens, NEW a \in Gate, Sound(a), Exit(g, a),
           cur' = cur, prod' = prod
    PROVE  /\ StreamInv' /\ Aside(g)
           /\ GateQueue(gate'[g]) = a.buf /\ gate'[g].failed = a.failed
<1> DEFINE b == [a EXCEPT !.flusher = "off"]
           gs == [gate EXCEPT ![g] = b]
<1>1. b \in Gate /\ Sound(b) /\ GateQueue(b) = a.buf /\ b.failed = a.failed
  BY Zenon DEF Gate, FlusherSteps, Sound, GateQueue
<1>2. gate' = gs \/ Release(gs)
  BY Zenon DEF Exit
<1> HIDE DEF b
<1>3. gs \in [Gens -> Gate] /\ (\A h \in Gens : Sound(gs[h])) /\ cur \in Gens
      /\ gs[g] = b /\ \A h \in Gens \ {g} : gs[h] = gate[h]
  BY <1>1, Zenon DEF StreamInv
<1> HIDE DEF gs
<1>4. /\ gate' \in [Gens -> Gate]
      /\ \A h \in Gens : Sound(gate'[h]) /\ Alike(gs[h], gate'[h])
  <2>1. CASE gate' = gs
    BY <2>1, <1>3, Zenon DEF Alike
  <2>2. CASE Release(gs)
    BY <2>2, <1>3, ReleaseAlike, Zenon
  <2> QED
    BY <1>2, <2>1, <2>2, Zenon
<1> QED
  BY <1>1, <1>3, <1>4, Zenon DEF StreamInv, Aside, Alike
-----------------------------------------------------------------------------
(* The steps of the gate, one lemma each or for a few of a kind. *)

Follows == StreamInv' /\ (Delivery!Next \/ UNCHANGED Delivery!vars)

\* A step that replaces one gate by one alike is none of StreamDelivery's.
LEMMA AlikeFollows ==
    ASSUME StreamInv, NEW g \in Gens, NEW b \in Gate, Sound(b), Alike(gate[g], b),
           gate' = [gate EXCEPT ![g] = b], cur' \in Gens, prod' \in Sending,
           DirectQueue' = DirectQueue, Unsent' = Unsent, out' = out
    PROVE  Follows
<1>1. StreamInv' /\ Aside(g) /\ gate'[g] = b
  BY OneGate, Zenon
<1>2. \A m \in Lanes : LaneQueue(m)' = LaneQueue(m)
  BY <1>1, LanesAside, Zenon DEF Alike, Others
<1> QED
  BY <1>1, <1>2, LanesAside, SeenAsNothing, Zenon DEF Alike, Follows

\* A step that leaves the gates and the lanes alone.
LEMMA NothingFollows ==
    ASSUME StreamInv, gate' = gate, cur' \in Gens, prod' \in Sending,
           DirectQueue' = DirectQueue, Unsent' = Unsent, out' = out
    PROVE  Follows
<1>1. StreamInv'
  BY Zenon DEF StreamInv
<1>2. \A m \in Lanes : LaneQueue(m)' = LaneQueue(m)
  BY Zenon DEF LaneQueue
<1> QED
  BY <1>1, <1>2, SeenAsNothing, Zenon DEF Follows, NoError

\* A step that replaces one gate by one with an emptied buffer.
LEMMA ClearFollows ==
    ASSUME StreamInv, NEW g \in Gens, NEW b \in Gate, Sound(b),
           b.failed = gate[g].failed, gate[g].flusher # "sendErr",
           b.buf = <<>>, b.hand = gate[g].hand \/ gate[g].flusher # "send",
           \/ b.flusher = gate[g].flusher
           \/ {gate[g].flusher, b.flusher} \subseteq FlusherSteps \ {"send", "sendErr", "cancelled"}
           \/ gate[g].flusher \in {"send", "pace"} /\ b.flusher = "cancelled",
           gate' = [gate EXCEPT ![g] = b], cur' \in Gens, UNCHANGED <<prod, out>>
    PROVE  Follows
<1> DEFINE q == GateQueue(gate[g])
           r == GateQueue(b)
<1>1. StreamInv' /\ Aside(g) /\ gate'[g] = b
  BY OneGate, Zenon DEF StreamInv
<1>2. DirectQueue' = DirectQueue /\ Unsent' = Unsent
  BY Zenon DEF DirectQueue, Unsent
<1>3. gate[g] \in Gate /\ gate[g].buf \in Seq(Chunk) /\ gate[g].hand \in Hand
  BY Zenon DEF StreamInv, Gate
<1>4. r = <<>> \/ (q # <<>> /\ r = <<Head(q)>>)
  <2>1. CASE gate[g].flusher = "send" /\ b.flusher = "send"
    <3>1. q = <<gate[g].hand>> \o gate[g].buf /\ r = <<gate[g].hand>> \o <<>>
      BY <1>3, <2>1, QueueByStep, Zenon
    <3>2. r = <<gate[g].hand>>
      BY <1>3, <3>1
    <3> HIDE DEF q, r
    <3>3. q # <<>> /\ Head(q) = gate[g].hand
      BY <1>3, <3>1
    <3> QED
      BY <3>2, <3>3, Zenon
  <2>2. CASE b.flusher \notin {"send", "sendErr"}
    BY <2>2, QueueByStep, Zenon
  <2> QED
    BY <2>1, <2>2, Zenon
<1>5. LaneQueue(g) = q /\ LaneQueue(g)' = r /\ Others(g) /\ NoError /\ g \in Lanes
  BY <1>1, <1>2, LanesAside, StreamAssumption DEF Gens, Lanes
<1> HIDE DEF q, r
<1>6. CASE r = q
  <2>1. \A m \in Lanes : LaneQueue(m)' = LaneQueue(m)
    BY <1>5, <1>6, Zenon DEF Others
  <2> QED
    BY <1>1, <1>2, <1>5, <2>1, SeenAsNothing, Zenon DEF Follows
<1>7. CASE q # <<>> /\ r \in {<<>>, <<Head(q)>>}
  BY <1>1, <1>2, <1>5, <1>7, SeenAsDiscard, Zenon DEF Follows
<1> QED
  BY <1>4, <1>6, <1>7, Zenon

\* The calls of plugins keep the lanes, or clear one (ClearPausedBuffer).
LEMMA ControlFollows == ASSUME StreamInv, Control PROVE Follows
<1> USE DEF GetOrCreate
<1>0. /\ UNCHANGED <<prod, out>> /\ cur \in Gens /\ prod \in Sending
      /\ gate \in [Gens -> Gate] /\ \A g \in Gens : Sound(gate[g])
  BY Zenon DEF StreamInv, Control, Pause, Resume, ResumeWithReplayInterval, ClearPausedBuffer, End
<1>1. DirectQueue' = DirectQueue /\ Unsent' = Unsent
  BY <1>0, Zenon DEF DirectQueue, Unsent
<1>2. CASE Pause
  <2>1. PICK g \in Gens :
          /\ cur' = g
          /\ \/ gate' = gate
             \/ /\ gate[g].state = "active"
                /\ gate' = [gate EXCEPT ![g].state = "paused", ![g].interval = FALSE]
    BY <1>2, Zenon DEF Pause
  <2> DEFINE b == [gate[g] EXCEPT !.state = "paused", !.interval = FALSE]
  <2>2. CASE gate' = gate
    BY <1>0, <1>1, <2>1, <2>2, NothingFollows, Zenon
  <2>3. CASE gate[g].state = "active" /\ gate' = [gate EXCEPT ![g] = b]
    <3>1. b \in Gate /\ Sound(b) /\ Alike(gate[g], b)
      BY <1>0, <2>3, ZenonT(30) DEF Gate, GateStates, Sound, Alike, GateQueue
    <3> HIDE DEF b
    <3> QED
      BY <1>0, <1>1, <2>1, <2>3, <3>1, AlikeFollows, Zenon
  <2>4. gate' = gate \/ (gate[g].state = "active" /\ gate' = [gate EXCEPT ![g] = b])
    BY <1>0, <2>1, Zenon
  <2> QED
    BY <2>2, <2>3, <2>4, Zenon
<1>3. CASE Resume
  <2>1. PICK g \in Gens :
          /\ cur' = g
          /\ \/ gate' = gate
             \/ /\ gate[g].state = "paused"
                /\ gate' = [gate EXCEPT ![g] =
                           Broadcast([@ EXCEPT !.state = "active", !.interval = FALSE])]
    BY <1>3, Zenon DEF Resume
  <2> DEFINE e == [gate[g] EXCEPT !.state = "active", !.interval = FALSE]
  <2>2. CASE gate' = gate
    BY <1>0, <1>1, <2>1, <2>2, NothingFollows, Zenon
  <2>3. CASE gate[g].state = "paused" /\ gate' = [gate EXCEPT ![g] = Broadcast(e)]
    <3>1. e \in Gate /\ Sound(e) /\ Alike(gate[g], e)
      BY <1>0, <2>3, ZenonT(30) DEF Gate, GateStates, Sound, Alike, GateQueue
    <3> HIDE DEF e
    <3>2. Broadcast(e) \in Gate /\ Sound(Broadcast(e)) /\ Alike(gate[g], Broadcast(e))
      BY <3>1, BroadcastAlike, Zenon DEF Alike
    <3> QED
      BY <1>0, <1>1, <2>1, <2>3, <3>2, AlikeFollows, Zenon
  <2>4. gate' = gate \/ (gate[g].state = "paused" /\ gate' = [gate EXCEPT ![g] = Broadcast(e)])
    BY <1>0, <2>1, Zenon
  <2> QED
    BY <2>2, <2>3, <2>4, Zenon
<1>4. CASE ResumeWithReplayInterval
  <2> DEFINE b == [gate[cur] EXCEPT !.interval = TRUE]
  <2>1. b \in Gate /\ Sound(b) /\ Alike(gate[cur], b)
    BY <1>0, Zenon DEF Gate, Sound, Alike, GateQueue
  <2>2. gate' = [gate EXCEPT ![cur] = b] /\ cur' = cur
    BY <1>0, <1>4, Zenon DEF ResumeWithReplayInterval
  <2> HIDE DEF b
  <2> QED
    BY <1>0, <1>1, <2>1, <2>2, AlikeFollows, Zenon
<1>5. CASE ClearPausedBuffer
  <2> DEFINE e == [gate[cur] EXCEPT !.buf = <<>>, !.interval = FALSE, !.terminal = FALSE]
             b == Broadcast(e)
  <2>1. /\ e \in Gate /\ Sound(e) /\ e.failed = gate[cur].failed /\ e.buf = <<>>
        /\ e.hand = gate[cur].hand /\ e.flusher = gate[cur].flusher
        /\ gate[cur].flusher # "sendErr"
    <3>1. <<>> \in Seq(Chunk)
      OBVIOUS
    <3>2. e \in Gate
      BY <1>0, <3>1, Zenon DEF Gate
    <3>3. gate[cur].state = "paused" /\ Sound(gate[cur]) /\ gate[cur] \in Gate
      BY <1>0, <1>5, Zenon DEF ClearPausedBuffer
    <3> QED
      BY <3>2, <3>3, Zenon DEF Sound, Gate
  <2>2. gate' = [gate EXCEPT ![cur] = b] /\ cur' = cur
    BY <1>0, <1>5, Zenon DEF ClearPausedBuffer
  <2> HIDE DEF e
  <2>3. /\ b \in Gate /\ Sound(b) /\ b.failed = e.failed /\ b.buf = <<>> /\ b.hand = e.hand
        /\ b.flusher = e.flusher \/ (e.flusher = "asleep" /\ b.flusher = "check")
    BY <2>1, BroadcastAlike, Zenon DEF Broadcast, Gate
  <2> HIDE DEF b
  <2> QED
    BY <1>0, <2>1, <2>2, <2>3, ClearFollows, Zenon DEF FlusherSteps
<1>6. CASE End
  <2>1. PICK g \in Gens, err \in BOOLEAN :
          cur' = g /\ gate' = [gate EXCEPT ![g] = EndGate(gate[g], err)]
    BY <1>6, Zenon DEF End
  <2>2. gate[g] \in Gate /\ Sound(gate[g])
    BY <1>0, Zenon
  <2> QED
    BY <1>0, <1>1, <2>1, <2>2, EndGateAlike, AlikeFollows, Zenon
<1> QED
  BY <1>2, <1>3, <1>4, <1>5, <1>6, Zenon DEF Control

\* A flusher that leaves with nothing to send is not noticed, and one that leaves its
\* error behind has delivered or discarded it.
LEMMA ExitFollows ==
    ASSUME StreamInv, NEW g \in Gens, NEW a \in Gate, Sound(a), Exit(g, a),
           a.buf = <<>>, a.failed = gate[g].failed, UNCHANGED <<cur, prod>>,
           \/ GateQueue(gate[g]) = <<>> /\ out' = out
           \/ GateQueue(gate[g]) = <<Err>> /\ out' \in {out, Append(out, Err)}
    PROVE  Follows
<1>1. /\ StreamInv' /\ Aside(g) /\ GateQueue(gate'[g]) = <<>>
      /\ gate'[g].failed = gate[g].failed
  BY ExitAside, Zenon
<1>2. DirectQueue' = DirectQueue /\ Unsent' = Unsent
  BY Zenon DEF DirectQueue, Unsent
<1>3. /\ LaneQueue(g) = GateQueue(gate[g]) /\ LaneQueue(g)' = <<>>
      /\ Others(g) /\ NoError /\ g \in Lanes
  BY <1>1, <1>2, LanesAside, StreamAssumption DEF Gens, Lanes
<1>4. CASE GateQueue(gate[g]) = <<>> /\ out' = out
  <2>1. \A m \in Lanes : LaneQueue(m)' = LaneQueue(m)
    BY <1>3, <1>4, Zenon DEF Others
  <2> QED
    BY <1>1, <1>2, <1>3, <1>4, <2>1, SeenAsNothing, Zenon DEF Follows
<1>5. CASE GateQueue(gate[g]) = <<Err>> /\ out' = out
  BY <1>1, <1>2, <1>3, <1>5, SeenAsDiscard DEF Follows
<1>6. CASE GateQueue(gate[g]) = <<Err>> /\ out' = Append(out, Err)
  <2>1. Head(<<Err>>) = Err /\ Tail(<<Err>>) = <<>> /\ <<Err>> # <<>>
    OBVIOUS
  <2> QED
    BY <1>1, <1>2, <1>3, <1>6, <2>1, SeenAsDeliver, Zenon DEF Follows
<1> QED
  BY <1>4, <1>5, <1>6, Zenon

\* The end of the flusher's loop body: it goes on, fails or leaves (gateFlusher).
LEMMA AfterDrainFollows ==
    ASSUME StreamInv, NEW g \in Gens, NEW a \in Gate, Sound(a), AfterDrain(g, a),
           a.buf = <<>> \/ a.state = "paused",
           GateQueue(gate[g]) = a.buf, a.failed = gate[g].failed,
           a.flusher # "sendErr", UNCHANGED <<cur, prod, out>>
    PROVE  Follows
<1> DEFINE b == IF a.buf = <<>> THEN [a EXCEPT !.interval = FALSE] ELSE a
           c == IF b.terminal /\ b.state = "active"
                THEN [b EXCEPT !.terminal = FALSE, !.state = "ended"] ELSE b
           go == [c EXCEPT !.flusher = "check"]
           fail == [c EXCEPT !.err = FALSE, !.failed = TRUE, !.flusher = "sendErr"]
<1>1. /\ b \in Gate /\ b.buf = a.buf /\ b.failed = a.failed /\ b.flusher = a.flusher
      /\ b.state = a.state /\ b.err = a.err
  BY Zenon DEF Gate
<1>2. /\ c \in Gate /\ c.buf = a.buf /\ c.failed = a.failed /\ c.flusher = a.flusher
      /\ c.err = a.err /\ Sound(c) /\ (a.state = "paused" => c.state = "paused")
  <2> HIDE DEF b
  <2> QED
    BY <1>1, Zenon DEF Gate, GateStates, Sound
<1>3. \/ c.state # "ended" /\ gate' = [gate EXCEPT ![g] = go]
      \/ c.state = "ended" /\ c.err /\ gate' = [gate EXCEPT ![g] = fail]
      \/ c.state = "ended" /\ Exit(g, c)
  <2> HIDE DEF b, c
  <2>1. c.err \in BOOLEAN
    BY <1>2, Zenon DEF Gate
  <2> QED
    BY <2>1, Zenon DEF AfterDrain, b, c
<1> HIDE DEF c
<1>4. DirectQueue' = DirectQueue /\ Unsent' = Unsent
  BY Zenon DEF DirectQueue, Unsent
<1>5. cur' \in Gens /\ prod' \in Sending
  BY Zenon DEF StreamInv
<1>6. CASE c.state # "ended" /\ gate' = [gate EXCEPT ![g] = go]
  <2>1. go \in Gate /\ Sound(go) /\ Alike(gate[g], go)
    BY <1>2 DEF Gate, FlusherSteps, Sound, Alike, GateQueue
  <2> HIDE DEF go
  <2> QED
    BY <1>4, <1>5, <1>6, <2>1, AlikeFollows, Zenon
<1>7. CASE c.state = "ended" /\ c.err /\ gate' = [gate EXCEPT ![g] = fail]
  <2>1. a.buf = <<>> /\ ~gate[g].failed
    BY <1>2, <1>7, Zenon DEF Sound
  <2>2. fail \in Gate /\ Sound(fail) /\ fail.failed = TRUE /\ GateQueue(fail) = <<Err>>
    BY <1>2, <1>7, <2>1, Zenon DEF Gate, FlusherSteps, Sound, GateQueue
  <2> HIDE DEF fail
  <2>3. StreamInv' /\ Aside(g) /\ gate'[g] = fail
    BY <1>5, <1>7, <2>2, OneGate, Zenon
  <2>4. /\ Others(g) /\ LaneQueue(g) = <<>> /\ LaneQueue(g)' = <<Err>>
        /\ \A h \in Gens \ {g} : gate'[h].failed = gate[h].failed
    BY <1>4, <2>1, <2>2, <2>3, LanesAside, Zenon DEF Aside, Alike
  <2> QED
    BY <1>4, <2>1, <2>2, <2>3, <2>4, SeenAsFail, Zenon DEF Follows
<1>8. CASE c.state = "ended" /\ Exit(g, c)
  BY <1>2, <1>8, ExitFollows, Zenon
<1> QED
  BY <1>3, <1>6, <1>7, <1>8, Zenon

\* The flusher takes the next chunk in hand, or its loop body ends (drainBufferLocked).
LEMMA DrainFollows ==
    ASSUME StreamInv, NEW g \in Gens, gate[g].flusher \in {"check", "sent", "pace"},
           Drain(g, gate[g]), UNCHANGED <<cur, prod, out>>
    PROVE  Follows
<1> DEFINE a == gate[g]
           b == [a EXCEPT !.hand = Head(a.buf), !.buf = Tail(a.buf), !.flusher = "send"]
<1>1. a \in Gate /\ Sound(a) /\ GateQueue(a) = a.buf
  BY QueueByStep, Zenon DEF StreamInv
<1>2. CASE a.state # "paused" /\ a.buf # <<>>
  <2>1. gate' = [gate EXCEPT ![g] = b]
    BY <1>2, Zenon DEF Drain
  <2>2. a.buf \in Seq(Chunk)
    BY <1>1, Zenon DEF Gate
  <2>3. Head(a.buf) \in Chunk /\ Tail(a.buf) \in Seq(Chunk) /\ <<Head(a.buf)>> \o Tail(a.buf) = a.buf
    BY <1>2, <2>2
  <2>4. b \in Gate /\ Sound(b) /\ b.failed = a.failed
    BY <1>1, <2>3, ChunkIsNat, Zenon DEF Gate, FlusherSteps, Sound
  <2>5. Alike(a, b)
    BY <1>1, <2>3, <2>4, QueueByStep, Zenon DEF Alike, Gate
  <2>6. DirectQueue' = DirectQueue /\ Unsent' = Unsent /\ cur' \in Gens /\ prod' \in Sending
    BY Zenon DEF DirectQueue, Unsent, StreamInv
  <2> HIDE DEF b
  <2> QED
    BY <2>1, <2>4, <2>5, <2>6, AlikeFollows, Zenon
<1>3. CASE ~(a.state # "paused" /\ a.buf # <<>>)
  BY <1>1, <1>3, AfterDrainFollows, Zenon DEF Drain
<1> QED
  BY <1>2, <1>3, Zenon

\* Every step of a flusher.
LEMMA FlusherFollows == ASSUME StreamInv, NEW g \in Gens, Flusher(g) PROVE Follows
<1> DEFINE a == gate[g]
<1>0. /\ a \in Gate /\ Sound(a) /\ cur \in Gens /\ prod \in Sending
      /\ gate \in [Gens -> Gate] /\ UNCHANGED <<cur, prod>>
  BY Zenon DEF StreamInv, Flusher, FlusherCheck, FlusherSend, FlusherCancel, FlusherSent,
         FlusherPaced, FlusherAbandon, FlusherSendErr, FlusherErrCancel
<1>1. DirectQueue' = DirectQueue /\ Unsent' = Unsent
  BY <1>0, Zenon DEF DirectQueue, Unsent
<1>2. CASE FlusherCheck(g)
  <2> DEFINE b == [a EXCEPT !.flusher = "asleep"]
  <2>1. CASE gate' = [gate EXCEPT ![g] = b]
    <3>1. b \in Gate /\ Sound(b) /\ Alike(a, b) /\ out' = out
      BY <1>0, <1>2, Zenon DEF Gate, FlusherSteps, Sound, Alike, GateQueue, FlusherCheck
    <3> HIDE DEF b
    <3> QED
      BY <1>0, <1>1, <2>1, <3>1, AlikeFollows, Zenon
  <2>2. CASE Drain(g, a)
    BY <1>0, <1>2, <2>2, DrainFollows, Zenon DEF FlusherCheck
  <2> QED
    BY <1>0, <1>2, <2>1, <2>2, Zenon DEF FlusherCheck
<1>3. CASE FlusherSend(g)
  <2> DEFINE b == [a EXCEPT !.flusher = "sent", !.hand = Err]
             q == GateQueue(a)
  <2>1. /\ gate' = [gate EXCEPT ![g] = b] /\ out' = Append(out, a.hand)
        /\ a.flusher = "send"
    BY <1>0, <1>3, Zenon DEF FlusherSend, Write
  <2>2. b \in Gate /\ Sound(b) /\ GateQueue(b) = a.buf /\ b.failed = a.failed
    BY <1>0, <2>1, ChunkIsNat, Zenon DEF Gate, FlusherSteps, Sound, GateQueue
  <2> HIDE DEF b
  <2>3. StreamInv' /\ Aside(g) /\ gate'[g] = b
    BY <1>0, <2>1, <2>2, OneGate, Zenon
  <2>4. q = <<a.hand>> \o a.buf /\ a.hand \in Hand /\ a.buf \in Seq(Chunk)
    BY <1>0, <2>1, QueueByStep, Zenon DEF Gate
  <2>5. Others(g) /\ NoError /\ LaneQueue(g) = q /\ LaneQueue(g)' = a.buf /\ g \in Lanes
    BY <1>1, <2>2, <2>3, LanesAside, StreamAssumption DEF Gens, Lanes
  <2> HIDE DEF q
  <2>6. q # <<>> /\ Head(q) = a.hand /\ Tail(q) = a.buf
    BY <2>4
  <2> QED
    BY <1>1, <2>1, <2>3, <2>5, <2>6, SeenAsDeliver, Zenon DEF Follows
<1>4. CASE FlusherCancel(g)
  <2> DEFINE b == [a EXCEPT !.flusher = "cancelled", !.hand = Err]
  <2>1. /\ gate' = [gate EXCEPT ![g] = b] /\ out' = out
        /\ a.flusher \in {"send", "pace"}
    BY <1>0, <1>4, Zenon DEF FlusherCancel
  <2>2. b \in Gate /\ Sound(b) /\ GateQueue(b) = <<>> /\ b.failed = a.failed
    BY <1>0, <2>1, ChunkIsNat, Zenon DEF Gate, FlusherSteps, Sound, GateQueue
  <2> HIDE DEF b
  <2>3. StreamInv' /\ Aside(g) /\ gate'[g] = b
    BY <1>0, <2>1, <2>2, OneGate, Zenon
  <2>4. /\ Others(g) /\ NoError /\ LaneQueue(g)' = <<>> /\ g \in Lanes
    BY <1>1, <2>2, <2>3, LanesAside, StreamAssumption DEF Gens, Lanes
  <2>5. CASE LaneQueue(g) = <<>>
    <3>1. \A m \in Lanes : LaneQueue(m)' = LaneQueue(m)
      BY <2>4, <2>5, Zenon DEF Others
    <3> QED
      BY <1>1, <2>1, <2>3, <2>4, <3>1, SeenAsNothing, Zenon DEF Follows
  <2>6. CASE LaneQueue(g) # <<>>
    BY <1>1, <2>1, <2>3, <2>4, <2>6, SeenAsDiscard, Zenon DEF Follows
  <2> QED
    BY <2>5, <2>6, Zenon
<1>5. CASE FlusherSent(g)
  <2> DEFINE b == [a EXCEPT !.flusher = "pace"]
  <2>1. CASE gate' = [gate EXCEPT ![g] = b]
    <3>1. b \in Gate /\ Sound(b) /\ Alike(a, b) /\ out' = out
      BY <1>0, <1>5, Zenon DEF Gate, FlusherSteps, Sound, Alike, GateQueue, FlusherSent
    <3> HIDE DEF b
    <3> QED
      BY <1>0, <1>1, <2>1, <3>1, AlikeFollows, Zenon
  <2>2. CASE Drain(g, a)
    BY <1>0, <1>5, <2>2, DrainFollows, Zenon DEF FlusherSent
  <2> QED
    BY <1>0, <1>5, <2>1, <2>2, Zenon DEF FlusherSent
<1>6. CASE FlusherPaced(g)
  BY <1>0, <1>6, DrainFollows, Zenon DEF FlusherPaced
<1>7. CASE FlusherAbandon(g)
  <2> DEFINE e == [a EXCEPT !.buf = <<>>, !.interval = FALSE, !.state = "ended"]
  <2>1. AfterDrain(g, e) /\ out' = out /\ a.flusher = "cancelled"
    BY <1>7, Zenon DEF FlusherAbandon
  <2>2. <<>> \in Seq(Chunk)
    OBVIOUS
  <2>3. /\ e \in Gate /\ Sound(e) /\ e.buf = <<>> /\ e.failed = a.failed
        /\ e.flusher = "cancelled"
    BY <1>0, <2>1, <2>2, Zenon DEF Gate, GateStates, Sound
  <2>4. GateQueue(a) = <<>>
    BY <1>0, <2>1, QueueByStep, Zenon
  <2> HIDE DEF e
  <2> QED
    BY <1>0, <2>1, <2>3, <2>4, AfterDrainFollows, Zenon
<1>8. CASE FlusherSendErr(g)
  <2>1. /\ a.flusher = "sendErr" /\ out' = Append(out, Err) /\ Exit(g, a)
    BY <1>8, Zenon DEF FlusherSendErr, Write
  <2>2. a.buf = <<>> /\ GateQueue(a) = <<Err>>
    BY <1>0, <2>1, QueueByStep, Zenon DEF Sound
  <2> QED
    BY <1>0, <2>1, <2>2, ExitFollows, Zenon
<1>9. CASE FlusherErrCancel(g)
  <2>1. /\ a.flusher = "sendErr" /\ out' = out /\ Exit(g, a)
    BY <1>9, Zenon DEF FlusherErrCancel
  <2>2. a.buf = <<>> /\ GateQueue(a) = <<Err>>
    BY <1>0, <2>1, QueueByStep, Zenon DEF Sound
  <2> QED
    BY <1>0, <2>1, <2>2, ExitFollows, Zenon
<1> QED
  BY <1>2, <1>3, <1>4, <1>5, <1>6, <1>7, <1>8, <1>9, Zenon DEF Flusher

\* The forced teardown drops what is buffered (cleanupStreamAccumulator, force-end).
LEMMA CleanupFollows == ASSUME StreamInv, ForceCleanup PROVE Follows
<1> DEFINE e == [gate[cur] EXCEPT !.state = "ended", !.terminal = FALSE, !.err = FALSE,
                                  !.interval = FALSE, !.buf = <<>>]
           b == Broadcast(e)
<1>0. /\ cur \in Gens /\ prod \in Sending /\ gate \in [Gens -> Gate]
      /\ gate[cur] \in Gate /\ Sound(gate[cur]) /\ UNCHANGED <<cur, prod, out>>
  BY Zenon DEF StreamInv, ForceCleanup
<1>1. \/ gate' = gate
      \/ gate[cur].state # "ended" /\ gate' = [gate EXCEPT ![cur] = b]
  BY Zenon DEF ForceCleanup
<1>2. CASE gate' = gate
  BY <1>0, <1>2, NothingFollows, Zenon DEF DirectQueue, Unsent
<1>3. CASE gate[cur].state # "ended" /\ gate' = [gate EXCEPT ![cur] = b]
  <2>1. <<>> \in Seq(Chunk) /\ ~gate[cur].failed
    BY <1>0, <1>3 DEF Sound
  <2>2. /\ e \in Gate /\ Sound(e) /\ e.failed = gate[cur].failed /\ e.buf = <<>>
        /\ e.hand = gate[cur].hand /\ e.flusher = gate[cur].flusher
        /\ gate[cur].flusher # "sendErr"
    BY <1>0, <2>1, Zenon DEF Gate, GateStates, Sound
  <2> HIDE DEF e
  <2>3. /\ b \in Gate /\ Sound(b) /\ b.failed = e.failed /\ b.buf = <<>> /\ b.hand = e.hand
        /\ b.flusher = e.flusher \/ (e.flusher = "asleep" /\ b.flusher = "check")
    BY <2>2, BroadcastAlike DEF Broadcast, Gate
  <2> HIDE DEF b
  <2> QED
    BY <1>0, <1>3, <2>2, <2>3, ClearFollows, Zenon DEF FlusherSteps
<1> QED
  BY <1>1, <1>2, <1>3, Zenon

\* Sequences of one chunk, and a chunk in front of an appended one.
LEMMA OneChunk ==
    ASSUME NEW c
    PROVE  /\ Append(<<>>, c) = <<c>> /\ <<c>> # <<>>
           /\ Head(<<c>>) = c /\ Tail(<<c>>) = <<>>
OBVIOUS

LEMMA HandBeforeBuffer ==
    ASSUME NEW h \in Hand, NEW c \in Chunk, NEW s \in Seq(Chunk)
    PROVE  <<h>> \o Append(s, c) = Append(<<h>> \o s, c)
<1>a. c \in Hand /\ s \in Seq(Hand)
  BY ChunkIsNat
<1> DEFINE l == <<h>> \o Append(s, c)
           r == Append(<<h>> \o s, c)
<1>0. Len(s) \in Nat /\ <<h>> \in Seq(Hand) /\ Len(<<h>>) = 1 /\ <<h>>[1] = h
  BY <1>a
<1>1. Append(s, c) \in Seq(Hand) /\ <<h>> \o s \in Seq(Hand)
  BY <1>a
<1>2. l \in Seq(Hand) /\ r \in Seq(Hand)
  BY <1>a, <1>1
<1>3. Len(l) = Len(s) + 2 /\ Len(r) = Len(s) + 2
  BY <1>a, <1>0, <1>1
<1>4. ASSUME NEW i \in 1..(Len(s) + 2) PROVE l[i] = r[i]
  <2>1. CASE i = 1
    BY <1>a, <1>0, <1>1, <2>1
  <2>2. CASE i \in 2..(Len(s) + 1)
    BY <1>a, <1>0, <1>1, <2>2
  <2>3. CASE i = Len(s) + 2
    BY <1>a, <1>0, <1>1, <2>3
  <2> QED
    BY <1>a, <1>0, <2>1, <2>2, <2>3
<1>5. DOMAIN l = 1..(Len(s) + 2) /\ DOMAIN r = 1..(Len(s) + 2)
  BY <1>a, <1>0, <1>2, <1>3
<1> QED
  BY <1>2, <1>3, <1>4, <1>5

\* A chunk appended to the buffer of a gate joins its lane, or is lost with it when the
\* flusher has been cancelled.
LEMMA Buffered ==
    ASSUME NEW a \in Gate, NEW b \in Gate, NEW c \in Chunk, a.flusher # "sendErr",
           b.flusher = a.flusher, b.hand = a.hand, b.buf = Append(a.buf, c)
    PROVE  GateQueue(b) \in {GateQueue(a), Append(GateQueue(a), c)}
<1>1. a.buf \in Seq(Chunk) /\ a.hand \in Hand
  BY Zenon DEF Gate
<1>2. CASE a.flusher = "send"
  <2>1. <<a.hand>> \o Append(a.buf, c) = Append(<<a.hand>> \o a.buf, c)
    BY <1>1, HandBeforeBuffer, Zenon
  <2> QED
    BY <1>2, <2>1, QueueByStep, Zenon
<1>3. CASE a.flusher # "send"
  BY <1>3, QueueByStep, Zenon
<1> QED
  BY <1>2, <1>3, Zenon

\* The provider goes on to its next chunk or to the end of the stream.
LEMMA Advances ==
    ASSUME prod \in Sending, Advance
    PROVE  prod' \in Sending /\ DirectQueue' = <<>> /\ Unsent' = prod.chunk + 1
<1>1. CASE prod' = [prod EXCEPT !.at = "end"]
  BY <1>1, Zenon DEF Sending, ProducerSteps, DirectQueue, Unsent
<1>2. CASE /\ prod.chunk < Chunks
           /\ \E last \in BOOLEAN :
                prod' = [at |-> "hook", chunk |-> prod.chunk + 1, final |-> last, gen |-> 0]
  <2>1. prod.chunk + 1 \in Chunk /\ 0 \in 0..MaxGen
    BY <1>2, StreamAssumption DEF Sending, Chunk
  <2> QED
    BY <1>2, <2>1 DEF Sending, ProducerSteps, DirectQueue, Unsent
<1> QED
  BY <1>1, <1>2, Zenon DEF Advance

\* The provider's chunk joins a gate's lane or is refused, and the provider goes on.
LEMMA HandedFollows ==
    ASSUME StreamInv, prod.at = "send", Advance, NEW g \in Gens, NEW b \in Gate, Sound(b),
           b.failed = gate[g].failed, gate' = [gate EXCEPT ![g] = b], cur' \in Gens, out' = out,
           \/ GateQueue(b) = GateQueue(gate[g])
           \/ ~gate[g].failed /\ GateQueue(b) = Append(GateQueue(gate[g]), prod.chunk)
    PROVE  Follows
<1>1. prod \in Sending /\ Unsent = prod.chunk /\ Unsent \in Nat /\ DirectQueue = <<>>
  BY ChunkIsNat, Zenon DEF StreamInv, Sending, Unsent, DirectQueue
<1>2. prod' \in Sending /\ DirectQueue' = <<>> /\ Unsent' = Unsent + 1
  BY <1>1, Advances, Zenon
<1>3. StreamInv' /\ Aside(g) /\ gate'[g] = b
  BY <1>2, OneGate, Zenon
<1>4. /\ Others(g) /\ NoError /\ LaneQueue(g) = GateQueue(gate[g]) /\ g \in Lanes
      /\ LaneQueue(g)' = GateQueue(b)
  BY <1>1, <1>2, <1>3, LanesAside, StreamAssumption DEF Gens, Lanes
<1>5. CASE GateQueue(b) = GateQueue(gate[g])
  <2>1. \A m \in Lanes : LaneQueue(m)' = LaneQueue(m)
    BY <1>4, <1>5, Zenon DEF Others
  <2> QED
    BY <1>1, <1>2, <1>3, <1>4, <2>1, SeenAsRefuse, Zenon DEF Follows
<1>6. CASE ~gate[g].failed /\ GateQueue(b) = Append(GateQueue(gate[g]), prod.chunk)
  BY <1>1, <1>2, <1>3, <1>4, <1>6, SeenAsPut, Zenon DEF Follows
<1> QED
  BY <1>5, <1>6, Zenon

\* A chunk taken by the direct lane, with the gates alike.
LEMMA TakenFollows ==
    ASSUME StreamInv, prod.at = "send", prod' = [prod EXCEPT !.at = "direct"],
           gate' \in [Gens -> Gate], \A g \in Gens : Sound(gate'[g]),
           \A g \in Gens : Alike(gate[g], gate'[g]), cur' \in Gens, out' = out
    PROVE  Follows
<1>1. /\ prod \in Sending /\ Unsent = prod.chunk /\ Unsent \in Nat /\ DirectQueue = <<>>
      /\ prod' \in Sending /\ Unsent' = Unsent + 1 /\ DirectQueue' = <<Unsent>>
  BY ChunkIsNat, Zenon DEF StreamInv, Sending, ProducerSteps, Unsent, DirectQueue
<1>2. StreamInv'
  BY <1>1, Zenon DEF StreamInv
<1>3. LaneQueue(0) = <<>> /\ LaneQueue(0)' = <<Unsent>> /\ 0 \in Lanes
  BY <1>1, StreamAssumption DEF LaneQueue, Lanes
<1>4. Others(0) /\ NoError
  BY StreamAssumption DEF Others, NoError, LaneQueue, Lanes, Gens, Alike
<1>5. LaneQueue(0)' = Append(LaneQueue(0), Unsent)
  BY <1>3, OneChunk, Zenon
<1> QED
  BY <1>1, <1>2, <1>3, <1>4, <1>5, SeenAsPut, Zenon DEF Follows

\* The direct lane writes its chunk or gives it up.
LEMMA DirectFollows ==
    ASSUME StreamInv, prod.at = "direct", Advance, UNCHANGED <<gate, cur>>,
           out' \in {out, Append(out, prod.chunk)}
    PROVE  Follows
<1>1. prod \in Sending /\ Unsent = prod.chunk + 1 /\ DirectQueue = <<prod.chunk>>
  BY Zenon DEF StreamInv, Sending, Unsent, DirectQueue
<1>2. prod' \in Sending /\ DirectQueue' = <<>> /\ Unsent' = Unsent
  BY <1>1, Advances, Zenon
<1>3. StreamInv'
  BY <1>2, Zenon DEF StreamInv
<1>4. LaneQueue(0) = <<prod.chunk>> /\ LaneQueue(0)' = <<>> /\ 0 \in Lanes
  BY <1>1, <1>2, StreamAssumption DEF LaneQueue, Lanes
<1>5. Others(0) /\ NoError
  BY StreamAssumption, Zenon DEF Others, NoError, LaneQueue, Lanes
<1>6. /\ LaneQueue(0) # <<>> /\ Head(LaneQueue(0)) = prod.chunk
      /\ Tail(LaneQueue(0)) = <<>>
  BY <1>4, OneChunk, Zenon
<1>7. CASE out' = out
  BY <1>2, <1>3, <1>4, <1>5, <1>6, <1>7, SeenAsDiscard, Zenon DEF Follows
<1>8. CASE out' = Append(out, prod.chunk)
  BY <1>2, <1>3, <1>4, <1>5, <1>6, <1>8, SeenAsDeliver, Zenon DEF Follows
<1> QED
  BY <1>7, <1>8, Zenon

\* The provider hands its chunk to a gate (GateSend): each of the gate's answers.
LEMMA GateSendFollows ==
    ASSUME StreamInv,
           GateSendEnded \/ GateSendOverflow \/ GateSendPaused \/ GateSendQueued
    PROVE  Follows
<1>0. /\ gate \in [Gens -> Gate] /\ (\A g \in Gens : Sound(gate[g])) /\ prod \in Sending
      /\ prod.chunk \in Chunk /\ prod.final \in BOOLEAN /\ prod.at = "send" /\ Advance /\ out' = out
  BY Zenon DEF StreamInv, Sending, GateSendEnded, GateSendOverflow, GateSendPaused, GateSendQueued
<1>1. \A g \in Gens :
        /\ Entered(g) \in Gate /\ Sound(Entered(g)) /\ Alike(gate[g], Entered(g))
        /\ Entered(g).flusher = gate[g].flusher /\ Entered(g).hand = gate[g].hand
        /\ Entered(g).buf = gate[g].buf /\ Entered(g).failed = gate[g].failed
        /\ Entered(g).state = gate[g].state
  BY <1>0, ZenonT(30) DEF Entered, Gate, Sound, Alike, GateQueue
<1>2. CASE GateSendEnded
  <2>1. PICK g \in Gens : cur' = g /\ gate' = [gate EXCEPT ![g] = Entered(g)]
    BY <1>2, Zenon DEF GateSendEnded, GetOrCreate
  <2> QED
    BY <1>0, <1>1, <2>1, HandedFollows, Zenon DEF Alike
<1>3. CASE GateSendOverflow
  <2>1. PICK g \in Gens :
          /\ cur' = g /\ gate[g].state = "paused"
          /\ gate' = [gate EXCEPT ![g] = Broadcast(StartFlusher(
                      [Entered(g) EXCEPT !.state = "ended", !.interval = FALSE, !.err = TRUE]))]
    BY <1>3, Zenon DEF GateSendOverflow, GetOrCreate
  <2> DEFINE e == [Entered(g) EXCEPT !.state = "ended", !.interval = FALSE, !.err = TRUE]
             b == Broadcast(StartFlusher(e))
  <2>2. e \in Gate /\ Sound(e) /\ Alike(Entered(g), e)
    <3> DEFINE x == Entered(g)
    <3>1. x \in Gate /\ x.flusher = "sendErr" => x.failed /\ x.buf = <<>>
      BY <1>1, Zenon DEF Sound
    <3>2. x \in Gate /\ ~x.failed
      BY <1>0, <1>1, <2>1, Zenon DEF Sound
    <3> HIDE DEF x
    <3>3. /\ e \in Gate /\ e.failed = x.failed /\ e.flusher = x.flusher /\ e.buf = x.buf
          /\ e.hand = x.hand
      BY <3>2, Zenon DEF Gate, GateStates, x
    <3> QED
      BY <3>1, <3>2, <3>3, FieldsAlike, Zenon DEF Sound, x
  <2>3. gate' = [gate EXCEPT ![g] = b]
    BY <2>1, Zenon
  <2> HIDE DEF e
  <2>4. b \in Gate /\ Sound(b) /\ Alike(e, b)
    BY <2>2, StartFlusherAlike, BroadcastAlike, Zenon DEF Alike
  <2> HIDE DEF b
  <2> QED
    BY <1>0, <1>1, <2>1, <2>2, <2>3, <2>4, HandedFollows, ZenonT(30) DEF Alike
<1>4. CASE GateSendPaused
  <2>1. PICK g \in Gens :
          /\ cur' = g /\ gate[g].state = "paused"
          /\ LET a == StartFlusher([Entered(g) EXCEPT !.buf = Append(@, prod.chunk),
                                                      !.terminal = @ \/ prod.final])
             IN  gate' = [gate EXCEPT ![g] =
                            IF a.interval THEN Broadcast([a EXCEPT !.state = "active"]) ELSE a]
    BY <1>4, Zenon DEF GateSendPaused, GetOrCreate
  <2> DEFINE e == [Entered(g) EXCEPT !.buf = Append(@, prod.chunk),
                                     !.terminal = @ \/ prod.final]
             a == StartFlusher(e)
             w == [a EXCEPT !.state = "active"]
             b == IF a.interval THEN Broadcast(w) ELSE a
  <2>2. gate' = [gate EXCEPT ![g] = b]
    BY <2>1, Zenon
  <2>3. ~gate[g].failed /\ gate[g].flusher # "sendErr"
    BY <1>0, <2>1, Zenon DEF Sound
  <2>4. Append(Entered(g).buf, prod.chunk) \in Seq(Chunk)
    BY <1>0, <1>1 DEF Gate
  <2>5. /\ e \in Gate /\ Sound(e) /\ ~e.failed /\ e.flusher = gate[g].flusher
        /\ e.hand = gate[g].hand /\ e.buf = Append(gate[g].buf, prod.chunk)
    <3> DEFINE x == Entered(g)
    <3>1. /\ x \in Gate /\ ~x.failed /\ x.flusher = gate[g].flusher /\ x.buf = gate[g].buf
          /\ x.hand = gate[g].hand /\ Append(x.buf, prod.chunk) \in Seq(Chunk)
      BY <1>1, <2>3, <2>4, Zenon
    <3> HIDE DEF x
    <3>2. /\ e \in Gate /\ e.failed = x.failed /\ e.flusher = x.flusher
          /\ e.hand = x.hand /\ e.buf = Append(x.buf, prod.chunk)
      BY <1>0, <3>1, Zenon DEF Gate, GateStates, x
    <3> QED
      BY <2>3, <3>1, <3>2, Zenon DEF Sound
  <2>6. GateQueue(e) \in {GateQueue(gate[g]), Append(GateQueue(gate[g]), prod.chunk)}
    BY <1>0, <2>3, <2>5, Buffered, Zenon
  <2> HIDE DEF e
  <2>7. a \in Gate /\ Sound(a) /\ Alike(e, a) /\ ~a.failed
    BY <2>5, StartFlusherAlike, Zenon DEF Alike
  <2> HIDE DEF a
  <2>8. w \in Gate /\ Sound(w) /\ Alike(a, w)
    BY <2>7, Zenon DEF Gate, GateStates, Sound, Alike, GateQueue
  <2> HIDE DEF w
  <2>9. b \in Gate /\ Sound(b) /\ Alike(e, b)
    BY <2>7, <2>8, BroadcastAlike, Zenon DEF Alike
  <2> HIDE DEF b
  <2>10. b.failed = gate[g].failed
    BY <1>0, <2>3, <2>5, <2>9, Zenon DEF Alike, Gate
  <2> QED
    BY <1>0, <2>1, <2>2, <2>3, <2>6, <2>9, <2>10, HandedFollows, Zenon DEF Alike
<1>5. CASE GateSendQueued
  <2>1. PICK g \in Gens :
          /\ cur' = g /\ gate[g].state = "active"
          /\ gate' = [gate EXCEPT ![g] = Broadcast(
                      [Entered(g) EXCEPT !.buf = Append(@, prod.chunk),
                                         !.state = IF prod.final THEN "ended" ELSE @])]
    BY <1>5, Zenon DEF GateSendQueued, GetOrCreate
  <2> DEFINE e == [Entered(g) EXCEPT !.buf = Append(@, prod.chunk),
                                     !.state = IF prod.final THEN "ended" ELSE @]
             b == Broadcast(e)
  <2>2. gate' = [gate EXCEPT ![g] = b]
    BY <2>1, Zenon
  <2>3. ~gate[g].failed /\ gate[g].flusher # "sendErr"
    BY <1>0, <2>1, Zenon DEF Sound
  <2>4. Append(Entered(g).buf, prod.chunk) \in Seq(Chunk)
    BY <1>0, <1>1 DEF Gate
  <2>5. /\ e \in Gate /\ Sound(e) /\ ~e.failed /\ e.flusher = gate[g].flusher
        /\ e.hand = gate[g].hand /\ e.buf = Append(gate[g].buf, prod.chunk)
    <3> DEFINE x == Entered(g)
    <3>1. /\ x \in Gate /\ ~x.failed /\ x.flusher = gate[g].flusher /\ x.buf = gate[g].buf
          /\ x.hand = gate[g].hand /\ Append(x.buf, prod.chunk) \in Seq(Chunk)
      BY <1>1, <2>3, <2>4
    <3> HIDE DEF x
    <3>2. /\ e \in Gate /\ e.failed = x.failed /\ e.flusher = x.flusher
          /\ e.hand = x.hand /\ e.buf = Append(x.buf, prod.chunk)
      BY <1>0, <3>1, Zenon DEF Gate, GateStates, x
    <3> QED
      BY <2>3, <3>1, <3>2, Zenon DEF Sound
  <2>6. GateQueue(e) \in {GateQueue(gate[g]), Append(GateQueue(gate[g]), prod.chunk)}
    BY <1>0, <2>3, <2>5, Buffered, Zenon
  <2> HIDE DEF e
  <2>7. b \in Gate /\ Sound(b) /\ Alike(e, b)
    BY <2>5, BroadcastAlike, Zenon
  <2> HIDE DEF b
  <2>8. b.failed = gate[g].failed
    BY <1>0, <2>3, <2>5, <2>7 DEF Alike, Gate
  <2> QED
    BY <1>0, <2>1, <2>2, <2>3, <2>6, <2>7, <2>8, HandedFollows, Zenon DEF Alike
<1> QED
  BY <1>2, <1>3, <1>4, <1>5, Zenon

\* Every step of the provider goroutine.
LEMMA ProducerFollows == ASSUME StreamInv, Producer PROVE Follows
<1>0. /\ gate \in [Gens -> Gate] /\ (\A g \in Gens : Sound(gate[g]))
      /\ cur \in Gens /\ prod \in Sending
  BY Zenon DEF StreamInv
<1>1. CASE RunPostHooks
  <2>1. gate' = gate \/ Release(gate)
    BY <1>1, Zenon DEF RunPostHooks
  <2>2. /\ gate' \in [Gens -> Gate]
        /\ \A g \in Gens : Sound(gate'[g]) /\ Alike(gate[g], gate'[g])
    <3>1. CASE gate' = gate
      BY <1>0, <3>1, Zenon DEF Alike
    <3>2. CASE Release(gate)
      BY <1>0, <3>2, ReleaseAlike, Zenon
    <3> QED
      BY <2>1, <3>1, <3>2, Zenon
  <2>3. /\ prod' \in Sending /\ DirectQueue' = DirectQueue /\ Unsent' = Unsent
        /\ out' = out /\ cur' = cur
    BY <1>0, <1>1, Zenon DEF RunPostHooks, Sending, ProducerSteps, DirectQueue, Unsent
  <2>4. StreamInv' /\ NoError
    BY <1>0, <2>2, <2>3, Zenon DEF StreamInv, NoError, Alike
  <2>5. \A m \in Lanes : LaneQueue(m)' = LaneQueue(m)
    BY <2>2, <2>3, StreamAssumption DEF LaneQueue, Lanes, Gens, Alike
  <2> QED
    BY <2>3, <2>4, <2>5, SeenAsNothing, Zenon DEF Follows
<1>2. CASE SendUngated
  BY <1>0, <1>2, TakenFollows, Zenon DEF SendUngated, Alike
<1>3. CASE GateSendEnded \/ GateSendOverflow \/ GateSendPaused \/ GateSendQueued
  BY <1>3, GateSendFollows, Zenon
<1>4. CASE GateSendDirect
  <2>1. PICK g \in Gens :
          /\ cur' = g /\ gate[g].state = "active"
          /\ gate' = [gate EXCEPT ![g] =
                      [Entered(g) EXCEPT !.state = IF prod.final THEN "ended" ELSE @]]
    BY <1>4, Zenon DEF GateSendDirect, GetOrCreate
  <2> DEFINE b == [Entered(g) EXCEPT !.state = IF prod.final THEN "ended" ELSE @]
  <2>2. b \in Gate /\ Sound(b) /\ Alike(gate[g], b)
    BY <1>0, <2>1, ZenonT(30) DEF Entered, Gate, GateStates, Sound, Alike, GateQueue
  <2>3. gate' = [gate EXCEPT ![g] = b]
    BY <2>1, Zenon
  <2> HIDE DEF b
  <2>4. /\ gate' \in [Gens -> Gate]
        /\ \A h \in Gens : Sound(gate'[h]) /\ Alike(gate[h], gate'[h])
    BY <1>0, <2>2, <2>3, Zenon DEF Alike
  <2> QED
    BY <1>4, <2>1, <2>4, TakenFollows, Zenon DEF GateSendDirect
<1>5. CASE DirectSend
  BY <1>5, DirectFollows, Zenon DEF DirectSend, Write
<1>6. CASE DirectCancel
  BY <1>6, DirectFollows, Zenon DEF DirectCancel
<1>7. CASE CloseStreamEnd
  <2>1. /\ prod' \in Sending /\ DirectQueue' = DirectQueue /\ Unsent' = Unsent /\ out' = out
    BY <1>0, <1>7, Zenon DEF CloseStreamEnd, Sending, ProducerSteps, DirectQueue, Unsent
  <2>2. CASE UNCHANGED <<gate, cur>>
    BY <1>0, <2>1, <2>2, NothingFollows, Zenon
  <2>3. CASE \E g \in Gens : cur' = g /\ gate' = [gate EXCEPT ![g] = EndGate(gate[g], FALSE)]
    BY <1>0, <2>1, <2>3, EndGateAlike, AlikeFollows, Zenon
  <2> QED
    BY <1>7, <2>2, <2>3, Zenon DEF CloseStreamEnd, GetOrCreate
<1>8. CASE WaitForFlusher \/ CloseChannel
  <2>1. /\ prod' \in Sending /\ DirectQueue' = DirectQueue /\ Unsent' = Unsent
        /\ UNCHANGED <<gate, cur, out>>
    BY <1>0, <1>8, StreamAssumption
       DEF WaitForFlusher, CloseChannel, Sending, ProducerSteps, DirectQueue, Unsent, Gens
  <2> QED
    BY <1>0, <2>1, NothingFollows, Zenon
<1> QED
  BY <1>1, <1>2, <1>3, <1>4, <1>5, <1>6, <1>7, <1>8, Zenon DEF Producer
-----------------------------------------------------------------------------
\* The initial state has empty lanes and sound gates.
LEMMA InitFollows == Init => StreamInv /\ Delivery!Init
<1> SUFFICES ASSUME Init PROVE StreamInv /\ Delivery!Init
  BY Zenon
<1>1. <<>> \in Seq(Chunk)
  OBVIOUS
<1>2. NewGate \in Gate /\ Sound(NewGate) /\ GateQueue(NewGate) = <<>> /\ ~NewGate.failed
  BY <1>1, ChunkIsNat, Zenon DEF NewGate, Gate, GateStates, FlusherSteps, Sound, GateQueue
<1>3. gate = [g \in Gens |-> NewGate] /\ cur \in Gens /\ prod \in Sending
  <2>1. 1 \in Gens /\ 1 \in Chunk /\ 0 \in 0..MaxGen
    BY StreamAssumption DEF Gens, Chunk
  <2> QED
    BY <2>1, Zenon DEF Init, Sending, ProducerSteps
<1>4. Unsent - 1 = 0 /\ DirectQueue = <<>> /\ out = <<>>
  BY DEF Init, Unsent, DirectQueue
<1>5. \A l \in 0..MaxGen : LaneQueue(l) = <<>>
  BY <1>2, <1>3, <1>4, StreamAssumption DEF LaneQueue, Gens
<1> QED
  BY <1>2, <1>3, <1>4, <1>5, Zenon DEF StreamInv, Delivery!Init

\* Every step is one of StreamDelivery's or none.
LEMMA NextFollows == StreamInv /\ [Next]_vars => Follows
<1> SUFFICES ASSUME StreamInv, [Next]_vars PROVE Follows
  BY Zenon
<1>1. CASE Control
  BY <1>1, ControlFollows, Zenon
<1>2. CASE Producer
  BY <1>2, ProducerFollows
<1>3. CASE ForceCleanup
  BY <1>3, CleanupFollows
<1>4. CASE Receive \/ Cancel \/ UNCHANGED vars
  <2>1. UNCHANGED <<gate, cur, prod, out>>
    BY <1>4, Zenon DEF Receive, Cancel, vars
  <2> QED
    BY <2>1, NothingFollows, Zenon DEF StreamInv, DirectQueue, Unsent
<1>5. CASE \E g \in Gens : Flusher(g)
  BY <1>5, FlusherFollows, Zenon
<1> QED
  BY <1>1, <1>2, <1>3, <1>4, <1>5, Zenon DEF Next

\* The gate implements StreamDelivery for any number of chunks, plugin calls and
\* accumulators and any buffer and channel: a chunk is refused or joins one lane, a lane
\* delivers in order and at most once, and its synthetic error is its last chunk.
THEOREM GateDelivers == Spec => ImplementsDelivery
<1>1. Spec => []StreamInv
  BY InitFollows, NextFollows, PTL DEF Spec, Follows
<1>2. Init => Delivery!Init
  BY InitFollows, Zenon
<1>3. StreamInv /\ [Next]_vars => [Delivery!Next]_(Delivery!vars)
  BY NextFollows, Zenon DEF Follows
<1> QED
  BY <1>1, <1>2, <1>3, PTL DEF Spec, ImplementsDelivery, Delivery!Spec
-----------------------------------------------------------------------------
(* What the gate's helpers do to what a gate holds. *)

\* The chunks a gate has buffered or its flusher has in hand.
Holding(a) == Range(a.buf) \cup {c \in {a.hand} : a.flusher = "send"}

\* b follows a with the same chunk in hand, and its flusher does not stop.
Steady(a, b) ==
    /\ b.hand = a.hand /\ b.cleanup = a.cleanup
    /\ b.flusher = "send" <=> a.flusher = "send"
    /\ b.flusher = "cancelled" <=> a.flusher = "cancelled"
    /\ On(a) => On(b)

\* And with the same chunks in its buffer.
Calm(a, b) == Steady(a, b) /\ b.buf = a.buf /\ b.target = a.target

\* Sequences and the sets of their elements.
LEMMA ElementsAppended ==
    ASSUME NEW q \in Seq(Chunk), NEW c \in Chunk
    PROVE  Range(Append(q, c)) = Range(q) \cup {c}
<1>1. /\ DOMAIN q = 1..Len(q) /\ DOMAIN Append(q, c) = 1..(Len(q) + 1) /\ Len(q) \in Nat
      /\ Append(q, c)[Len(q) + 1] = c /\ \A i \in 1..Len(q) : Append(q, c)[i] = q[i]
  OBVIOUS
<1> QED
  BY <1>1 DEF Range

\* A sequence has its head's and its tail's elements.
LEMMA ElementsHeadTail ==
    ASSUME NEW q \in Seq(Chunk), q # <<>>
    PROVE  Range(q) = Range(Tail(q)) \cup {Head(q)}
<1>1. /\ DOMAIN q = 1..Len(q) /\ DOMAIN Tail(q) = 1..(Len(q) - 1) /\ Len(q) \in Nat \ {0}
      /\ Head(q) = q[1] /\ \A i \in 1..(Len(q) - 1) : Tail(q)[i] = q[i + 1]
  OBVIOUS
<1>2. \A c \in Range(q) : c \in Range(Tail(q)) \cup {Head(q)}
  <2> SUFFICES ASSUME NEW c \in Range(q), c # Head(q) PROVE c \in Range(Tail(q))
    BY Zenon
  <2>1. PICK i \in 1..Len(q) : q[i] = c
    BY <1>1, Zenon DEF Range
  <2>2. i - 1 \in 1..(Len(q) - 1) /\ i - 1 + 1 = i
    BY <1>1, <2>1
  <2>3. Tail(q)[i - 1] = c
    BY <1>1, <2>1, <2>2
  <2> QED
    BY <1>1, <2>2, <2>3, Zenon DEF Range
<1>3. \A c \in Range(Tail(q)) \cup {Head(q)} : c \in Range(q)
  <2>1. 1 \in DOMAIN q /\ \A i \in 1..(Len(q) - 1) : i + 1 \in DOMAIN q
    BY <1>1
  <2> QED
    BY <1>1, <2>1 DEF Range
<1> QED
  BY <1>2, <1>3

\* The empty sequence has none.
LEMMA NoElements == Range(<<>>) = {}
BY DEF Range

\* Gates that are calm hold the same.
LEMMA CalmHolds == ASSUME NEW a, NEW b, Calm(a, b) PROVE Holding(b) = Holding(a)
BY Zenon DEF Calm, Steady, Holding

\* Calm steps compose.
LEMMA CalmTwice == ASSUME NEW a, NEW b, NEW c, Calm(a, b), Calm(b, c) PROVE Calm(a, c)
BY Zenon DEF Calm, Steady

\* Waking the flusher leaves buffer and hand alone.
LEMMA BroadcastCalm ==
    ASSUME NEW a \in Gate
    PROVE  /\ Calm(a, Broadcast(a)) /\ Broadcast(a).state = a.state
           /\ On(Broadcast(a)) <=> On(a)
BY DEF Broadcast, Gate, Calm, Steady, On

\* So does starting it.
LEMMA StartFlusherCalm ==
    ASSUME NEW a \in Gate
    PROVE  Calm(a, StartFlusher(a)) /\ StartFlusher(a).state = a.state /\ On(StartFlusher(a))
BY DEF StartFlusher, Gate, Calm, Steady, On

\* So does ending the gate (End).
LEMMA EndGateCalm ==
    ASSUME NEW a \in Gate, Sound(a), NEW err \in BOOLEAN
    PROVE  /\ Calm(a, EndGate(a, err)) /\ EndGate(a, err).state = "ended"
           /\ On(EndGate(a, err)) => On(a) \/ (a.target /\ a.state # "ended")
<1> DEFINE e == [a EXCEPT !.state = "ended",
                          !.interval = IF a.state = "paused" THEN FALSE ELSE @,
                          !.err = @ \/ err]
           t == IF e.target /\ (e.buf # <<>> \/ e.err) THEN StartFlusher(e) ELSE e
<1>1. CASE a.state = "ended"
  BY <1>1 DEF EndGate, Calm, Steady
<1>2. CASE a.state # "ended"
  <2>1. /\ e \in Gate /\ Calm(a, e) /\ e.state = "ended" /\ e.target = a.target
        /\ On(e) => On(a)
    BY <1>2, Zenon DEF Gate, GateStates, Calm, Steady, On
  <2>2. /\ t \in Gate /\ Calm(e, t) /\ t.state = "ended" /\ (On(t) => On(e) \/ e.target)
    <3>1. Calm(e, e)
      BY Zenon DEF Calm, Steady
    <3> HIDE DEF e
    <3> QED
      BY <2>1, <3>1, StartFlusherCalm, StartFlusherAlike, Zenon
  <2>3. EndGate(a, err) = Broadcast(t)
    BY <1>2 DEF EndGate
  <2> HIDE DEF e, t
  <2> QED
    BY <1>2, <2>1, <2>2, <2>3, BroadcastCalm, CalmTwice, Zenon
<1> QED
  BY <1>1, <1>2, Zenon

-----------------------------------------------------------------------------
(* What the plugins' calls and the cleanup do to the gates. *)

\* Only the gate g moves.
Alone(g) == \A h \in Gens \ {g} : gate'[h] = gate[h]

\* A call on the gate g that leaves its chunks.
Touches(g) == GetOrCreate(g) /\ Alone(g) /\ Calm(gate[g], gate'[g])

\* A step that assigns one gate leaves the others alone.
LEMMA GateMoves ==
    ASSUME StreamInv, NEW g \in Gens, NEW b, gate' = [gate EXCEPT ![g] = b]
    PROVE  gate'[g] = b /\ Alone(g) /\ gate[g] \in Gate /\ Sound(gate[g])
BY Zenon DEF StreamInv, Alone

\* No change is calm.
LEMMA CalmSelf == ASSUME NEW a PROVE Calm(a, a)
BY Zenon DEF Calm, Steady

\* What Pause does to the gate: an active one is paused, any other stays.
LEMMA PauseMoves ==
    ASSUME StreamInv, Pause
    PROVE  \E g \in Gens :
              /\ Touches(g) /\ (On(gate'[g]) <=> On(gate[g]))
              /\ \/ gate[g].state = "active" /\ gate'[g].state = "paused" /\ leak' = 0
                 \/ gate[g].state # "active" /\ gate'[g].state = gate[g].state /\ leak' = leak
<1>1. PICK g \in Gens :
        /\ GetOrCreate(g)
        /\ IF gate[g].state = "active"
           THEN /\ gate' = [gate EXCEPT ![g].state = "paused", ![g].interval = FALSE]
                /\ leak' = 0
           ELSE UNCHANGED <<gate, leak>>
  BY Zenon DEF Pause
<1>2. CASE gate[g].state = "active"
  <2> DEFINE b == [gate[g] EXCEPT !.state = "paused", !.interval = FALSE]
  <2>1. gate' = [gate EXCEPT ![g] = b] /\ leak' = 0
    BY <1>1, <1>2, Zenon DEF StreamInv
  <2>2. gate[g] \in Gate
    BY Zenon DEF StreamInv
  <2>3. Calm(gate[g], b) /\ b.state = "paused" /\ (On(b) <=> On(gate[g]))
    BY <2>2, Zenon DEF Gate, Calm, Steady, On
  <2> HIDE DEF b
  <2>4. gate'[g] = b /\ Alone(g)
    BY <2>1, GateMoves, Zenon
  <2> QED
    BY <1>1, <1>2, <2>1, <2>3, <2>4, Zenon DEF Touches
<1>3. CASE gate[g].state # "active"
  BY <1>1, <1>3, CalmSelf, Zenon DEF Touches, Alone
<1> QED
  BY <1>2, <1>3, Zenon

\* What Resume does: the gate is not paused, and an ended one stays ended.
LEMMA ResumeMoves ==
    ASSUME StreamInv, Resume
    PROVE  \E g \in Gens :
              /\ Touches(g) /\ (On(gate'[g]) <=> On(gate[g]))
              /\ gate'[g].state # "paused"
              /\ gate[g].state = "ended" => gate'[g].state = "ended"
<1>1. PICK g \in Gens :
        /\ GetOrCreate(g)
        /\ IF gate[g].state = "paused"
           THEN gate' = [gate EXCEPT ![g] =
                           Broadcast([@ EXCEPT !.state = "active", !.interval = FALSE])]
           ELSE UNCHANGED gate
  BY Zenon DEF Resume
<1>2. CASE gate[g].state = "paused"
  <2> DEFINE e == [gate[g] EXCEPT !.state = "active", !.interval = FALSE]
  <2>1. gate' = [gate EXCEPT ![g] = Broadcast(e)]
    BY <1>1, <1>2 DEF StreamInv
  <2>2. gate[g] \in Gate
    BY Zenon DEF StreamInv
  <2>3. e \in Gate /\ Calm(gate[g], e) /\ e.state = "active" /\ (On(e) <=> On(gate[g]))
    BY <2>2, Zenon DEF Gate, GateStates, Calm, Steady, On
  <2> HIDE DEF e
  <2>4. /\ Calm(gate[g], Broadcast(e)) /\ Broadcast(e).state = "active"
        /\ (On(Broadcast(e)) <=> On(gate[g]))
    BY <2>3, BroadcastCalm, CalmTwice, Zenon
  <2> QED
    BY <1>1, <1>2, <2>1, <2>4, GateMoves, Zenon DEF Touches
<1>3. CASE gate[g].state # "paused"
  BY <1>1, <1>3, CalmSelf, Zenon DEF Touches, Alone
<1> QED
  BY <1>2, <1>3, Zenon

\* EndStream, by a plugin or by CloseStream.
LEMMA EndMoves ==
    ASSUME StreamInv, NEW g \in Gens, NEW err \in BOOLEAN, GetOrCreate(g),
           gate' = [gate EXCEPT ![g] = EndGate(@, err)]
    PROVE  /\ Touches(g) /\ gate'[g].state = "ended"
           /\ On(gate'[g]) => On(gate[g]) \/ (gate[g].target /\ gate[g].state # "ended")
<1>1. gate' = [gate EXCEPT ![g] = EndGate(gate[g], err)]
  BY DEF StreamInv
<1>2. gate[g] \in Gate /\ Sound(gate[g])
  BY Zenon DEF StreamInv
<1>3. gate'[g] = EndGate(gate[g], err) /\ Alone(g)
  BY <1>1, GateMoves, Zenon
<1>4. /\ Calm(gate[g], EndGate(gate[g], err)) /\ EndGate(gate[g], err).state = "ended"
      /\ On(EndGate(gate[g], err)) => On(gate[g]) \/ (gate[g].target /\ gate[g].state # "ended")
  BY <1>2, EndGateCalm, Zenon
<1> QED
  BY <1>3, <1>4 DEF Touches

\* What ResumeWithReplayInterval does: it arms the interval only.
LEMMA ReplayMoves ==
    ASSUME StreamInv, ResumeWithReplayInterval
    PROVE  /\ Alone(cur) /\ Calm(gate[cur], gate'[cur])
           /\ gate'[cur].state = gate[cur].state /\ (On(gate'[cur]) <=> On(gate[cur]))
<1> DEFINE b == [gate[cur] EXCEPT !.interval = TRUE]
<1>1. gate' = [gate EXCEPT ![cur] = b] /\ cur \in Gens /\ gate[cur] \in Gate
  BY DEF ResumeWithReplayInterval, StreamInv
<1>2. Calm(gate[cur], b) /\ b.state = gate[cur].state /\ (On(b) <=> On(gate[cur]))
  BY <1>1, Zenon DEF Gate, Calm, Steady, On
<1> HIDE DEF b
<1> QED
  BY <1>1, <1>2, GateMoves, Zenon

\* What ClearPausedBuffer does: it empties the buffer.
LEMMA ClearMoves ==
    ASSUME StreamInv, ClearPausedBuffer
    PROVE  /\ Alone(cur) /\ Steady(gate[cur], gate'[cur])
           /\ gate'[cur].buf = <<>> /\ gate'[cur].target = gate[cur].target
           /\ gate'[cur].state = gate[cur].state /\ (On(gate'[cur]) <=> On(gate[cur]))
<1> DEFINE e == [gate[cur] EXCEPT !.buf = <<>>, !.interval = FALSE, !.terminal = FALSE]
<1>1. gate' = [gate EXCEPT ![cur] = Broadcast(e)] /\ cur \in Gens /\ gate[cur] \in Gate
  BY DEF ClearPausedBuffer, StreamInv
<1>2. <<>> \in Seq(Chunk)
  OBVIOUS
<1>3. /\ e \in Gate /\ Steady(gate[cur], e) /\ e.state = gate[cur].state /\ e.buf = <<>>
      /\ e.target = gate[cur].target /\ (On(e) <=> On(gate[cur]))
  BY <1>1, <1>2, Zenon DEF Gate, Steady, On
<1> HIDE DEF e
<1>4. Calm(e, Broadcast(e)) /\ Broadcast(e).state = e.state /\ (On(Broadcast(e)) <=> On(e))
  BY <1>3, BroadcastCalm, Zenon
<1>5. Steady(gate[cur], Broadcast(e))
  BY <1>3, <1>4, Zenon DEF Calm, Steady
<1>6. gate'[cur] = Broadcast(e) /\ Alone(cur)
  BY <1>1, GateMoves, Zenon
<1> QED
  BY <1>3, <1>4, <1>5, <1>6 DEF Calm

\* What the forced cleanup does: it ends the gate and drops its buffer.
LEMMA ForceMoves ==
    ASSUME StreamInv, ForceCleanup
    PROVE  /\ Alone(cur) /\ Steady(gate[cur], gate'[cur])
           /\ gate'[cur].target = gate[cur].target
           /\ gate'[cur].state = "ended" /\ (On(gate'[cur]) <=> On(gate[cur]))
           /\ \/ gate'[cur].buf = gate[cur].buf /\ owed' = owed
              \/ gate'[cur].buf = <<>> /\ owed' = owed \ Range(gate[cur].buf)
<1> DEFINE e == [gate[cur] EXCEPT !.state = "ended", !.terminal = FALSE, !.err = FALSE,
                                  !.interval = FALSE, !.buf = <<>>]
<1>0. cur \in Gens /\ gate[cur] \in Gate
  BY Zenon DEF StreamInv
<1>1. CASE gate[cur].state = "ended"
  <2>1. gate' = gate /\ owed' = owed
    BY <1>1, Zenon DEF ForceCleanup
  <2> QED
    BY <1>1, <2>1, CalmSelf, Zenon DEF Alone, Calm
<1>2. CASE gate[cur].state # "ended"
  <2>1. gate' = [gate EXCEPT ![cur] = Broadcast(e)] /\ owed' = owed \ Range(gate[cur].buf)
    BY <1>2, Zenon DEF ForceCleanup
  <2>2. <<>> \in Seq(Chunk)
    OBVIOUS
  <2>3. /\ e \in Gate /\ Steady(gate[cur], e) /\ e.state = "ended" /\ e.buf = <<>>
        /\ e.target = gate[cur].target /\ (On(e) <=> On(gate[cur]))
    BY <1>0, <2>2, Zenon DEF Gate, GateStates, Steady, On
  <2> HIDE DEF e
  <2>4. Calm(e, Broadcast(e)) /\ Broadcast(e).state = e.state /\ (On(Broadcast(e)) <=> On(e))
    BY <2>3, BroadcastCalm, Zenon
  <2>5. Steady(gate[cur], Broadcast(e))
    BY <2>3, <2>4, Zenon DEF Calm, Steady
  <2>6. gate'[cur] = Broadcast(e) /\ Alone(cur)
    BY <1>0, <2>1, GateMoves, Zenon
  <2> QED
    BY <2>1, <2>3, <2>4, <2>5, <2>6 DEF Calm
<1> QED
  BY <1>1, <1>2, Zenon

-----------------------------------------------------------------------------
(* What GateSend does to the gates. *)

\* GateSend works on the gate g, and its chunk joins the buffer or not.
Receives(g) ==
    /\ GetOrCreate(g) /\ Alone(g) /\ Steady(gate[g], gate'[g]) /\ gate'[g].target
    /\ prod.at = "send" /\ gated

\* GateSend's common part only records the delivery target.
LEMMA EnteredSteady ==
    ASSUME StreamInv, NEW g \in Gens
    PROVE  /\ Entered(g) \in Gate /\ Steady(gate[g], Entered(g)) /\ Entered(g).target
           /\ Entered(g).buf = gate[g].buf /\ Entered(g).state = gate[g].state
           /\ Entered(g).flusher = gate[g].flusher
<1>1. gate[g] \in Gate
  BY Zenon DEF StreamInv
<1> QED
  BY <1>1, Zenon DEF Entered, Gate, Steady, On

\* A steady step, then a calm one.
LEMMA SteadyCalm ==
    ASSUME NEW a, NEW b, NEW c, Steady(a, b), Calm(b, c)
    PROVE  Steady(a, c) /\ c.buf = b.buf /\ c.target = b.target
BY Zenon DEF Calm, Steady

\* Steady steps compose.
LEMMA SteadyTwice ==
    ASSUME NEW a, NEW b, NEW c, Steady(a, b), Steady(b, c)
    PROVE  Steady(a, c)
BY Zenon DEF Steady

\* GateSend drops the chunk at an ended gate.
LEMMA EndedMoves ==
    ASSUME StreamInv, GateSendEnded
    PROVE  \E g \in Gens :
              /\ Receives(g) /\ gate'[g].buf = gate[g].buf
              /\ gate[g].state = "ended" /\ gate'[g].state = "ended"
              /\ (On(gate'[g]) <=> On(gate[g]))
<1>1. PICK g \in Gens : /\ GetOrCreate(g) /\ gate[g].state = "ended"
                        /\ gate' = [gate EXCEPT ![g] = Entered(g)]
  BY Zenon DEF GateSendEnded
<1>2. gate'[g] = Entered(g) /\ Alone(g) /\ prod.at = "send" /\ gated
  BY <1>1, GateMoves, Zenon DEF GateSendEnded
<1>3. /\ Steady(gate[g], Entered(g)) /\ Entered(g).target
      /\ Entered(g).buf = gate[g].buf /\ Entered(g).state = gate[g].state
      /\ (On(Entered(g)) <=> On(gate[g]))
  BY EnteredSteady, Zenon DEF On
<1> QED
  BY <1>1, <1>2, <1>3, Zenon DEF Receives

\* GateSend at a full buffer ends the gate and starts its flusher.
LEMMA OverflowMoves ==
    ASSUME StreamInv, GateSendOverflow
    PROVE  \E g \in Gens :
              /\ Receives(g) /\ gate'[g].buf = gate[g].buf
              /\ gate[g].state = "paused" /\ gate'[g].state = "ended" /\ On(gate'[g])
<1>1. PICK g \in Gens :
        /\ GetOrCreate(g) /\ gate[g].state = "paused"
        /\ gate' = [gate EXCEPT ![g] = Broadcast(StartFlusher(
                      [Entered(g) EXCEPT !.state = "ended", !.interval = FALSE, !.err = TRUE]))]
  BY Zenon DEF GateSendOverflow
<1> DEFINE e == [Entered(g) EXCEPT !.state = "ended", !.interval = FALSE, !.err = TRUE]
           s == StartFlusher(e)
           b == Broadcast(s)
<1>2. gate' = [gate EXCEPT ![g] = b]
  BY <1>1, Zenon
<1>3. /\ e \in Gate /\ Steady(Entered(g), e) /\ e.buf = Entered(g).buf
      /\ e.target = Entered(g).target /\ e.state = "ended"
  <2> DEFINE x == Entered(g)
  <2>1. x \in Gate
    BY EnteredSteady, Zenon
  <2> HIDE DEF x
  <2>2. /\ e \in Gate /\ Steady(x, e) /\ e.buf = x.buf /\ e.target = x.target
        /\ e.state = "ended"
    BY <2>1, Zenon DEF Gate, GateStates, Steady, On, x
  <2> QED
    BY <2>2, Zenon DEF x
<1> HIDE DEF e
<1>4. s \in Gate /\ Calm(e, s) /\ s.state = "ended" /\ On(s)
  BY <1>3, StartFlusherAlike, StartFlusherCalm, Zenon
<1> HIDE DEF s
<1>5. Calm(s, b) /\ b.state = "ended" /\ On(b)
  BY <1>4, BroadcastCalm, Zenon
<1> HIDE DEF b
<1>6. Steady(gate[g], b) /\ b.buf = gate[g].buf /\ b.target
  <2>1. Steady(gate[g], e) /\ e.buf = gate[g].buf /\ e.target
    BY <1>3, EnteredSteady, SteadyTwice, Zenon
  <2>2. Calm(e, b)
    BY <1>4, <1>5, CalmTwice, Zenon
  <2> QED
    BY <2>1, <2>2, SteadyCalm, Zenon
<1>7. gate'[g] = b /\ Alone(g) /\ prod.at = "send" /\ gated
  BY <1>2, GateMoves, Zenon DEF GateSendOverflow
<1> QED
  BY <1>1, <1>5, <1>6, <1>7, Zenon DEF Receives

\* GateSend at a paused gate buffers the chunk and has a flusher.
LEMMA PausedMoves ==
    ASSUME StreamInv, GateSendPaused
    PROVE  \E g \in Gens :
              /\ Receives(g) /\ gate'[g].buf = Append(gate[g].buf, prod.chunk)
              /\ gate[g].state = "paused" /\ gate'[g].state \in {"paused", "active"}
              /\ On(gate'[g])
<1>1. PICK g \in Gens :
          /\ GetOrCreate(g) /\ gate[g].state = "paused"
          /\ LET a == StartFlusher([Entered(g) EXCEPT !.buf = Append(@, prod.chunk),
                                                      !.terminal = @ \/ prod.final])
             IN  gate' = [gate EXCEPT ![g] =
                            IF a.interval THEN Broadcast([a EXCEPT !.state = "active"]) ELSE a]
  BY Zenon DEF GateSendPaused
<1> DEFINE e == [Entered(g) EXCEPT !.buf = Append(@, prod.chunk), !.terminal = @ \/ prod.final]
           a == StartFlusher(e)
           w == [a EXCEPT !.state = "active"]
           b == IF a.interval THEN Broadcast(w) ELSE a
<1>2. gate' = [gate EXCEPT ![g] = b]
  BY <1>1, Zenon
<1>3. Append(Entered(g).buf, prod.chunk) \in Seq(Chunk)
  BY EnteredSteady DEF StreamInv, Gate, Sending
<1>4. prod.final \in BOOLEAN
  BY Zenon DEF StreamInv, Sending
<1>5. /\ e \in Gate /\ Steady(Entered(g), e) /\ e.buf = Append(Entered(g).buf, prod.chunk)
      /\ e.target = Entered(g).target /\ e.state = Entered(g).state
  BY <1>3, <1>4, EnteredSteady, ZenonT(30) DEF Gate, Steady, On
<1>6. /\ e \in Gate /\ Steady(gate[g], e) /\ e.buf = Append(gate[g].buf, prod.chunk)
      /\ e.target /\ e.state = "paused"
  <2> HIDE DEF e
  <2> QED
    BY <1>1, <1>5, EnteredSteady, SteadyTwice, Zenon
<1> HIDE DEF e
<1>7. a \in Gate /\ Calm(e, a) /\ a.state = "paused" /\ On(a)
  BY <1>6, StartFlusherAlike, StartFlusherCalm, Zenon
<1> HIDE DEF a
<1>8. w \in Gate /\ Calm(a, w) /\ w.state = "active" /\ On(w)
  BY <1>7, Zenon DEF Gate, GateStates, Calm, Steady, On
<1> HIDE DEF w
<1>9. Calm(e, b) /\ b.state \in {"paused", "active"} /\ On(b)
  BY <1>7, <1>8, BroadcastCalm, CalmTwice, Zenon
<1> HIDE DEF b
<1>10. Steady(gate[g], b) /\ b.buf = Append(gate[g].buf, prod.chunk) /\ b.target
  BY <1>6, <1>9, SteadyCalm, Zenon
<1>11. gate'[g] = b /\ Alone(g) /\ prod.at = "send" /\ gated
  BY <1>2, GateMoves, Zenon DEF GateSendPaused
<1> QED
  BY <1>1, <1>9, <1>10, <1>11, Zenon DEF Receives

\* GateSend at an active gate that queues buffers the chunk.
LEMMA QueuedMoves ==
    ASSUME StreamInv, GateSendQueued
    PROVE  \E g \in Gens :
              /\ Receives(g) /\ gate'[g].buf = Append(gate[g].buf, prod.chunk)
              /\ gate[g].state = "active" /\ gate'[g].state # "paused"
              /\ (On(gate'[g]) <=> On(gate[g])) /\ Queues(gate[g])
<1>1. PICK g \in Gens :
          /\ GetOrCreate(g) /\ gate[g].state = "active" /\ Queues(gate[g])
          /\ gate' = [gate EXCEPT ![g] = Broadcast(
                      [Entered(g) EXCEPT !.buf = Append(@, prod.chunk),
                                         !.state = IF prod.final THEN "ended" ELSE @])]
  BY Zenon DEF GateSendQueued
<1> DEFINE e == [Entered(g) EXCEPT !.buf = Append(@, prod.chunk),
                                   !.state = IF prod.final THEN "ended" ELSE @]
           b == Broadcast(e)
<1>2. gate' = [gate EXCEPT ![g] = b]
  BY <1>1, Zenon
<1>3. Append(Entered(g).buf, prod.chunk) \in Seq(Chunk)
  BY EnteredSteady DEF StreamInv, Gate, Sending
<1>5. /\ e \in Gate /\ Steady(Entered(g), e) /\ e.buf = Append(Entered(g).buf, prod.chunk)
      /\ e.target = Entered(g).target /\ e.state \in {Entered(g).state, "ended"}
      /\ e.flusher = Entered(g).flusher
  <2> DEFINE x == Entered(g)
  <2>1. x \in Gate /\ Append(x.buf, prod.chunk) \in Seq(Chunk)
    BY <1>3, EnteredSteady, Zenon
  <2> HIDE DEF x
  <2>2. /\ e \in Gate /\ Steady(x, e) /\ e.buf = Append(x.buf, prod.chunk)
        /\ e.target = x.target /\ e.state \in {x.state, "ended"} /\ e.flusher = x.flusher
    BY <2>1, Zenon DEF Gate, GateStates, Steady, On, x
  <2> QED
    BY <2>2, Zenon DEF x
<1>6. /\ e \in Gate /\ Steady(gate[g], e) /\ e.buf = Append(gate[g].buf, prod.chunk)
      /\ e.target /\ e.state \in {"active", "ended"} /\ (On(e) <=> On(gate[g]))
  <2> HIDE DEF e
  <2>1. Steady(gate[g], e)
    BY <1>5, EnteredSteady, SteadyTwice, Zenon
  <2> QED
    BY <1>1, <1>5, <2>1, EnteredSteady, Zenon DEF On
<1> HIDE DEF e
<1>9. Calm(e, b) /\ b.state = e.state /\ (On(b) <=> On(e))
  BY <1>6, BroadcastCalm, Zenon
<1> HIDE DEF b
<1>10. Steady(gate[g], b) /\ b.buf = Append(gate[g].buf, prod.chunk) /\ b.target
  BY <1>6, <1>9, SteadyCalm, Zenon
<1>11. gate'[g] = b /\ Alone(g) /\ prod.at = "send" /\ gated
  BY <1>2, GateMoves, Zenon DEF GateSendQueued
<1>12. b.state # "paused" /\ (On(b) <=> On(gate[g]))
  BY <1>6, <1>9, Zenon
<1> QED
  BY <1>1, <1>10, <1>11, <1>12, Zenon DEF Receives

\* GateSend at an idle active gate leaves its buffer alone.
LEMMA DirectMoves ==
    ASSUME StreamInv, GateSendDirect
    PROVE  \E g \in Gens :
              /\ Receives(g) /\ gate'[g].buf = gate[g].buf
              /\ gate[g].state = "active" /\ gate'[g].state # "paused"
              /\ (On(gate'[g]) <=> On(gate[g]))
<1>1. PICK g \in Gens :
          /\ GetOrCreate(g) /\ gate[g].state = "active"
          /\ gate' = [gate EXCEPT ![g] =
                      [Entered(g) EXCEPT !.state = IF prod.final THEN "ended" ELSE @]]
  BY Zenon DEF GateSendDirect
<1> DEFINE b == [Entered(g) EXCEPT !.state = IF prod.final THEN "ended" ELSE @]
<1>2. gate' = [gate EXCEPT ![g] = b]
  BY <1>1, Zenon
<1>3. /\ Steady(Entered(g), b) /\ b.buf = Entered(g).buf /\ b.flusher = Entered(g).flusher
      /\ b.target = Entered(g).target /\ b.state \in {Entered(g).state, "ended"}
  BY EnteredSteady, ZenonT(30) DEF Gate, GateStates, Steady, On
<1> HIDE DEF b
<1>4. Steady(gate[g], b)
  BY <1>3, EnteredSteady, SteadyTwice, Zenon
<1>5. /\ b.buf = gate[g].buf /\ b.target /\ b.state # "paused" /\ (On(b) <=> On(gate[g]))
  BY <1>1, <1>3, EnteredSteady, Zenon DEF On
<1>6. gate'[g] = b /\ Alone(g) /\ prod.at = "send" /\ gated
  BY <1>2, GateMoves, Zenon DEF GateSendDirect
<1> QED
  BY <1>1, <1>4, <1>5, <1>6, Zenon DEF Receives

-----------------------------------------------------------------------------
(* What the flusher does to its gate. *)

\* What a flusher's step keeps of its gate: its state moves to the end only, a teardown is
\* not asked for, and it leaves nothing behind when it stops.
Carries(a, b) ==
    /\ b.target = a.target
    /\ a.state = "ended" => b.state = "ended"
    /\ b.state = "paused" => a.state = "paused"
    /\ ~a.cleanup => ~b.cleanup /\ (stored' <=> stored)
    /\ On(b) => (stored' <=> stored)
    /\ ~On(b) => b.buf = <<>>

\* The flusher is over a delivery and its gate holds what a held.
Rests(a, b) == b.buf = a.buf /\ b.hand = a.hand /\ b.flusher \in {"check", "sendErr", "off"}

\* What the flusher's exit does to its gate.
LEMMA ExitMoves ==
    ASSUME StreamInv, NEW g \in Gens, g = cur, NEW a \in Gate, a.buf = <<>>, Exit(g, a)
    PROVE  Alone(g) /\ Carries(a, gate'[g]) /\ Rests(a, gate'[g])
<1> DEFINE b == [a EXCEPT !.flusher = "off"]
           d == [b EXCEPT !.cleanup = TRUE]
           gs == [gate EXCEPT ![g] = b]
<1>0. gate \in [Gens -> Gate]
  BY Zenon DEF StreamInv
<1>1. /\ b.buf = a.buf /\ b.hand = a.hand /\ b.target = a.target /\ b.cleanup = a.cleanup
      /\ b.state = a.state /\ b.flusher = "off"
  BY Zenon DEF Gate
<1>2. /\ d.buf = a.buf /\ d.hand = a.hand /\ d.target = a.target
      /\ d.state = a.state /\ d.flusher = "off"
  BY Zenon DEF Gate
<1>3. \/ gate' = gs /\ (stored' <=> stored)
      \/ gate' = gs /\ a.cleanup
      \/ gate' = [gs EXCEPT ![cur].cleanup = TRUE] /\ a.cleanup
  BY DEF Exit, Release
<1> HIDE DEF b
<1>4. gs[g] = b /\ \A h \in Gens \ {g} : gs[h] = gate[h]
  BY <1>0, Zenon
<1>5. gate' = [gs EXCEPT ![cur].cleanup = TRUE] =>
        gate'[g] = d /\ \A h \in Gens \ {g} : gate'[h] = gs[h]
  BY <1>0, <1>4
<1> HIDE DEF gs, d
<1>6. Alone(g) /\ \/ gate'[g] = b /\ (a.cleanup \/ (stored' <=> stored))
                  \/ gate'[g] = d /\ a.cleanup
  BY <1>3, <1>4, <1>5, Zenon DEF Alone
<1> QED
  BY <1>1, <1>2, <1>6, Zenon DEF Carries, Rests, On

\* What the end of gateFlusher's loop body does.
LEMMA AfterDrainMoves ==
    ASSUME StreamInv, NEW g \in Gens, g = cur, NEW a \in Gate, AfterDrain(g, a),
           a.buf = <<>> \/ a.state = "paused"
    PROVE  Alone(g) /\ Carries(a, gate'[g]) /\ Rests(a, gate'[g])
<1> DEFINE b == IF a.buf = <<>> THEN [a EXCEPT !.interval = FALSE] ELSE a
           c == IF b.terminal /\ b.state = "active"
                THEN [b EXCEPT !.terminal = FALSE, !.state = "ended"] ELSE b
           go == [c EXCEPT !.flusher = "check"]
           fail == [c EXCEPT !.err = FALSE, !.failed = TRUE, !.flusher = "sendErr"]
<1>1. /\ b \in Gate /\ b.buf = a.buf /\ b.hand = a.hand /\ b.target = a.target
      /\ b.state = a.state /\ b.cleanup = a.cleanup
  BY Zenon DEF Gate
<1>2. /\ c \in Gate /\ c.buf = a.buf /\ c.hand = a.hand /\ c.target = a.target
      /\ c.cleanup = a.cleanup
      /\ (a.state \in {"paused", "ended"} => c.state = a.state)
      /\ (c.state = "paused" => a.state = "paused")
  <2> HIDE DEF b
  <2> QED
    BY <1>1, Zenon DEF Gate, GateStates
<1>3. \/ c.state # "ended" /\ gate' = [gate EXCEPT ![g] = go] /\ (stored' <=> stored)
      \/ c.state = "ended" /\ gate' = [gate EXCEPT ![g] = fail] /\ (stored' <=> stored)
      \/ c.state = "ended" /\ Exit(g, c)
  <2> HIDE DEF b, c
  <2>1. c.err \in BOOLEAN
    BY <1>2, Zenon DEF Gate
  <2>2. \/ c.state # "ended" /\ gate' = [gate EXCEPT ![g] = go] /\ stored' = stored
        \/ c.state = "ended" /\ gate' = [gate EXCEPT ![g] = fail] /\ stored' = stored
        \/ c.state = "ended" /\ Exit(g, c)
    BY <2>1, Zenon DEF AfterDrain, b, c
  <2> QED
    BY <2>2
<1> HIDE DEF c
<1>4. /\ Rests(c, go) /\ go.target = c.target /\ go.state = c.state /\ go.cleanup = c.cleanup
      /\ On(go)
  BY <1>2, Zenon DEF Gate, Rests, On
<1>5. /\ Rests(c, fail) /\ fail.target = c.target /\ fail.state = c.state
      /\ fail.cleanup = c.cleanup /\ On(fail)
  BY <1>2, Zenon DEF Gate, Rests, On
<1> HIDE DEF go, fail
<1>6. Alone(g) /\ Carries(c, gate'[g]) /\ Rests(c, gate'[g])
  <2>1. CASE gate' = [gate EXCEPT ![g] = go] /\ (stored' <=> stored)
    <3>1. gate'[g] = go /\ Alone(g)
      BY <2>1, GateMoves, Zenon
    <3> QED
      BY <1>4, <2>1, <3>1, Zenon DEF Carries
  <2>2. CASE gate' = [gate EXCEPT ![g] = fail] /\ (stored' <=> stored)
    <3>1. gate'[g] = fail /\ Alone(g)
      BY <2>2, GateMoves, Zenon
    <3> QED
      BY <1>5, <2>2, <3>1, Zenon DEF Carries
  <2>3. CASE c.state = "ended" /\ Exit(g, c)
    BY <1>2, <2>3, ExitMoves, Zenon
  <2> QED
    BY <1>3, <2>1, <2>2, <2>3, Zenon
<1> QED
  BY <1>2, <1>6, Zenon DEF Carries, Rests

\* The flusher takes the head of the buffer in hand, or rests.
Takes(a, b) ==
    /\ a.buf # <<>> /\ a.state # "paused"
    /\ b.buf = Tail(a.buf) /\ b.hand = Head(a.buf) /\ b.flusher = "send"

\* drainBufferLocked takes the head of the buffer or leaves the loop.
LEMMA DrainMoves ==
    ASSUME StreamInv, NEW g \in Gens, g = cur, Drain(g, gate[g])
    PROVE  /\ Alone(g) /\ Carries(gate[g], gate'[g])
           /\ Takes(gate[g], gate'[g]) \/ Rests(gate[g], gate'[g])
<1> DEFINE a == gate[g]
           b == [a EXCEPT !.hand = Head(a.buf), !.buf = Tail(a.buf), !.flusher = "send"]
<1>0. a \in Gate
  BY Zenon DEF StreamInv
<1>1. CASE a.state # "paused" /\ a.buf # <<>>
  <2>1. gate' = [gate EXCEPT ![g] = b] /\ stored' = stored
    BY <1>1, Zenon DEF Drain
  <2>2. Takes(a, b) /\ b.target = a.target /\ b.state = a.state /\ b.cleanup = a.cleanup
    BY <1>0, <1>1, Zenon DEF Gate, Takes
  <2>3. stored' <=> stored
    BY <2>1
  <2> HIDE DEF b
  <2>4. gate'[g] = b /\ Alone(g)
    BY <2>1, GateMoves, Zenon
  <2> QED
    BY <2>2, <2>3, <2>4, Zenon DEF Carries, Takes, On
<1>2. CASE ~(a.state # "paused" /\ a.buf # <<>>)
  BY <1>0, <1>2, AfterDrainMoves, Zenon DEF Drain
<1> QED
  BY <1>1, <1>2, Zenon

\* The delivery of the chunks across a flusher's step on the gate g.
KeepsAll(g) ==
    /\ out' = out /\ owed' = owed /\ leak' = leak
    /\ Holding(gate'[g]) = Holding(gate[g]) /\ gate'[g].flusher # "cancelled"
    /\ gate'[g].flusher = "send" => gate[g].state # "paused"

\* It wrote the chunk it had in hand.
WritesChunk(g) ==
    /\ gate[g].flusher = "send" /\ Write(gate[g].hand) /\ owed' = owed
    /\ Holding(gate'[g]) = Range(gate[g].buf) /\ gate'[g].flusher = "sent"

\* It wrote the synthetic error and is gone.
WritesError(g) ==
    /\ Write(Err) /\ owed' = owed /\ gate[g].state = "ended"
    /\ Holding(gate'[g]) = Holding(gate[g]) /\ gate'[g].flusher = "off"

\* It gave up its send: the client is gone.
GivesUp(g) ==
    /\ CanCancel /\ out' = out /\ owed' = owed /\ leak' = leak
    /\ Holding(gate'[g]) \subseteq Holding(gate[g]) /\ gate'[g].flusher = "cancelled"

\* It dropped the rest of the buffer after that.
Abandons(g) ==
    /\ gate[g].flusher = "cancelled" /\ out' = out /\ leak' = leak
    /\ owed' = owed \ Range(gate[g].buf)
    /\ Holding(gate'[g]) = {} /\ gate'[g].flusher \in {"check", "sendErr", "off"}

\* A step of the flusher of g is one of these.
Flushes(g) ==
    /\ On(gate[g]) /\ Alone(g) /\ Carries(gate[g], gate'[g])
    /\ UNCHANGED <<cur, prod, gated, taken, ctxDone, ctl, cut>>
    /\ \/ KeepsAll(g) \/ WritesChunk(g) \/ WritesError(g) \/ GivesUp(g) \/ Abandons(g)

\* A gate whose flusher is not sending holds its buffer.
LEMMA HoldsBuffer ==
    ASSUME NEW a PROVE /\ a.flusher # "send" => Holding(a) = Range(a.buf)
                       /\ a.flusher = "send" => Holding(a) = Range(a.buf) \cup {a.hand}
BY DEF Holding

\* A drain loses nothing: the head of the buffer goes to the hand.
LEMMA DrainKeeps ==
    ASSUME StreamInv, NEW g \in Gens, g = cur, gate[g].flusher \in {"check", "sent", "pace"},
           Drain(g, gate[g]), UNCHANGED <<out, owed, leak>>
    PROVE  Alone(g) /\ Carries(gate[g], gate'[g]) /\ KeepsAll(g)
<1>1. /\ Alone(g) /\ Carries(gate[g], gate'[g])
      /\ Takes(gate[g], gate'[g]) \/ Rests(gate[g], gate'[g])
  BY DrainMoves, Zenon
<1>2. Holding(gate[g]) = Range(gate[g].buf)
  BY HoldsBuffer, Zenon
<1>3. gate[g].buf \in Seq(Chunk)
  BY Zenon DEF StreamInv, Gate
<1>4. CASE Takes(gate[g], gate'[g])
  <2>1. Holding(gate'[g]) = Range(Tail(gate[g].buf)) \cup {Head(gate[g].buf)}
    BY <1>4, HoldsBuffer, Zenon DEF Takes
  <2>2. Holding(gate'[g]) = Holding(gate[g])
    BY <1>2, <1>3, <1>4, <2>1, ElementsHeadTail, Zenon DEF Takes
  <2> QED
    BY <1>1, <1>4, <2>2, Zenon DEF KeepsAll, Takes
<1>5. CASE Rests(gate[g], gate'[g])
  <2>1. Holding(gate'[g]) = Range(gate'[g].buf)
    BY <1>5, HoldsBuffer, Zenon DEF Rests
  <2> QED
    BY <1>1, <1>2, <1>5, <2>1, Zenon DEF KeepsAll, Rests
<1> QED
  BY <1>1, <1>4, <1>5, Zenon

\* Every step of the flusher of the stored accumulator is of that form.
LEMMA FlusherMoves ==
    ASSUME StreamInv, NEW g \in Gens, g = cur, Flusher(g)
    PROVE  Flushes(g)
<1> DEFINE a == gate[g]
<1>0. a \in Gate /\ Sound(a) /\ a.buf \in Seq(Chunk)
  BY Zenon DEF StreamInv, Gate
<1>1. UNCHANGED <<cur, prod, gated, taken, ctxDone, ctl, cut>>
  BY Zenon DEF Flusher, FlusherCheck, FlusherSend, FlusherCancel, FlusherSent, FlusherPaced,
         FlusherAbandon, FlusherSendErr, FlusherErrCancel, envVars, histVars
<1>2. CASE FlusherCheck(g)
  <2> DEFINE b == [a EXCEPT !.flusher = "asleep"]
  <2>0. a.flusher = "check" /\ UNCHANGED <<out, owed, leak>>
    BY <1>2, Zenon DEF FlusherCheck, histVars
  <2>1. CASE gate' = [gate EXCEPT ![g] = b] /\ stored' = stored
    <3>1. /\ b.buf = a.buf /\ b.target = a.target /\ b.state = a.state
          /\ b.cleanup = a.cleanup /\ b.flusher = "asleep"
      BY <1>0, Zenon DEF Gate
    <3> HIDE DEF b
    <3>2. gate'[g] = b /\ Alone(g)
      BY <2>1, GateMoves, Zenon
    <3>3. stored' <=> stored
      BY <2>1
    <3>4. Holding(b) = Holding(a)
      BY <2>0, <3>1, HoldsBuffer, Zenon
    <3>5. Carries(a, gate'[g]) /\ KeepsAll(g)
      BY <2>0, <3>1, <3>2, <3>3, <3>4, Zenon DEF Carries, KeepsAll, On
    <3> QED
      BY <1>1, <2>0, <3>2, <3>5, Zenon DEF Flushes, On
  <2>2. CASE Drain(g, a)
    BY <1>1, <2>0, <2>2, DrainKeeps, Zenon DEF Flushes, On
  <2> QED
    BY <1>2, <2>1, <2>2 DEF FlusherCheck, StreamInv
<1>3. CASE FlusherSend(g)
  <2> DEFINE b == [a EXCEPT !.flusher = "sent", !.hand = Err]
  <2>1. /\ gate' = [gate EXCEPT ![g] = b] /\ Write(a.hand) /\ owed' = owed
        /\ a.flusher = "send" /\ stored' = stored
    BY <1>3, <1>0, Zenon DEF FlusherSend, StreamInv
  <2>2. /\ b.buf = a.buf /\ b.target = a.target /\ b.state = a.state
        /\ b.cleanup = a.cleanup /\ b.flusher = "sent"
    BY <1>0, Zenon DEF Gate
  <2> HIDE DEF b
  <2>3. gate'[g] = b /\ Alone(g)
    BY <2>1, GateMoves, Zenon
  <2>4. stored' <=> stored
    BY <2>1
  <2>5. Holding(b) = Range(a.buf)
    BY <2>2, HoldsBuffer, Zenon
  <2>6. Carries(a, gate'[g]) /\ WritesChunk(g)
    BY <2>1, <2>2, <2>3, <2>4, <2>5, Zenon DEF Carries, WritesChunk, On
  <2> QED
    BY <1>1, <2>1, <2>3, <2>6, Zenon DEF Flushes, On
<1>4. CASE FlusherCancel(g)
  <2> DEFINE b == [a EXCEPT !.flusher = "cancelled", !.hand = Err]
  <2>1. /\ gate' = [gate EXCEPT ![g] = b] /\ UNCHANGED <<out, owed, leak>>
        /\ a.flusher \in {"send", "pace"} /\ stored' = stored /\ CanCancel
    BY <1>4, <1>0, Zenon DEF FlusherCancel, StreamInv, histVars
  <2>2. /\ b.buf = a.buf /\ b.target = a.target /\ b.state = a.state
        /\ b.cleanup = a.cleanup /\ b.flusher = "cancelled"
    BY <1>0, Zenon DEF Gate
  <2> HIDE DEF b
  <2>3. gate'[g] = b /\ Alone(g)
    BY <2>1, GateMoves, Zenon
  <2>4. stored' <=> stored
    BY <2>1
  <2>5. Holding(b) \subseteq Holding(a)
    BY <2>2, Zenon DEF Holding
  <2>6. Carries(a, gate'[g]) /\ GivesUp(g)
    BY <2>1, <2>2, <2>3, <2>4, <2>5, Zenon DEF Carries, GivesUp, On
  <2> QED
    BY <1>1, <2>1, <2>3, <2>6, Zenon DEF Flushes, On
<1>5. CASE FlusherSent(g)
  <2> DEFINE b == [a EXCEPT !.flusher = "pace"]
  <2>0. a.flusher = "sent" /\ UNCHANGED <<out, owed, leak>>
    BY <1>5, Zenon DEF FlusherSent, histVars
  <2>1. CASE gate' = [gate EXCEPT ![g] = b] /\ stored' = stored
    <3>1. /\ b.buf = a.buf /\ b.target = a.target /\ b.state = a.state
          /\ b.cleanup = a.cleanup /\ b.flusher = "pace"
      BY <1>0, Zenon DEF Gate
    <3> HIDE DEF b
    <3>2. gate'[g] = b /\ Alone(g)
      BY <2>1, GateMoves, Zenon
    <3>3. stored' <=> stored
      BY <2>1
    <3>4. Holding(b) = Holding(a)
      BY <2>0, <3>1, HoldsBuffer, Zenon
    <3>5. Carries(a, gate'[g]) /\ KeepsAll(g)
      BY <2>0, <3>1, <3>2, <3>3, <3>4, Zenon DEF Carries, KeepsAll, On
    <3> QED
      BY <1>1, <2>0, <3>2, <3>5, Zenon DEF Flushes, On
  <2>2. CASE Drain(g, a)
    BY <1>1, <2>0, <2>2, DrainKeeps, Zenon DEF Flushes, On
  <2> QED
    BY <1>5, <2>1, <2>2 DEF FlusherSent, StreamInv
<1>6. CASE FlusherPaced(g)
  <2>0. a.flusher = "pace" /\ UNCHANGED <<out, owed, leak>> /\ Drain(g, a)
    BY <1>6, Zenon DEF FlusherPaced, histVars
  <2> QED
    BY <1>1, <2>0, DrainKeeps, Zenon DEF Flushes, On
<1>7. CASE FlusherAbandon(g)
  <2> DEFINE e == [a EXCEPT !.buf = <<>>, !.interval = FALSE, !.state = "ended"]
  <2>1. /\ a.flusher = "cancelled" /\ owed' = owed \ Range(a.buf) /\ AfterDrain(g, e)
        /\ UNCHANGED <<out, leak>>
    BY <1>7, Zenon DEF FlusherAbandon
  <2>2. <<>> \in Seq(Chunk)
    OBVIOUS
  <2>3. /\ e \in Gate /\ e.buf = <<>> /\ e.target = a.target /\ e.state = "ended"
        /\ e.cleanup = a.cleanup
    BY <1>0, <2>2, Zenon DEF Gate, GateStates
  <2> HIDE DEF e
  <2>4. Alone(g) /\ Carries(e, gate'[g]) /\ Rests(e, gate'[g])
    BY <2>1, <2>3, AfterDrainMoves, Zenon
  <2>5. Holding(gate'[g]) = {}
    BY <2>3, <2>4, HoldsBuffer, NoElements, Zenon DEF Rests
  <2>6. Carries(a, gate'[g]) /\ Abandons(g)
    BY <2>1, <2>3, <2>4, <2>5, Zenon DEF Carries, Abandons, Rests
  <2> QED
    BY <1>1, <2>1, <2>4, <2>6, Zenon DEF Flushes, On
<1>8. CASE FlusherSendErr(g) \/ FlusherErrCancel(g)
  <2>1. a.flusher = "sendErr" /\ Exit(g, a) /\ owed' = owed
    BY <1>8, Zenon DEF FlusherSendErr, FlusherErrCancel, histVars
  <2>2. a.buf = <<>> /\ a.state = "ended"
    BY <1>0, <2>1, Zenon DEF Sound
  <2>3. Alone(g) /\ Carries(a, gate'[g]) /\ Rests(a, gate'[g]) /\ gate'[g].flusher = "off"
    <3>1. Alone(g) /\ Carries(a, gate'[g]) /\ Rests(a, gate'[g])
      BY <1>0, <2>1, <2>2, ExitMoves, Zenon
    <3>2. gate'[g].flusher = "off"
      BY <1>0, <2>1 DEF Exit, Release, StreamInv, Gate
    <3> QED
      BY <3>1, <3>2, Zenon
  <2>4. Holding(gate'[g]) = Holding(a)
    BY <2>1, <2>3, HoldsBuffer, ZenonT(30) DEF Rests
  <2>5. WritesError(g) \/ KeepsAll(g)
    BY <1>8, <2>1, <2>2, <2>3, <2>4, Zenon
       DEF FlusherSendErr, FlusherErrCancel, histVars, WritesError, KeepsAll
  <2> QED
    BY <1>1, <2>1, <2>3, <2>5, Zenon DEF Flushes, On
<1> QED
  BY <1>2, <1>3, <1>4, <1>5, <1>6, <1>7, <1>8, Zenon DEF Flusher

-----------------------------------------------------------------------------
(* No flusher outlives the channel. *)

\* The provider has ended the stream and is about to close the channel, or has closed it.
Closing == prod.at \in {"wait", "close", "closed"}

\* A flusher runs for the stored accumulator only, and not once the channel may be closed;
\* it leaves nothing in the buffer when it stops, and only a gate GateSend has seen can
\* start one.
Watched(g) ==
    /\ On(gate[g]) => /\ g = cur /\ stored /\ gated
                      /\ prod.at \notin {"close", "closed"} /\ prod.gen \in {0, g}
    /\ ~On(gate[g]) => gate[g].buf = <<>>
    /\ gate[g].target => g <= cur /\ gated
    /\ gate[g].flusher = "cancelled" => ctxDone

\* Until the provider waits it holds no flusher; once it has ended the stream, a gate
\* that has a target is ended.
FlushInv ==
    /\ ~Closing => prod.gen = 0
    /\ \A g \in Gens : Watched(g)
    /\ Closing /\ stored /\ gate[cur].target => gate[cur].state = "ended"

\* A call on the gate of the stored or of a new accumulator.
LEMMA TouchedKept ==
    ASSUME StreamInv, FlushInv, NEW g \in Gens, GetOrCreate(g), Alone(g), gated',
           ctxDone' <=> ctxDone, Closing \/ ~Closing' => prod'.gen = prod.gen,
           ~Closing' => ~Closing,
           On(gate'[g]) => prod'.at \notin {"close", "closed"} /\ prod'.gen \in {0, g},
           ~On(gate'[g]) => gate'[g].buf = <<>>,
           gate'[g].flusher = "cancelled" => gate[g].flusher = "cancelled",
           Closing' /\ gate'[g].target => gate'[g].state = "ended"
    PROVE  FlushInv'
<1>1. stored' /\ cur' = g /\ (stored => g = cur) /\ cur <= g /\ cur \in Nat /\ g \in Nat
  BY StreamAssumption DEF GetOrCreate, StreamInv, Gens
<1>2. \A h \in Gens : h <= cur => h <= g
  BY <1>1 DEF Gens
<1>3. g <= g
  BY <1>1
<1>4. Watched(g)'
  BY <1>1, <1>3, Zenon DEF Watched, FlushInv
<1>5. \A h \in Gens \ {g} : Watched(h)'
  <2> SUFFICES ASSUME NEW h \in Gens \ {g} PROVE Watched(h)'
    BY Zenon
  <2>1. gate'[h] = gate[h] /\ Watched(h)
    BY Zenon DEF Alone, FlushInv
  <2>2. ~On(gate[h])
    BY <1>1, <2>1, Zenon DEF Watched
  <2> QED
    BY <1>1, <1>2, <2>1, <2>2, Zenon DEF Watched
<1>6. ~Closing' => prod'.gen = 0
  BY Zenon DEF FlushInv
<1> QED
  BY <1>1, <1>4, <1>5, <1>6, Zenon DEF FlushInv

\* A step on the gate of the stored accumulator.
LEMMA OwnKept ==
    ASSUME StreamInv, FlushInv, Alone(cur), UNCHANGED <<cur, prod>>, gated' <=> gated,
           ctxDone' <=> ctxDone, stored' => stored,
           On(gate'[cur]) => On(gate[cur]) /\ stored',
           ~On(gate'[cur]) => gate'[cur].buf = <<>>,
           gate'[cur].flusher = "cancelled" => ctxDone,
           gate'[cur].target = gate[cur].target,
           gate[cur].state = "ended" => gate'[cur].state = "ended"
    PROVE  FlushInv'
<1>1. Watched(cur) /\ cur \in Gens
  BY Zenon DEF FlushInv, StreamInv
<1>2. Watched(cur)'
  BY <1>1, Zenon DEF Watched
<1>3. \A h \in Gens \ {cur} : Watched(h)'
  <2> SUFFICES ASSUME NEW h \in Gens \ {cur} PROVE Watched(h)'
    BY Zenon
  <2>1. gate'[h] = gate[h] /\ Watched(h)
    BY Zenon DEF Alone, FlushInv
  <2> QED
    BY <2>1, Zenon DEF Watched
<1> QED
  BY <1>1, <1>2, <1>3, Zenon DEF FlushInv, Closing

\* A step that moves no gate.
LEMMA StandKept ==
    ASSUME StreamInv, FlushInv, UNCHANGED <<gate, cur>>, stored' <=> stored, gated' <=> gated,
           ctxDone => ctxDone', ~Closing' => prod'.gen = 0,
           Closing' => Closing \/ ~gated,
           \A g \in Gens : On(gate[g]) => /\ prod'.at \notin {"close", "closed"}
                                          /\ prod'.gen \in {0, g}
    PROVE  FlushInv'
<1>1. \A h \in Gens : Watched(h)'
  <2> SUFFICES ASSUME NEW h \in Gens PROVE Watched(h)'
    BY Zenon
  <2>1. Watched(h)
    BY Zenon DEF FlushInv
  <2> QED
    BY <2>1, Zenon DEF Watched
<1>2. Watched(cur)
  BY Zenon DEF FlushInv, StreamInv
<1> QED
  BY <1>1, <1>2, Zenon DEF FlushInv, Watched

\* The provider goes on: it does not wait for a flusher yet.
LEMMA AdvanceSteps ==
    ASSUME prod \in Sending, ~Closing, prod.gen = 0, Advance
    PROVE  ~Closing' /\ prod'.gen = 0 /\ prod'.at \in {"hook", "end"}
<1>1. CASE prod' = [prod EXCEPT !.at = "end"]
  BY <1>1, Zenon DEF Sending, Closing
<1>2. CASE \E last \in BOOLEAN :
             prod' = [at |-> "hook", chunk |-> prod.chunk + 1, final |-> last, gen |-> 0]
  BY <1>2 DEF Closing
<1> QED
  BY <1>1, <1>2, Zenon DEF Advance

\* The plugins' calls keep it.
LEMMA ControlFlush == ASSUME StreamInv, FlushInv, Control PROVE FlushInv'
<1>0. UNCHANGED <<prod, ctxDone>> /\ (ctxDone' <=> ctxDone)
  <2>1. UNCHANGED <<prod, ctxDone>>
    BY Zenon DEF Control, Pause, Resume, ResumeWithReplayInterval, ClearPausedBuffer, End
  <2> QED
    BY <2>1
<1>1. Closing' <=> Closing
  BY <1>0, Zenon DEF Closing
<1>2. \A g \in Gens : GetOrCreate(g) /\ Closing /\ gate[g].target => gate[g].state = "ended"
  <2> SUFFICES ASSUME NEW g \in Gens, GetOrCreate(g), Closing, gate[g].target
               PROVE  gate[g].state = "ended"
    BY Zenon
  <2>1. Watched(g)
    BY Zenon DEF FlushInv
  <2>2. stored /\ g = cur
    BY <2>1, StreamAssumption DEF Watched, GetOrCreate, StreamInv, Gens
  <2> QED
    BY <2>2, Zenon DEF FlushInv
<1>3. \A g \in Gens : Watched(g)
  BY Zenon DEF FlushInv
<1>4. CASE Pause \/ Resume
  <2>1. gated'
    BY <1>4, Zenon DEF Pause, Resume
  <2>2. PICK g \in Gens : /\ Touches(g) /\ (On(gate'[g]) <=> On(gate[g]))
                          /\ gate[g].state = "ended" => gate'[g].state = "ended"
    BY <1>4, PauseMoves, ResumeMoves, Zenon
  <2>3. /\ GetOrCreate(g) /\ Alone(g) /\ gate'[g].buf = gate[g].buf
        /\ gate'[g].target = gate[g].target
        /\ gate'[g].flusher = "cancelled" => gate[g].flusher = "cancelled"
    BY <2>2, Zenon DEF Touches, Calm, Steady
  <2>4. Watched(g)
    BY <1>3, Zenon
  <2> QED
    BY <1>0, <1>1, <1>2, <2>1, <2>2, <2>3, <2>4, TouchedKept, Zenon DEF Watched
<1>5. CASE End
  <2>1. gated'
    BY <1>5 DEF End
  <2>2. PICK g \in Gens, err \in BOOLEAN :
          GetOrCreate(g) /\ gate' = [gate EXCEPT ![g] = EndGate(@, err)]
    BY <1>5, Zenon DEF End
  <2>3. /\ Touches(g) /\ gate'[g].state = "ended"
        /\ On(gate'[g]) => On(gate[g]) \/ (gate[g].target /\ gate[g].state # "ended")
    BY <2>2, EndMoves, Zenon
  <2>4. /\ Alone(g) /\ gate'[g].buf = gate[g].buf /\ gate'[g].target = gate[g].target
        /\ gate'[g].flusher = "cancelled" => gate[g].flusher = "cancelled"
        /\ On(gate[g]) => On(gate'[g])
    BY <2>3, Zenon DEF Touches, Calm, Steady
  <2>5. On(gate'[g]) => prod'.at \notin {"close", "closed"} /\ prod'.gen \in {0, g}
    <3>1. CASE On(gate[g])
      BY <1>0, <1>3, <3>1, Zenon DEF Watched
    <3>2. CASE gate[g].target /\ gate[g].state # "ended"
      <4>1. ~Closing
        BY <1>2, <2>2, <3>2, Zenon
      <4> QED
        BY <1>0, <4>1, Zenon DEF FlushInv, Closing
    <3> QED
      BY <2>3, <3>1, <3>2, Zenon
  <2>6. ~On(gate'[g]) => gate'[g].buf = <<>>
    BY <1>3, <2>4, Zenon DEF Watched
  <2> QED
    BY <1>0, <1>1, <2>1, <2>2, <2>3, <2>4, <2>5, <2>6, TouchedKept, Zenon
<1>6. CASE ResumeWithReplayInterval
  <2>1. cur' = cur /\ (stored' <=> stored) /\ (gated' <=> gated) /\ stored
    BY <1>6 DEF ResumeWithReplayInterval
  <2>2. /\ Alone(cur) /\ Calm(gate[cur], gate'[cur])
        /\ gate'[cur].state = gate[cur].state /\ (On(gate'[cur]) <=> On(gate[cur]))
    BY <1>6, ReplayMoves, Zenon
  <2>3. Watched(cur)
    BY <1>3, Zenon DEF StreamInv
  <2> QED
    BY <1>0, <2>1, <2>2, <2>3, OwnKept, Zenon DEF Watched, Calm, Steady
<1>7. CASE ClearPausedBuffer
  <2>1. cur' = cur /\ (stored' <=> stored) /\ (gated' <=> gated) /\ stored
    BY <1>7 DEF ClearPausedBuffer
  <2>2. /\ Alone(cur) /\ Steady(gate[cur], gate'[cur])
        /\ gate'[cur].buf = <<>> /\ gate'[cur].target = gate[cur].target
        /\ gate'[cur].state = gate[cur].state /\ (On(gate'[cur]) <=> On(gate[cur]))
    BY <1>7, ClearMoves, Zenon
  <2>3. Watched(cur)
    BY <1>3, Zenon DEF StreamInv
  <2> QED
    BY <1>0, <2>1, <2>2, <2>3, OwnKept, Zenon DEF Watched, Steady
<1> QED
  BY <1>4, <1>5, <1>6, <1>7, Zenon DEF Control

\* A chunk handed to the gate g.
LEMMA ReceivesKept ==
    ASSUME StreamInv, FlushInv, NEW g \in Gens, Receives(g), UNCHANGED envVars,
           ~Closing' /\ prod'.gen = 0,
           \/ On(gate'[g])
           \/ (On(gate'[g]) <=> On(gate[g])) /\ gate'[g].buf = gate[g].buf
    PROVE  FlushInv'
<1>1. ~Closing /\ prod.gen = 0
  BY Zenon DEF Receives, Closing, FlushInv
<1>2. gated' /\ (ctxDone' <=> ctxDone)
  BY DEF Receives, envVars
<1>3. Watched(g)
  BY Zenon DEF FlushInv
<1>4. On(gate'[g]) => prod'.at \notin {"close", "closed"} /\ prod'.gen \in {0, g}
  BY Zenon DEF Closing
<1>5. ~On(gate'[g]) => gate'[g].buf = <<>>
  BY <1>3, Zenon DEF Watched
<1> QED
  BY <1>1, <1>2, <1>4, <1>5, TouchedKept, Zenon DEF Receives, Steady

\* GateSend keeps it.
LEMMA GateSendFlush ==
    ASSUME StreamInv, FlushInv,
           \/ GateSendEnded \/ GateSendOverflow \/ GateSendPaused \/ GateSendQueued
           \/ GateSendDirect
    PROVE  FlushInv'
<1>1. prod \in Sending /\ prod.at = "send" /\ ~Closing /\ prod.gen = 0 /\ UNCHANGED envVars
  BY Zenon DEF StreamInv, GateSendEnded, GateSendOverflow, GateSendPaused, GateSendQueued,
         GateSendDirect, FlushInv, Closing
<1>2. ~Closing' /\ prod'.gen = 0
  <2>1. CASE Advance
    BY <1>1, <2>1, AdvanceSteps, Zenon
  <2>2. CASE prod' = [prod EXCEPT !.at = "direct"]
    BY <1>1, <2>2, Zenon DEF Sending, Closing
  <2> QED
    BY <2>1, <2>2, Zenon DEF GateSendEnded, GateSendOverflow, GateSendPaused, GateSendQueued,
         GateSendDirect
<1>3. CASE GateSendEnded
  <2>1. PICK g \in Gens : /\ Receives(g) /\ gate'[g].buf = gate[g].buf
                          /\ (On(gate'[g]) <=> On(gate[g]))
    BY <1>3, EndedMoves, Zenon
  <2> QED
    BY <1>1, <1>2, <2>1, ReceivesKept, Zenon
<1>4. CASE GateSendOverflow
  <2>1. PICK g \in Gens : Receives(g) /\ On(gate'[g])
    BY <1>4, OverflowMoves, Zenon
  <2> QED
    BY <1>1, <1>2, <2>1, ReceivesKept, Zenon
<1>5. CASE GateSendPaused
  <2>1. PICK g \in Gens : Receives(g) /\ On(gate'[g])
    BY <1>5, PausedMoves, Zenon
  <2> QED
    BY <1>1, <1>2, <2>1, ReceivesKept, Zenon
<1>6. CASE GateSendQueued
  <2>1. PICK g \in Gens : Receives(g) /\ (On(gate'[g]) <=> On(gate[g])) /\ Queues(gate[g])
    BY <1>6, QueuedMoves, Zenon
  <2>2. On(gate[g])
    BY <2>1, Zenon DEF Queues, FlushInv, Watched
  <2> QED
    BY <1>1, <1>2, <2>1, <2>2, ReceivesKept, Zenon
<1>7. CASE GateSendDirect
  <2>1. PICK g \in Gens : /\ Receives(g) /\ gate'[g].buf = gate[g].buf
                          /\ (On(gate'[g]) <=> On(gate[g]))
    BY <1>7, DirectMoves, Zenon
  <2> QED
    BY <1>1, <1>2, <2>1, ReceivesKept, Zenon
<1> QED
  BY <1>3, <1>4, <1>5, <1>6, <1>7, Zenon

\* A gate that differs at most in the teardown asked for.
Marked(a, b) ==
    /\ b.state = a.state /\ b.flusher = a.flusher /\ b.buf = a.buf /\ b.hand = a.hand
    /\ b.target = a.target

\* The teardown a plugin asks for on the final chunk marks the gate, or takes the
\* accumulator of an idle one out of the map (RunPostHooks).
LEMMA HookMoves ==
    ASSUME StreamInv, RunPostHooks
    PROVE  /\ Alone(cur) /\ Marked(gate[cur], gate'[cur]) /\ (stored' => stored)
           /\ On(gate[cur]) => (stored' <=> stored)
           /\ ~ReleaseOnFinal => gate' = gate /\ (stored' <=> stored)
<1> DEFINE b == [gate[cur] EXCEPT !.cleanup = TRUE]
<1>0. cur \in Gens /\ gate[cur] \in Gate
  BY Zenon DEF StreamInv
<1>1. \/ gate' = gate /\ (stored' <=> stored)
      \/ ReleaseOnFinal /\ gate' = gate /\ ~stored' /\ ~On(gate[cur])
      \/ ReleaseOnFinal /\ gate' = [gate EXCEPT ![cur] = b] /\ stored' /\ stored
  BY <1>0 DEF RunPostHooks, Release, StreamInv
<1>2. CASE gate' = gate
  BY <1>1, <1>2, <1>0, Zenon DEF Alone, Marked
<1>3. CASE ReleaseOnFinal /\ gate' = [gate EXCEPT ![cur] = b] /\ stored' /\ stored
  <2>1. Marked(gate[cur], b)
    BY <1>0, Zenon DEF Gate, Marked
  <2> HIDE DEF b
  <2>2. gate'[cur] = b /\ Alone(cur)
    BY <1>0, <1>3, GateMoves, Zenon
  <2> QED
    BY <1>3, <2>1, <2>2, Zenon
<1> QED
  BY <1>1, <1>2, <1>3, Zenon

\* The post-hooks keep it, with or without the release on the final chunk.
LEMMA HookFlush == ASSUME StreamInv, FlushInv, RunPostHooks PROVE FlushInv'
<1>1. /\ Alone(cur) /\ Marked(gate[cur], gate'[cur]) /\ (stored' => stored)
      /\ On(gate[cur]) => (stored' <=> stored)
  BY HookMoves, Zenon
<1>2. prod.at = "hook" /\ prod \in Sending /\ prod' = [prod EXCEPT !.at = "send"] /\ cur' = cur
  BY Zenon DEF RunPostHooks, StreamInv
<1>3. prod'.at = "send" /\ prod'.gen = prod.gen /\ ~Closing /\ ~Closing'
  BY <1>2, Zenon DEF Sending, Closing
<1>4. (gated' <=> gated) /\ (ctxDone' <=> ctxDone)
  BY DEF RunPostHooks, envVars
<1>5. \A g \in Gens : Watched(g)'
  <2> SUFFICES ASSUME NEW g \in Gens PROVE Watched(g)'
    BY Zenon
  <2>1. Watched(g)
    BY Zenon DEF FlushInv
  <2>2. Marked(gate[g], gate'[g])
    BY <1>1, Zenon DEF Alone, Marked
  <2>3. On(gate'[g]) <=> On(gate[g])
    BY <2>2, Zenon DEF Marked, On
  <2> QED
    BY <1>1, <1>2, <1>3, <1>4, <2>1, <2>2, <2>3, Zenon DEF Watched, Marked
<1> QED
  BY <1>3, <1>5, Zenon DEF FlushInv

\* The provider keeps it, the end of the stream and the wait included.
LEMMA ProducerFlush == ASSUME StreamInv, FlushInv, Producer PROVE FlushInv'
<1>0. prod \in Sending /\ cur \in Gens /\ \A g \in Gens : Watched(g)
  BY Zenon DEF StreamInv, FlushInv
<1>1. CASE RunPostHooks
  BY <1>1, HookFlush, Zenon
<1>2. CASE SendUngated
  <2>1. /\ UNCHANGED <<gate, cur>> /\ (stored' <=> stored) /\ (gated' <=> gated)
        /\ (ctxDone' <=> ctxDone)
    BY <1>2 DEF SendUngated, envVars
  <2>2. prod.at = "send" /\ prod' = [prod EXCEPT !.at = "direct"]
    BY <1>2, Zenon DEF SendUngated
  <2>3. prod'.at = "direct" /\ prod'.gen = prod.gen /\ ~Closing /\ ~Closing'
    BY <1>0, <2>2, Zenon DEF Sending, Closing
  <2> QED
    BY <1>0, <2>1, <2>3, StandKept, Zenon DEF FlushInv, Watched
<1>3. CASE \/ GateSendEnded \/ GateSendOverflow \/ GateSendPaused \/ GateSendQueued
           \/ GateSendDirect
  BY <1>3, GateSendFlush, Zenon
<1>4. CASE DirectSend \/ DirectCancel
  <2>1. /\ UNCHANGED <<gate, cur>> /\ (stored' <=> stored) /\ (gated' <=> gated)
        /\ (ctxDone' <=> ctxDone)
    BY <1>4 DEF DirectSend, DirectCancel, envVars
  <2>2. prod.at = "direct" /\ Advance
    BY <1>4, Zenon DEF DirectSend, DirectCancel
  <2>3. ~Closing /\ prod.gen = 0
    BY <2>2, Zenon DEF FlushInv, Closing
  <2>4. ~Closing' /\ prod'.gen = 0 /\ prod'.at \in {"hook", "end"}
    BY <1>0, <2>2, <2>3, AdvanceSteps, Zenon
  <2> QED
    BY <2>1, <2>4, StandKept, Zenon
<1>5. CASE CloseStreamEnd
  <2>0. prod.at = "end" /\ ~Closing /\ prod.gen = 0 /\ (ctxDone' <=> ctxDone)
        /\ (gated' <=> gated)
    BY <1>5 DEF CloseStreamEnd, FlushInv, Closing, envVars
  <2>1. CASE gated
    <3>1. PICK g \in Gens : GetOrCreate(g) /\ gate' = [gate EXCEPT ![g] = EndGate(@, FALSE)]
      BY <1>5, <2>1, Zenon DEF CloseStreamEnd
    <3>2. prod' = [prod EXCEPT !.at = "wait"]
      BY <1>5, <2>1, Zenon DEF CloseStreamEnd
    <3>3. prod'.at = "wait" /\ prod'.gen = prod.gen /\ Closing'
      BY <1>0, <3>2, Zenon DEF Sending, Closing
    <3>4. /\ Touches(g) /\ gate'[g].state = "ended"
      BY <3>1, EndMoves, Zenon
    <3>5. ~On(gate'[g]) => gate'[g].buf = <<>>
      BY <1>0, <3>4, Zenon DEF Touches, Calm, Steady, Watched
    <3>6. /\ Alone(g) /\ gate'[g].flusher = "cancelled" => gate[g].flusher = "cancelled"
      BY <3>4, Zenon DEF Touches, Calm, Steady
    <3>7. Alone(g)
      BY <3>4, Zenon DEF Touches
    <3> QED
      BY <2>0, <2>1, <3>1, <3>3, <3>4, <3>5, <3>6, <3>7, TouchedKept, Zenon
  <2>2. CASE ~gated
    <3>1. /\ UNCHANGED <<gate, cur>> /\ (stored' <=> stored)
          /\ prod' = [prod EXCEPT !.at = "close"]
      BY <1>5, <2>2 DEF CloseStreamEnd
    <3>2. Closing'
      BY <1>0, <3>1, Zenon DEF Sending, Closing
    <3>3. \A g \in Gens : ~On(gate[g])
      BY <1>0, <2>2, Zenon DEF Watched
    <3> QED
      BY <2>0, <2>2, <3>1, <3>2, <3>3, StandKept, Zenon
  <2> QED
    BY <2>1, <2>2, Zenon
<1>6. CASE WaitForFlusher
  <2>1. /\ UNCHANGED <<gate, cur>> /\ (stored' <=> stored) /\ (gated' <=> gated)
        /\ (ctxDone' <=> ctxDone) /\ prod.at = "wait"
    BY <1>6 DEF WaitForFlusher, envVars
  <2>2. \/ stored /\ On(gate[cur]) /\ prod' = [prod EXCEPT !.gen = cur]
        \/ /\ prod.gen = 0 /\ ~(stored /\ On(gate[cur]))
           /\ prod' = [prod EXCEPT !.at = "close"]
        \/ /\ prod.gen # 0 /\ ~On(gate[prod.gen])
           /\ prod' = [prod EXCEPT !.at = "close"]
    BY <1>6, Zenon DEF WaitForFlusher
  <2>3. Closing /\ Closing'
    BY <1>0, <2>1, <2>2, Zenon DEF Sending, Closing
  <2>4. \A g \in Gens : On(gate[g]) => /\ prod'.at \notin {"close", "closed"}
                                       /\ prod'.gen \in {0, g}
    <3> SUFFICES ASSUME NEW g \in Gens, On(gate[g])
                 PROVE  prod'.at \notin {"close", "closed"} /\ prod'.gen \in {0, g}
      BY Zenon
    <3>1. Watched(g)
      BY <1>0, Zenon
    <3>2. g = cur /\ stored /\ prod.gen \in {0, g}
      BY <3>1, Zenon DEF Watched
    <3>3. prod' = [prod EXCEPT !.gen = cur]
      BY <2>2, <3>2, Zenon
    <3> QED
      BY <1>0, <2>1, <3>2, <3>3, Zenon DEF Sending
  <2> QED
    BY <2>1, <2>3, <2>4, StandKept, Zenon
<1>7. CASE CloseChannel
  <2>1. /\ UNCHANGED <<gate, cur>> /\ (stored' <=> stored) /\ (gated' <=> gated)
        /\ (ctxDone' <=> ctxDone) /\ prod.at = "close"
    BY <1>7 DEF CloseChannel, envVars
  <2>2. prod' = [prod EXCEPT !.at = "closed"]
    BY <1>7, Zenon DEF CloseChannel
  <2>3. Closing /\ Closing'
    BY <1>0, <2>1, <2>2, Zenon DEF Sending, Closing
  <2>4. \A g \in Gens : ~On(gate[g])
    BY <1>0, <2>1, Zenon DEF Watched
  <2> QED
    BY <2>1, <2>3, <2>4, StandKept, Zenon
<1> QED
  BY <1>1, <1>2, <1>3, <1>4, <1>5, <1>6, <1>7, Zenon DEF Producer

\* The flusher keeps it, and runs only while the channel is open.
LEMMA FlusherFlush ==
    ASSUME StreamInv, FlushInv, NEW g \in Gens, Flusher(g)
    PROVE  FlushInv' /\ g = cur /\ stored /\ gated /\ prod.at # "closed" /\ Flushes(g)
<1>1. On(gate[g])
  BY Zenon DEF Flusher, FlusherCheck, FlusherSend, FlusherCancel, FlusherSent, FlusherPaced,
         FlusherAbandon, FlusherSendErr, FlusherErrCancel, On
<1>2. Watched(g)
  BY Zenon DEF FlushInv
<1>3. g = cur /\ stored /\ gated /\ prod.at # "closed"
  BY <1>1, <1>2, Zenon DEF Watched
<1>4. Flushes(g)
  BY <1>3, FlusherMoves, Zenon
<1>5. /\ Alone(cur) /\ UNCHANGED <<cur, prod>> /\ (gated' <=> gated) /\ (ctxDone' <=> ctxDone)
  BY <1>3, <1>4 DEF Flushes
<1>6. gate'[g].flusher = "cancelled" => ctxDone
  <2>1. CanCancel => ctxDone
    BY <1>3, Zenon DEF CanCancel
  <2> QED
    BY <1>2, <2>1, <1>4, Zenon
       DEF Flushes, KeepsAll, WritesChunk, WritesError, GivesUp, Abandons
<1>7. FlushInv'
  BY <1>1, <1>3, <1>4, <1>5, <1>6, OwnKept, Zenon DEF Flushes, Carries
<1> QED
  BY <1>3, <1>4, <1>7, Zenon

\* Without the TTL sweep, the cleanup comes after the channel is closed.
LEMMA CleanupFlush ==
    ASSUME StreamInv, FlushInv, ~TTLSweep, ForceCleanup
    PROVE  FlushInv' /\ prod.at = "closed"
<1>1. /\ prod.at = "closed" /\ UNCHANGED <<cur, prod>> /\ ~stored' /\ (gated' <=> gated)
      /\ (ctxDone' <=> ctxDone)
  BY DEF ForceCleanup, envVars
<1>2. /\ Alone(cur) /\ Steady(gate[cur], gate'[cur]) /\ gate'[cur].target = gate[cur].target
      /\ gate'[cur].state = "ended" /\ (On(gate'[cur]) <=> On(gate[cur]))
      /\ gate'[cur].buf \in {gate[cur].buf, <<>>}
  BY ForceMoves, Zenon
<1>3. Watched(cur)
  BY Zenon DEF FlushInv, StreamInv
<1>4. ~On(gate[cur])
  BY <1>1, <1>3, Zenon DEF Watched
<1> QED
  BY <1>1, <1>2, <1>3, <1>4, OwnKept, Zenon DEF Watched, Steady

\* No flusher runs at first.
LEMMA InitFlush == Init => FlushInv
<1> SUFFICES ASSUME Init PROVE FlushInv
  BY Zenon
<1>1. /\ NewGate.flusher = "off" /\ NewGate.buf = <<>> /\ ~NewGate.target
  BY Zenon DEF NewGate
<1>2. gate = [g \in Gens |-> NewGate] /\ prod.gen = 0 /\ prod.at = "hook"
  BY Zenon DEF Init
<1>3. \A g \in Gens : Watched(g)
  BY <1>1, <1>2, Zenon DEF Watched, On
<1> QED
  BY <1>2, <1>3, Zenon DEF FlushInv, Closing

\* Every step keeps it.
LEMMA NextFlush == ~TTLSweep /\ StreamInv /\ FlushInv /\ [Next]_vars => FlushInv'
<1> SUFFICES ASSUME ~TTLSweep, StreamInv, FlushInv, [Next]_vars PROVE FlushInv'
  BY Zenon
<1>1. CASE Control
  BY <1>1, ControlFlush, Zenon
<1>2. CASE Producer
  BY <1>2, ProducerFlush, Zenon
<1>3. CASE ForceCleanup
  BY <1>3, CleanupFlush, Zenon
<1>4. CASE Receive \/ Cancel \/ UNCHANGED vars
  <2>1. /\ UNCHANGED <<gate, cur, prod>> /\ (stored' <=> stored) /\ (gated' <=> gated)
        /\ (ctxDone => ctxDone')
    BY <1>4 DEF Receive, Cancel, vars
  <2>2. Closing' <=> Closing
    BY <2>1, Zenon DEF Closing
  <2> QED
    BY <2>1, <2>2, StandKept, Zenon DEF FlushInv, Watched
<1>5. CASE \E g \in Gens : Flusher(g)
  BY <1>5, FlusherFlush, Zenon
<1> QED
  BY <1>1, <1>2, <1>3, <1>4, <1>5, Zenon DEF Next

\* The types of gates and provider, in every state.
LEMMA SpecStream == Spec => []StreamInv
BY InitFollows, NextFollows, PTL DEF Spec, Follows

\* CloseStream closes the channel only when no flusher is left to write to it, for any
\* number of accumulators and calls, as long as the TTL is not reached.
THEOREM NoFlusherIsLeft == ASSUME ~TTLSweep PROVE Spec => []NoFlusherAfterClose
<1>1. Spec => []FlushInv
  BY SpecStream, InitFlush, NextFlush, PTL DEF Spec
<1>2. FlushInv => NoFlusherAfterClose
  BY Zenon DEF FlushInv, Watched, NoFlusherAfterClose
<1> QED
  BY <1>1, <1>2, PTL

-----------------------------------------------------------------------------
(* Types. *)

\* The types StreamInv leaves open.
MapTypes == stored \in BOOLEAN /\ gated \in BOOLEAN /\ ctxDone \in BOOLEAN /\ ctl \in 0..MaxCtl

\* The channel holds chunks and errors, and the client has taken some of them.
OutTypes == out \in Seq(Hand) /\ taken \in 0..Len(out)

\* The history variables.
HistTypes == owed \subseteq Chunk /\ cut \in 0..(Chunks + 1) /\ leak \in Nat

\* All that StreamInv leaves out.
Types == MapTypes /\ OutTypes /\ HistTypes

\* A plugin's call is counted up to the bound.
LEMMA CallTyped == ASSUME ctl \in 0..MaxCtl, Call(1) PROVE ctl' \in 0..MaxCtl
BY StreamAssumption DEF Call

\* The map has the accumulator or not, after a release ...
LEMMA ReleaseTyped == ASSUME NEW gs, Release(gs) PROVE stored' \in BOOLEAN
BY Zenon DEF Release

\* ... and after any step of a flusher.
LEMMA FlusherStored ==
    ASSUME stored \in BOOLEAN, NEW g \in Gens, Flusher(g)
    PROVE  stored' \in BOOLEAN
<1>1. \A a : Exit(g, a) => stored' \in BOOLEAN
  BY ReleaseTyped, Zenon DEF Exit
<1>2. \A a : AfterDrain(g, a) => stored' \in BOOLEAN
  BY <1>1, Zenon DEF AfterDrain
<1>3. \A a : Drain(g, a) => stored' \in BOOLEAN
  BY <1>2, Zenon DEF Drain
<1> QED
  BY <1>1, <1>2, <1>3, Zenon
     DEF Flusher, FlusherCheck, FlusherSend, FlusherCancel, FlusherSent, FlusherPaced,
         FlusherAbandon, FlusherSendErr, FlusherErrCancel

\* The types of the map and the environment are kept.
LEMMA MapTyped == ASSUME MapTypes, [Next]_vars PROVE MapTypes'
<1>1. CASE Control
  <2>1. ctl' \in 0..MaxCtl /\ ctxDone' \in BOOLEAN
    BY <1>1, CallTyped, Zenon DEF MapTypes, Control, Pause, Resume, ResumeWithReplayInterval,
         ClearPausedBuffer, End
  <2>2. stored' \in BOOLEAN /\ gated' \in BOOLEAN
    BY <1>1, Zenon DEF MapTypes, Control, Pause, Resume, ResumeWithReplayInterval,
         ClearPausedBuffer, End, GetOrCreate
  <2> QED
    BY <2>1, <2>2, Zenon DEF MapTypes
<1>2. CASE Producer
  <2>1. UNCHANGED envVars
    BY <1>2, Zenon DEF Producer, RunPostHooks, SendUngated, GateSendEnded, GateSendOverflow,
         GateSendPaused, GateSendQueued, GateSendDirect, DirectSend, DirectCancel,
         CloseStreamEnd, WaitForFlusher, CloseChannel
  <2>2. stored' \in BOOLEAN
    <3>1. CASE RunPostHooks
      BY <3>1, ReleaseTyped, Zenon DEF RunPostHooks, MapTypes
    <3>2. CASE ~RunPostHooks
      BY <1>2, <3>2, Zenon DEF Producer, SendUngated, GateSendEnded, GateSendOverflow,
         GateSendPaused, GateSendQueued, GateSendDirect, DirectSend, DirectCancel,
         CloseStreamEnd, WaitForFlusher, CloseChannel, GetOrCreate, MapTypes
    <3> QED
      BY <3>1, <3>2, Zenon
  <2> QED
    BY <2>1, <2>2, Zenon DEF MapTypes, envVars
<1>3. CASE ForceCleanup
  BY <1>3, Zenon DEF MapTypes, ForceCleanup, envVars
<1>4. CASE Receive \/ Cancel \/ UNCHANGED vars
  BY <1>4, Zenon DEF MapTypes, Receive, Cancel, vars
<1>5. CASE \E g \in Gens : Flusher(g)
  <2>1. PICK g \in Gens : Flusher(g)
    BY <1>5, Zenon
  <2>2. UNCHANGED envVars
    BY <2>1, Zenon DEF Flusher, FlusherCheck, FlusherSend, FlusherCancel, FlusherSent,
         FlusherPaced, FlusherAbandon, FlusherSendErr, FlusherErrCancel
  <2>3. stored' \in BOOLEAN
    BY <2>1, FlusherStored, Zenon DEF MapTypes
  <2> QED
    BY <2>2, <2>3, Zenon DEF MapTypes, envVars
<1> QED
  BY <1>1, <1>2, <1>3, <1>4, <1>5, Zenon DEF Next

\* A step writes at most one chunk or error to the channel.
LEMMA OneWrite ==
    ASSUME StreamInv, [Next]_vars
    PROVE  \/ out' = out /\ (leak' = leak \/ leak' = 0)
           \/ \E c \in Hand : Write(c) /\ taken' = taken
<1>0. prod.chunk \in Hand /\ Err \in Hand /\ \A g \in Gens : gate[g].hand \in Hand
  BY ChunkIsNat, Zenon DEF StreamInv, Sending, Gate
<1>1. CASE Control
  BY <1>1, Zenon DEF Control, Pause, Resume, ResumeWithReplayInterval, ClearPausedBuffer, End
<1>2. CASE Producer
  <2>1. CASE DirectSend
    BY <1>0, <2>1, Zenon DEF DirectSend, envVars
  <2>2. CASE ~DirectSend
    BY <1>2, <2>2, Zenon DEF Producer, RunPostHooks, SendUngated, GateSendEnded,
         GateSendOverflow, GateSendPaused, GateSendQueued, GateSendDirect, DirectCancel,
         CloseStreamEnd, WaitForFlusher, CloseChannel, histVars
  <2> QED
    BY <2>1, <2>2, Zenon
<1>3. CASE ForceCleanup \/ Receive \/ Cancel \/ UNCHANGED vars
  BY <1>3, Zenon DEF ForceCleanup, Receive, Cancel, vars, histVars
<1>4. CASE \E g \in Gens : Flusher(g)
  BY <1>0, <1>4, Zenon DEF Flusher, FlusherCheck, FlusherSend, FlusherCancel, FlusherSent,
         FlusherPaced, FlusherAbandon, FlusherSendErr, FlusherErrCancel, envVars, histVars
<1> QED
  BY <1>1, <1>2, <1>3, <1>4, Zenon DEF Next

\* The channel's type is kept: a step writes one chunk at most.
LEMMA OutTyped ==
    ASSUME StreamInv, OutTypes, leak \in Nat, [Next]_vars
    PROVE  OutTypes' /\ leak' \in Nat
<1>1. \/ taken' = taken
      \/ taken < Len(out) /\ taken' = taken + 1 /\ out' = out
  BY Zenon DEF Next, vars, Control, Pause, Resume, ResumeWithReplayInterval, ClearPausedBuffer,
         End, Producer, RunPostHooks, SendUngated, GateSendEnded, GateSendOverflow,
         GateSendPaused, GateSendQueued, GateSendDirect, DirectSend, DirectCancel,
         CloseStreamEnd, WaitForFlusher, CloseChannel, ForceCleanup, Receive, Cancel,
         Flusher, FlusherCheck, FlusherSend, FlusherCancel, FlusherSent,
         FlusherPaced, FlusherAbandon, FlusherSendErr, FlusherErrCancel, envVars
<1>2. CASE out' = out /\ (leak' = leak \/ leak' = 0)
  BY <1>1, <1>2 DEF OutTypes
<1>3. CASE \E c \in Hand : Write(c) /\ taken' = taken
  BY <1>3 DEF OutTypes, Write
<1> QED
  BY <1>2, <1>3, OneWrite, Zenon

\* The history: chunks owed are chunks, and the cut is behind a chunk of the provider's.
LEMMA HistTyped ==
    ASSUME StreamInv, OutTypes, HistTypes, [Next]_vars
    PROVE  HistTypes'
<1>1. prod.chunk \in Chunk /\ prod.chunk \in 0..(Chunks + 1) /\ Unsent \in 0..(Chunks + 1)
  BY StreamAssumption DEF StreamInv, Sending, Unsent, Chunk
<1>2. owed' \subseteq owed \cup {prod.chunk}
  BY Zenon DEF Next, vars, Control, Pause, Resume, ResumeWithReplayInterval, ClearPausedBuffer,
         End, Producer, RunPostHooks, SendUngated, GateSendEnded, GateSendOverflow,
         GateSendPaused, GateSendQueued, GateSendDirect, DirectSend, DirectCancel,
         CloseStreamEnd, WaitForFlusher, CloseChannel, ForceCleanup, Receive, Cancel,
         Flusher, FlusherCheck, FlusherSend, FlusherCancel, FlusherSent,
         FlusherPaced, FlusherAbandon, FlusherSendErr, FlusherErrCancel, histVars
<1>3. cut' \in {cut, Unsent, prod.chunk}
  BY Zenon DEF Next, vars, Control, Pause, Resume, ResumeWithReplayInterval, ClearPausedBuffer,
         End, Producer, RunPostHooks, SendUngated, GateSendEnded, GateSendOverflow,
         GateSendPaused, GateSendQueued, GateSendDirect, DirectSend, DirectCancel,
         CloseStreamEnd, WaitForFlusher, CloseChannel, ForceCleanup, Receive, Cancel,
         Flusher, FlusherCheck, FlusherSend, FlusherCancel, FlusherSent,
         FlusherPaced, FlusherAbandon, FlusherSendErr, FlusherErrCancel, histVars
<1> QED
  BY <1>1, <1>2, <1>3, OutTyped, Zenon DEF HistTypes

\* The types hold at first.
LEMMA InitTypes == Init => Types
<1>1. /\ 0 \in 0..MaxCtl /\ 0 \in 0..(Chunks + 1) /\ 0 \in Nat /\ <<>> \in Seq(Hand)
      /\ 0 \in 0..Len(<<>>)
  BY StreamAssumption
<1> QED
  BY <1>1, Zenon DEF Init, Types, MapTypes, OutTypes, HistTypes

\* Every step keeps them.
LEMMA NextTypes == StreamInv /\ Types /\ [Next]_vars => Types'
BY MapTyped, OutTyped, HistTyped, Zenon DEF Types, HistTypes

\* Every variable of the gate, the provider and the client keeps its type.
THEOREM GateTypes == Spec => []TypeOK
<1>1. Spec => []Types
  BY SpecStream, InitTypes, NextTypes, PTL DEF Spec
<1>2. StreamInv /\ Types => TypeOK
  BY Zenon DEF StreamInv, Types, MapTypes, OutTypes, HistTypes, TypeOK, Gate, Sending, Chunk,
         Hand
<1> QED
  BY SpecStream, <1>1, <1>2, PTL

-----------------------------------------------------------------------------
(* What was buffered is delivered. *)

\* The chunk has reached the channel, or a gate still has it.
Somewhere(c) == c \in Range(out) \/ \E g \in Gens : c \in Holding(gate[g])

\* A chunk the gate took and did not drop is in the channel, in a buffer or in hand, unless
\* the client went away.
OwedInv == ~ctxDone => \A c \in owed : Somewhere(c)

\* A steady gate differs in what it buffers only.
LEMMA SteadyHolds ==
    ASSUME NEW a, NEW b, Steady(a, b)
    PROVE  /\ b.buf = a.buf => Holding(b) = Holding(a)
           /\ \A c : c \in Holding(a) => c \in Holding(b) \/ c \in Range(a.buf)
           /\ Range(b.buf) \subseteq Holding(b)
           /\ \A c : c \in Holding(b) => c \in Holding(a) \/ c \in Range(b.buf)
BY DEF Steady, Holding

\* Every gate holds what it held.
Unmoved == \A g \in Gens : Holding(gate[g]) \subseteq Holding(gate'[g])

\* One gate changes, and keeps what it holds.
LEMMA AloneUnmoved ==
    ASSUME NEW g \in Gens, Alone(g), Holding(gate[g]) \subseteq Holding(gate'[g])
    PROVE  Unmoved
<1> SUFFICES ASSUME NEW h \in Gens PROVE Holding(gate[h]) \subseteq Holding(gate'[h])
  BY Zenon DEF Unmoved
<1>1. CASE h = g
  BY <1>1, Zenon
<1>2. CASE h # g
  BY <1>2, Zenon DEF Alone
<1> QED
  BY <1>1, <1>2, Zenon

\* A write adds one element to the channel.
LEMMA OutGrows ==
    ASSUME OutTypes, NEW c \in Hand, Write(c)
    PROVE  Range(out') = Range(out) \cup {c}
<1>1. out' = Append(out, c) /\ out \in Seq(Hand)
  BY Zenon DEF Write, OutTypes
<1>2. /\ DOMAIN out = 1..Len(out) /\ DOMAIN out' = 1..(Len(out) + 1) /\ Len(out) \in Nat
      /\ out'[Len(out) + 1] = c /\ \A i \in 1..Len(out) : out'[i] = out[i]
  BY <1>1
<1> QED
  BY <1>2 DEF Range

\* Nothing is dropped.
LEMMA UnmovedOwed ==
    ASSUME OwedInv, ctxDone => ctxDone', Unmoved, Range(out) \subseteq Range(out'),
           \A c \in owed' : c \in owed \/ \E g \in Gens : c \in Holding(gate'[g])
    PROVE  OwedInv'
<1> SUFFICES ASSUME ~ctxDone', NEW c \in owed' PROVE Somewhere(c)'
  BY Zenon DEF OwedInv
<1>1. CASE c \in owed
  BY <1>1, Zenon DEF OwedInv, Somewhere, Unmoved
<1>2. CASE \E g \in Gens : c \in Holding(gate'[g])
  BY <1>2, Zenon DEF Somewhere
<1> QED
  BY <1>1, <1>2, Zenon

\* What is dropped from the gate g is owed no more.
LEMMA DroppedOwed ==
    ASSUME OwedInv, ctxDone => ctxDone', NEW g \in Gens, Alone(g), out' = out,
           owed' = owed \ Range(gate[g].buf),
           \A c : c \in Holding(gate[g]) => c \in Holding(gate'[g]) \/ c \in Range(gate[g].buf)
    PROVE  OwedInv'
<1> SUFFICES ASSUME ~ctxDone', NEW c \in owed' PROVE Somewhere(c)'
  BY Zenon DEF OwedInv
<1>1. c \in owed /\ c \notin Range(gate[g].buf) /\ Somewhere(c)
  BY Zenon DEF OwedInv
<1>2. CASE c \in Range(out)
  BY <1>2, Zenon DEF Somewhere
<1>3. CASE \E h \in Gens : c \in Holding(gate[h])
  <2>1. PICK h \in Gens : c \in Holding(gate[h])
    BY <1>3, Zenon
  <2>2. c \in Holding(gate'[h])
    BY <1>1, <2>1, Zenon DEF Alone
  <2> QED
    BY <2>2, Zenon DEF Somewhere
<1> QED
  BY <1>1, <1>2, <1>3, Zenon DEF Somewhere

\* The plugins' calls keep it: ClearPausedBuffer drops what is then owed no more.
LEMMA ControlOwed == ASSUME StreamInv, OwedInv, Control PROVE OwedInv'
<1>0. ctxDone => ctxDone'
  BY Zenon DEF Control, Pause, Resume, ResumeWithReplayInterval, ClearPausedBuffer, End
<1>1. CASE Pause \/ Resume \/ End
  <2>1. out' = out /\ owed' = owed
    BY <1>1, Zenon DEF Pause, Resume, End
  <2>2. PICK g \in Gens : Touches(g)
    <3>1. CASE Pause \/ Resume
      BY <3>1, PauseMoves, ResumeMoves, Zenon
    <3>2. CASE End
      <4>1. PICK g \in Gens, err \in BOOLEAN :
              GetOrCreate(g) /\ gate' = [gate EXCEPT ![g] = EndGate(@, err)]
        BY <3>2, Zenon DEF End
      <4> QED
        BY <4>1, EndMoves, Zenon
    <3> QED
      BY <1>1, <3>1, <3>2, Zenon
  <2>3. Unmoved
    BY <2>2, CalmHolds, AloneUnmoved, Zenon DEF Touches
  <2> QED
    BY <1>0, <2>1, <2>3, UnmovedOwed, Zenon
<1>2. CASE ResumeWithReplayInterval
  <2>1. out' = out /\ owed' = owed
    BY <1>2, Zenon DEF ResumeWithReplayInterval
  <2>2. Alone(cur) /\ Calm(gate[cur], gate'[cur]) /\ cur \in Gens
    BY <1>2, ReplayMoves, Zenon DEF StreamInv
  <2>3. Unmoved
    BY <2>2, CalmHolds, AloneUnmoved, Zenon
  <2> QED
    BY <1>0, <2>1, <2>3, UnmovedOwed, Zenon
<1>3. CASE ClearPausedBuffer
  <2>1. out' = out /\ owed' = owed \ Range(gate[cur].buf)
    BY <1>3, Zenon DEF ClearPausedBuffer
  <2>2. Alone(cur) /\ Steady(gate[cur], gate'[cur]) /\ cur \in Gens
    BY <1>3, ClearMoves, Zenon DEF StreamInv
  <2> QED
    BY <1>0, <2>1, <2>2, SteadyHolds, DroppedOwed, Zenon
<1> QED
  BY <1>1, <1>2, <1>3, Zenon DEF Control

\* GateSend keeps it: a buffered chunk is held.
LEMMA GateSendOwed ==
    ASSUME StreamInv, OwedInv,
           \/ GateSendEnded \/ GateSendOverflow \/ GateSendPaused \/ GateSendQueued
           \/ GateSendDirect
    PROVE  OwedInv'
<1>a. out' = out /\ UNCHANGED envVars
  BY Zenon DEF GateSendEnded, GateSendOverflow, GateSendPaused, GateSendQueued,
               GateSendDirect
<1>0. (ctxDone => ctxDone') /\ out' = out
  BY <1>a DEF envVars
<1>1. CASE GateSendEnded \/ GateSendOverflow \/ GateSendDirect
  <2>1. owed' = owed
    BY <1>1, Zenon DEF GateSendEnded, GateSendOverflow, GateSendDirect, histVars
  <2>2. PICK g \in Gens : Receives(g) /\ gate'[g].buf = gate[g].buf
    BY <1>1, EndedMoves, OverflowMoves, DirectMoves, Zenon
  <2>3. Alone(g) /\ Holding(gate'[g]) = Holding(gate[g])
    BY <2>2, SteadyHolds, Zenon DEF Receives
  <2>4. Unmoved
    BY <2>3, AloneUnmoved, Zenon
  <2> QED
    BY <1>0, <2>1, <2>4, UnmovedOwed, Zenon
<1>2. CASE GateSendPaused \/ GateSendQueued
  <2>1. owed' = owed \cup {prod.chunk}
    BY <1>2, Zenon DEF GateSendPaused, GateSendQueued
  <2>2. PICK g \in Gens : Receives(g) /\ gate'[g].buf = Append(gate[g].buf, prod.chunk)
    BY <1>2, PausedMoves, QueuedMoves, Zenon
  <2>3. gate[g].buf \in Seq(Chunk) /\ prod.chunk \in Chunk
    BY Zenon DEF StreamInv, Gate, Sending
  <2>4. Range(gate'[g].buf) = Range(gate[g].buf) \cup {prod.chunk}
    BY <2>2, <2>3, ElementsAppended, Zenon
  <2>5. Alone(g) /\ Steady(gate[g], gate'[g])
    BY <2>2, Zenon DEF Receives
  <2>6. Holding(gate[g]) \subseteq Holding(gate'[g]) /\ prod.chunk \in Holding(gate'[g])
    BY <2>4, <2>5, SteadyHolds, Zenon
  <2>7. Unmoved
    BY <2>5, <2>6, AloneUnmoved, Zenon
  <2> QED
    BY <1>0, <2>1, <2>6, <2>7, UnmovedOwed, Zenon
<1> QED
  BY <1>1, <1>2, Zenon

\* The provider keeps it.
LEMMA ProducerOwed == ASSUME StreamInv, Types, OwedInv, Producer PROVE OwedInv'
<1>0. ctxDone => ctxDone'
  BY Zenon DEF Producer, RunPostHooks, SendUngated, GateSendEnded, GateSendOverflow,
         GateSendPaused, GateSendQueued, GateSendDirect, DirectSend, DirectCancel,
         CloseStreamEnd, WaitForFlusher, CloseChannel, envVars
<1>1. CASE RunPostHooks
  <2>1. out' = out /\ owed' = owed
    BY <1>1, Zenon DEF RunPostHooks, histVars
  <2>2. Alone(cur) /\ Marked(gate[cur], gate'[cur]) /\ cur \in Gens
    BY <1>1, HookMoves, Zenon DEF StreamInv
  <2>3. Holding(gate'[cur]) = Holding(gate[cur])
    BY <2>2, Zenon DEF Marked, Holding
  <2>4. Unmoved
    BY <2>2, <2>3, AloneUnmoved, Zenon
  <2> QED
    BY <1>0, <2>1, <2>4, UnmovedOwed, Zenon
<1>2. CASE SendUngated \/ DirectCancel \/ WaitForFlusher \/ CloseChannel
  <2>1. gate' = gate /\ out' = out /\ owed' = owed
    BY <1>2, Zenon DEF SendUngated, DirectCancel, WaitForFlusher, CloseChannel, histVars
  <2>2. Unmoved
    BY <2>1, Zenon DEF Unmoved
  <2> QED
    BY <1>0, <2>1, <2>2, UnmovedOwed, Zenon
<1>3. CASE \/ GateSendEnded \/ GateSendOverflow \/ GateSendPaused \/ GateSendQueued
           \/ GateSendDirect
  BY <1>3, GateSendOwed, Zenon
<1>4. CASE DirectSend
  <2>1. gate' = gate /\ owed' = owed /\ Write(prod.chunk)
    BY <1>4, Zenon DEF DirectSend
  <2>2. prod.chunk \in Hand
    BY ChunkIsNat, Zenon DEF StreamInv, Sending
  <2>3. Unmoved /\ Range(out) \subseteq Range(out')
    BY <2>1, <2>2, OutGrows, Zenon DEF Unmoved, Types
  <2> QED
    BY <1>0, <2>1, <2>3, UnmovedOwed, Zenon
<1>5. CASE CloseStreamEnd
  <2>1. out' = out /\ owed' = owed
    BY <1>5, Zenon DEF CloseStreamEnd, histVars
  <2>2. Unmoved
    <3>1. CASE gate' = gate
      BY <3>1, Zenon DEF Unmoved
    <3>2. CASE \E g \in Gens :
                 GetOrCreate(g) /\ gate' = [gate EXCEPT ![g] = EndGate(@, FALSE)]
      <4>1. PICK g \in Gens : Touches(g)
        BY <3>2, EndMoves, Zenon
      <4> QED
        BY <4>1, CalmHolds, AloneUnmoved, Zenon DEF Touches
    <3> QED
      BY <1>5, <3>1, <3>2, Zenon DEF CloseStreamEnd
  <2> QED
    BY <1>0, <2>1, <2>2, UnmovedOwed, Zenon
<1> QED
  BY <1>1, <1>2, <1>3, <1>4, <1>5, Zenon DEF Producer

\* The flusher keeps it: it drops nothing while the client is there.
LEMMA FlusherOwed ==
    ASSUME StreamInv, Types, FlushInv, OwedInv, NEW g \in Gens, Flusher(g)
    PROVE  OwedInv'
<1>1. Flushes(g) /\ prod.at # "closed"
  BY FlusherFlush, Zenon
<1>2. Alone(g) /\ (ctxDone => ctxDone')
  BY <1>1 DEF Flushes
<1>3. CASE KeepsAll(g)
  <2>1. Unmoved
    BY <1>2, <1>3, AloneUnmoved, Zenon DEF KeepsAll
  <2> QED
    BY <1>2, <1>3, <2>1, UnmovedOwed, Zenon DEF KeepsAll
<1>4. CASE WritesChunk(g)
  <2>1. gate[g].hand \in Hand
    BY Zenon DEF StreamInv, Gate
  <2>2. Range(out') = Range(out) \cup {gate[g].hand}
    BY <1>4, <2>1, OutGrows, Zenon DEF WritesChunk, Types
  <2>3. Holding(gate[g]) = Holding(gate'[g]) \cup {gate[g].hand} /\ owed' = owed
    BY <1>4, HoldsBuffer, Zenon DEF WritesChunk
  <2> SUFFICES ASSUME ~ctxDone', NEW c \in owed' PROVE Somewhere(c)'
    BY Zenon DEF OwedInv
  <2>4. Somewhere(c)
    BY <1>2, <2>3, Zenon DEF OwedInv
  <2>5. CASE c \in Range(out)
    BY <2>2, <2>5, Zenon DEF Somewhere
  <2>6. CASE \E h \in Gens : c \in Holding(gate[h])
    BY <1>2, <2>2, <2>3, <2>6, Zenon DEF Somewhere, Alone
  <2> QED
    BY <2>4, <2>5, <2>6, Zenon DEF Somewhere
<1>5. CASE WritesError(g)
  <2>1. Range(out) \subseteq Range(out')
    BY <1>5, ChunkIsNat, OutGrows, Zenon DEF WritesError, Types
  <2>2. Unmoved
    BY <1>2, <1>5, AloneUnmoved, Zenon DEF WritesError
  <2> QED
    BY <1>2, <1>5, <2>1, <2>2, UnmovedOwed, Zenon DEF WritesError
<1>6. CASE GivesUp(g)
  BY <1>1, <1>2, <1>6, Zenon DEF GivesUp, CanCancel, OwedInv
<1>7. CASE Abandons(g)
  <2>1. \A c : c \in Holding(gate[g]) => c \in Range(gate[g].buf)
    BY <1>7, HoldsBuffer, Zenon DEF Abandons
  <2> QED
    BY <1>2, <1>7, <2>1, DroppedOwed, Zenon DEF Abandons
<1> QED
  BY <1>1, <1>3, <1>4, <1>5, <1>6, <1>7, Zenon DEF Flushes

\* The cleanup keeps it: what it drops is owed no more.
LEMMA CleanupOwed == ASSUME StreamInv, OwedInv, ForceCleanup PROVE OwedInv'
<1>1. (ctxDone => ctxDone') /\ out' = out
  BY DEF ForceCleanup, envVars
<1>2. /\ Alone(cur) /\ Steady(gate[cur], gate'[cur]) /\ cur \in Gens
      /\ \/ gate'[cur].buf = gate[cur].buf /\ owed' = owed
         \/ gate'[cur].buf = <<>> /\ owed' = owed \ Range(gate[cur].buf)
  BY ForceMoves, Zenon DEF StreamInv
<1>3. CASE gate'[cur].buf = gate[cur].buf /\ owed' = owed
  <2>1. Unmoved
    BY <1>2, <1>3, SteadyHolds, AloneUnmoved, Zenon
  <2> QED
    BY <1>1, <1>3, <2>1, UnmovedOwed, Zenon
<1>4. CASE owed' = owed \ Range(gate[cur].buf)
  BY <1>1, <1>2, <1>4, SteadyHolds, DroppedOwed, Zenon
<1> QED
  BY <1>2, <1>3, <1>4, Zenon

\* Every step keeps it.
LEMMA NextOwed ==
    StreamInv /\ Types /\ FlushInv /\ OwedInv /\ [Next]_vars => OwedInv'
<1> SUFFICES ASSUME StreamInv, Types, FlushInv, OwedInv, [Next]_vars PROVE OwedInv'
  BY Zenon
<1>1. CASE Control
  BY <1>1, ControlOwed, Zenon
<1>2. CASE Producer
  BY <1>2, ProducerOwed, Zenon
<1>3. CASE ForceCleanup
  BY <1>3, CleanupOwed, Zenon
<1>4. CASE Receive \/ Cancel \/ UNCHANGED vars
  <2>1. gate' = gate /\ out' = out /\ owed' = owed /\ (ctxDone => ctxDone')
    BY <1>4 DEF Receive, Cancel, vars, histVars
  <2>2. Unmoved
    BY <2>1, Zenon DEF Unmoved
  <2> QED
    BY <2>1, <2>2, UnmovedOwed, Zenon
<1>5. CASE \E g \in Gens : Flusher(g)
  BY <1>5, FlusherOwed, Zenon
<1> QED
  BY <1>1, <1>2, <1>3, <1>4, <1>5, Zenon DEF Next

\* A chunk the gate buffered has reached the channel when the stream is closed, unless it
\* was cleared, reaped, or the client went away, as long as the TTL is not reached.
THEOREM BufferIsDelivered == ASSUME ~TTLSweep PROVE Spec => []BufferedIsDelivered
<1>1. Spec => []FlushInv
  BY SpecStream, InitFlush, NextFlush, PTL DEF Spec
<1>2. Spec => []Types
  BY SpecStream, InitTypes, NextTypes, PTL DEF Spec
<1>3. Init => OwedInv
  BY Zenon DEF Init, OwedInv
<1>4. Spec => []OwedInv
  BY SpecStream, <1>1, <1>2, <1>3, NextOwed, PTL DEF Spec
<1>5. FlushInv /\ OwedInv => BufferedIsDelivered
  <2> SUFFICES ASSUME FlushInv, OwedInv, prod.at = "closed", ~ctxDone, NEW c \in owed
               PROVE  c \in Range(out)
    BY Zenon DEF BufferedIsDelivered
  <2>1. \A g \in Gens : ~On(gate[g]) /\ gate[g].buf = <<>>
    BY Zenon DEF FlushInv, Watched
  <2>2. \A g \in Gens : Holding(gate[g]) = {}
    BY <2>1, HoldsBuffer, NoElements, Zenon DEF On
  <2> QED
    BY <2>2, Zenon DEF OwedInv, Somewhere
<1> QED
  BY <1>1, <1>4, <1>5, PTL

-----------------------------------------------------------------------------
(* What the client sees, or will see. *)

\* A chunk that reached the channel or that the gate has accepted: it is in a buffer, in
\* hand, or about to be sent by the provider itself.
Seen(c) ==
    \/ c = Err \/ c \in Range(out)
    \/ \E g \in Gens : c \in Holding(gate[g])
    \/ prod.at = "direct" /\ c = prod.chunk

\* Every chunk seen is below k.
Within(k) == \A c \in Hand : Seen(c) => c < k

\* The step accepts nothing.
NoNew == \A c \in Hand : Seen(c)' => Seen(c)

\* No gate holds what it did not hold.
Shrinks == \A g \in Gens : Holding(gate'[g]) \subseteq Holding(gate[g])

\* One gate changes, and holds no more than before.
LEMMA AloneShrinks ==
    ASSUME NEW g \in Gens, Alone(g), Holding(gate'[g]) \subseteq Holding(gate[g])
    PROVE  Shrinks
<1> SUFFICES ASSUME NEW h \in Gens PROVE Holding(gate'[h]) \subseteq Holding(gate[h])
  BY Zenon DEF Shrinks
<1>1. CASE h = g
  BY <1>1, Zenon
<1>2. CASE h # g
  BY <1>2, Zenon DEF Alone
<1> QED
  BY <1>1, <1>2, Zenon

\* A step that adds to no gate, writes nothing and starts no direct send.
LEMMA ShrinksSeen ==
    ASSUME Shrinks, out' = out, prod'.at = "direct" => prod' = prod
    PROVE  NoNew
<1> SUFFICES ASSUME NEW c \in Hand, Seen(c)' PROVE Seen(c)
  BY Zenon DEF NoNew
<1>1. CASE c = Err \/ c \in Range(out)'
  BY <1>1, Zenon DEF Seen, Err
<1>2. CASE \E g \in Gens : c \in Holding(gate'[g])
  BY <1>2, Zenon DEF Seen, Shrinks
<1>3. CASE prod'.at = "direct" /\ c = prod'.chunk
  BY <1>3, Zenon DEF Seen
<1> QED
  BY <1>1, <1>2, <1>3, Zenon DEF Seen, Err

\* The provider's next chunk.
LEMMA AdvanceUnsent ==
    ASSUME prod \in Sending, Advance
    PROVE  prod'.at \in {"hook", "end"} /\ Unsent' = prod.chunk + 1
<1>1. CASE \E last \in BOOLEAN :
             prod' = [at |-> "hook", chunk |-> prod.chunk + 1, final |-> last, gen |-> 0]
  <2>1. prod'.at = "hook" /\ prod'.chunk = prod.chunk + 1
    BY <1>1
  <2> QED
    BY <2>1 DEF Unsent
<1>2. CASE prod' = [prod EXCEPT !.at = "end"]
  <2>1. prod'.at = "end" /\ prod'.chunk = prod.chunk
    BY <1>2 DEF Sending
  <2> QED
    BY <2>1 DEF Unsent
<1> QED
  BY <1>1, <1>2 DEF Advance

\* A plugin's call hands over no chunk.
LEMMA ControlSeen == ASSUME StreamInv, Control PROVE NoNew /\ prod' = prod
<1>0. out' = out /\ prod' = prod
  BY Zenon DEF Control, Pause, Resume, ResumeWithReplayInterval, ClearPausedBuffer, End
<1>1. CASE Pause \/ Resume \/ End
  <2>2. PICK g \in Gens : Touches(g)
    <3>1. CASE Pause \/ Resume
      BY <3>1, PauseMoves, ResumeMoves, Zenon
    <3>2. CASE End
      <4>1. PICK g \in Gens, err \in BOOLEAN :
              GetOrCreate(g) /\ gate' = [gate EXCEPT ![g] = EndGate(@, err)]
        BY <3>2, Zenon DEF End
      <4> QED
        BY <4>1, EndMoves, Zenon
    <3> QED
      BY <1>1, <3>1, <3>2, Zenon
  <2>3. Shrinks
    BY <2>2, CalmHolds, AloneShrinks, Zenon DEF Touches
  <2> QED
    BY <1>0, <2>3, ShrinksSeen, Zenon
<1>2. CASE ResumeWithReplayInterval
  <2>2. Alone(cur) /\ Calm(gate[cur], gate'[cur]) /\ cur \in Gens
    BY <1>2, ReplayMoves, Zenon DEF StreamInv
  <2>3. Shrinks
    BY <2>2, CalmHolds, AloneShrinks, Zenon
  <2> QED
    BY <1>0, <2>3, ShrinksSeen, Zenon
<1>3. CASE ClearPausedBuffer
  <2>2. /\ Alone(cur) /\ Steady(gate[cur], gate'[cur]) /\ cur \in Gens
        /\ Range(gate'[cur].buf) = {}
    BY <1>3, ClearMoves, NoElements, Zenon DEF StreamInv
  <2>3. Shrinks
    BY <2>2, SteadyHolds, AloneShrinks, Zenon
  <2> QED
    BY <1>0, <2>3, ShrinksSeen, Zenon
<1> QED
  BY <1>1, <1>2, <1>3, Zenon DEF Control

\* A flusher writes what it had in hand, or the synthetic error.
LEMMA FlusherSeen ==
    ASSUME StreamInv, OutTypes, NEW g \in Gens, Flushes(g)
    PROVE  NoNew /\ prod' = prod
<1>1. Alone(g) /\ prod' = prod
  BY Zenon DEF Flushes
<1>2. CASE KeepsAll(g) \/ GivesUp(g) \/ Abandons(g)
  <2>1. out' = out /\ Holding(gate'[g]) \subseteq Holding(gate[g])
    BY <1>2, Zenon DEF KeepsAll, GivesUp, Abandons
  <2>2. Shrinks
    BY <1>1, <2>1, AloneShrinks, Zenon
  <2> QED
    BY <1>1, <2>1, <2>2, ShrinksSeen, Zenon
<1>3. CASE WritesChunk(g) \/ WritesError(g)
  <2>1. PICK x \in Hand : Write(x) /\ (x = Err \/ x \in Holding(gate[g]))
    <3>1. gate[g].hand \in Hand /\ Err \in Hand
      BY ChunkIsNat, Zenon DEF StreamInv, Gate
    <3> QED
      BY <1>3, <3>1, HoldsBuffer, Zenon DEF WritesChunk, WritesError
  <2>2. Range(out') = Range(out) \cup {x}
    BY <2>1, OutGrows, Zenon
  <2>3. Holding(gate'[g]) \subseteq Holding(gate[g])
    BY <1>3, HoldsBuffer, Zenon DEF WritesChunk, WritesError
  <2>4. Shrinks
    BY <1>1, <2>3, AloneShrinks, Zenon
  <2> SUFFICES ASSUME NEW c \in Hand, Seen(c)' PROVE Seen(c)
    BY <1>1, Zenon DEF NoNew
  <2>5. CASE c \in Range(out)'
    BY <2>1, <2>2, <2>5, Zenon DEF Seen
  <2>6. CASE \E h \in Gens : c \in Holding(gate'[h])
    BY <2>4, <2>6, Zenon DEF Seen, Shrinks
  <2>7. CASE c = Err \/ (prod'.at = "direct" /\ c = prod'.chunk)
    BY <1>1, <2>7, Zenon DEF Seen
  <2> QED
    BY <2>5, <2>6, <2>7, Zenon DEF Seen, Err
<1> QED
  BY <1>2, <1>3, Zenon DEF Flushes

\* What the gate may accept.
Accepts ==
    /\ prod.at = "send" /\ Unsent' = prod.chunk + 1
    /\ \A c \in Hand : Seen(c)' => Seen(c) \/ c = prod.chunk
    /\ ~gated \/ \E g \in Gens : GetOrCreate(g) /\ gate[g].state # "ended"

\* The provider hands over the chunk it holds, at most.
LEMMA ProducerSeen ==
    ASSUME StreamInv, OutTypes, Producer
    PROVE  (NoNew /\ Unsent' \in {Unsent, Unsent + 1}) \/ Accepts
<1>0. prod \in Sending /\ prod.chunk \in Nat
  BY ChunkIsNat, Zenon DEF StreamInv, Sending
<1>1. CASE RunPostHooks \/ WaitForFlusher \/ CloseChannel \/ CloseStreamEnd
  <2>1. out' = out /\ prod'.at # "direct" /\ Unsent' = Unsent
    <3>1. CASE RunPostHooks
      BY <1>0, <3>1 DEF RunPostHooks, Sending, Unsent
    <3>2. CASE WaitForFlusher
      BY <1>0, <3>2 DEF WaitForFlusher, Sending, Unsent
    <3>3. CASE CloseChannel
      BY <1>0, <3>3 DEF CloseChannel, Sending, Unsent
    <3>4. CASE CloseStreamEnd
      <4>1. out' = out /\ prod.at = "end"
            /\ \/ prod' = [prod EXCEPT !.at = "wait"]
               \/ prod' = [prod EXCEPT !.at = "close"]
        BY <3>4, Zenon DEF CloseStreamEnd
      <4> QED
        BY <1>0, <4>1 DEF Sending, Unsent
    <3> QED
      BY <1>1, <3>1, <3>2, <3>3, <3>4, Zenon
  <2>2. Shrinks
    <3>1. CASE gate' = gate
      BY <3>1, Zenon DEF Shrinks
    <3>2. CASE RunPostHooks
      <4>1. Alone(cur) /\ Marked(gate[cur], gate'[cur]) /\ cur \in Gens
        BY <3>2, HookMoves, Zenon DEF StreamInv
      <4>2. Holding(gate'[cur]) = Holding(gate[cur])
        BY <4>1, Zenon DEF Marked, Holding
      <4> QED
        BY <4>1, <4>2, AloneShrinks, Zenon
    <3>3. CASE \E g \in Gens :
                 GetOrCreate(g) /\ gate' = [gate EXCEPT ![g] = EndGate(@, FALSE)]
      <4>1. PICK g \in Gens : Touches(g)
        BY <3>3, EndMoves, Zenon
      <4> QED
        BY <4>1, CalmHolds, AloneShrinks, Zenon DEF Touches
    <3> QED
      BY <1>1, <3>1, <3>2, <3>3, Zenon DEF WaitForFlusher, CloseChannel, CloseStreamEnd
  <2> QED
    BY <2>1, <2>2, ShrinksSeen, Zenon
<1>2. CASE SendUngated
  <2>1. /\ prod.at = "send" /\ ~gated /\ gate' = gate /\ out' = out
        /\ prod' = [prod EXCEPT !.at = "direct"]
    BY <1>2, Zenon DEF SendUngated
  <2>2. prod'.at = "direct" /\ prod'.chunk = prod.chunk /\ Unsent' = prod.chunk + 1
    BY <1>0, <2>1 DEF Sending, Unsent
  <2> QED
    BY <2>1, <2>2, Zenon DEF Accepts, Seen, Err
<1>3. CASE GateSendEnded \/ GateSendOverflow
  <2>1. out' = out /\ Advance /\ prod.at = "send"
    BY <1>3, Zenon DEF GateSendEnded, GateSendOverflow
  <2>2. PICK g \in Gens : Receives(g) /\ gate'[g].buf = gate[g].buf
    BY <1>3, EndedMoves, OverflowMoves, Zenon
  <2>3. Shrinks
    BY <2>2, SteadyHolds, AloneShrinks, Zenon DEF Receives
  <2>4. prod'.at # "direct" /\ Unsent' = prod.chunk + 1
    BY <1>0, <2>1, AdvanceUnsent
  <2>5. Unsent' = Unsent + 1
    BY <2>1, <2>4 DEF Unsent
  <2> QED
    BY <2>1, <2>3, <2>4, <2>5, ShrinksSeen, Zenon
<1>4. CASE GateSendPaused \/ GateSendQueued
  <2>1. out' = out /\ Advance /\ prod.at = "send"
    BY <1>4, Zenon DEF GateSendPaused, GateSendQueued
  <2>2. PICK g \in Gens : /\ Receives(g) /\ gate'[g].buf = Append(gate[g].buf, prod.chunk)
                          /\ gate[g].state # "ended"
    BY <1>4, PausedMoves, QueuedMoves, Zenon
  <2>3. gate[g].buf \in Seq(Chunk) /\ prod.chunk \in Chunk
    BY Zenon DEF StreamInv, Gate, Sending
  <2>4. Range(gate'[g].buf) = Range(gate[g].buf) \cup {prod.chunk}
    BY <2>2, <2>3, ElementsAppended, Zenon
  <2>5. Alone(g) /\ Steady(gate[g], gate'[g]) /\ GetOrCreate(g)
    BY <2>2, Zenon DEF Receives
  <2>6. \A c : c \in Holding(gate'[g]) => c \in Holding(gate[g]) \/ c = prod.chunk
    <3>1. Range(gate[g].buf) \subseteq Holding(gate[g])
      BY Zenon DEF Holding
    <3> QED
      BY <2>4, <2>5, <3>1, SteadyHolds, Zenon
  <2>7. prod'.at # "direct" /\ Unsent' = prod.chunk + 1
    BY <1>0, <2>1, AdvanceUnsent
  <2>8. ASSUME NEW c \in Hand, Seen(c)' PROVE Seen(c) \/ c = prod.chunk
    <3>1. CASE c = Err \/ c \in Range(out)'
      BY <2>1, <3>1, Zenon DEF Seen, Err
    <3>2. CASE \E h \in Gens : c \in Holding(gate'[h])
      BY <2>5, <2>6, <3>2, Zenon DEF Seen, Alone
    <3> QED
      BY <2>7, <2>8, <3>1, <3>2, Zenon DEF Seen, Err
  <2> QED
    BY <2>1, <2>2, <2>5, <2>7, <2>8, Zenon DEF Accepts
<1>5. CASE GateSendDirect
  <2>1. out' = out /\ prod' = [prod EXCEPT !.at = "direct"] /\ prod.at = "send"
    BY <1>5, Zenon DEF GateSendDirect
  <2>2. PICK g \in Gens : /\ Receives(g) /\ gate'[g].buf = gate[g].buf
                          /\ gate[g].state # "ended"
    BY <1>5, DirectMoves, Zenon
  <2>3. Shrinks /\ GetOrCreate(g)
    BY <2>2, SteadyHolds, AloneShrinks, Zenon DEF Receives
  <2>4. prod'.chunk = prod.chunk /\ Unsent' = prod.chunk + 1
    BY <1>0, <2>1 DEF Sending, Unsent
  <2>8. ASSUME NEW c \in Hand, Seen(c)' PROVE Seen(c) \/ c = prod.chunk
    BY <2>1, <2>3, <2>4, <2>8, Zenon DEF Seen, Err, Shrinks
  <2> QED
    BY <2>1, <2>2, <2>3, <2>4, <2>8, Zenon DEF Accepts
<1>6. CASE DirectSend \/ DirectCancel
  <2>1. gate' = gate /\ prod.at = "direct" /\ Advance
    BY <1>6, Zenon DEF DirectSend, DirectCancel
  <2>2. prod'.at # "direct" /\ Unsent' = prod.chunk + 1
    BY <1>0, <2>1, AdvanceUnsent
  <2>3. Unsent' = Unsent
    BY <2>1, <2>2 DEF Unsent
  <2>4. \A c \in Range(out)' : c \in Range(out) \/ c = prod.chunk
    <3>1. CASE DirectSend
      BY <1>0, <3>1, OutGrows, ChunkIsNat, ZenonT(30) DEF DirectSend, Sending
    <3>2. CASE DirectCancel
      BY <3>2, Zenon DEF DirectCancel
    <3> QED
      BY <1>6, <3>1, <3>2, Zenon
  <2>5. NoNew
    BY <2>1, <2>2, <2>4, Zenon DEF NoNew, Seen, Err
  <2> QED
    BY <2>3, <2>5, Zenon
<1> QED
  BY <1>1, <1>2, <1>3, <1>4, <1>5, <1>6, Zenon DEF Producer

-----------------------------------------------------------------------------
(* Nothing after the end. *)

\* With no plugin dropping the accumulator on the final chunk and no TTL sweep, the
\* accumulator stays in the map until the channel is closed.
HeldInv ==
    /\ \A g \in Gens : ~gate[g].cleanup
    /\ stored \/ prod.at = "closed"

\* What reached the client or was accepted was handed over before the stream was ended,
\* and the gate stays ended.
CutInv ==
    /\ Within(Unsent)
    /\ cut # 0 => Within(cut) /\ gated /\ (prod.at = "closed" \/ gate[cur].state = "ended")

\* The stream is closed for good.
LEMMA ClosedStays ==
    ASSUME StreamInv, [Next]_vars, prod.at = "closed"
    PROVE  prod'.at = "closed" /\ ~Producer
<1>1. ~Producer
  BY Zenon DEF Producer, RunPostHooks, SendUngated, GateSendEnded, GateSendOverflow,
         GateSendPaused, GateSendQueued, GateSendDirect, DirectSend, DirectCancel,
         CloseStreamEnd, WaitForFlusher, CloseChannel
<1>2. CASE Control
  BY <1>1, <1>2, ControlSeen, Zenon
<1>3. CASE Receive \/ Cancel \/ ForceCleanup \/ UNCHANGED vars
  BY <1>1, <1>3, Zenon DEF Receive, Cancel, ForceCleanup, vars
<1>4. CASE \E g \in Gens : Flusher(g)
  BY <1>1, <1>4, Zenon DEF Flusher, FlusherCheck, FlusherSend, FlusherCancel, FlusherSent,
         FlusherPaced, FlusherAbandon, FlusherSendErr, FlusherErrCancel
<1> QED
  BY <1>1, <1>2, <1>3, <1>4, Zenon DEF Next

\* The step changes the gate of the stored accumulator at most, and does not open an ended
\* gate.
Settles ==
    /\ cur' = cur /\ (stored' \/ prod'.at = "closed")
    /\ Alone(cur) /\ (~gate[cur].cleanup => ~gate'[cur].cleanup)
    /\ gate[cur].state = "ended" => gate'[cur].state = "ended"
    /\ gated => gated'

\* A call on a stored accumulator works on that one.
LEMMA StoredIsCurrent ==
    ASSUME stored, NEW g, GetOrCreate(g)
    PROVE  g = cur /\ cur' = cur /\ stored'
BY Zenon DEF GetOrCreate

\* A plugin's call does not open an ended gate.
LEMMA ControlSettles == ASSUME StreamInv, stored, Control PROVE Settles
<1>0. gated => gated'
  BY Zenon DEF Control, Pause, Resume, ResumeWithReplayInterval, ClearPausedBuffer, End
<1>1. CASE Pause \/ Resume \/ End
  <2>1. PICK g \in Gens : Touches(g) /\ (gate[g].state = "ended" => gate'[g].state = "ended")
    <3>1. CASE Pause
      <4>1. PICK g \in Gens :
              /\ Touches(g)
              /\ \/ gate[g].state = "active"
                 \/ gate[g].state # "active" /\ gate'[g].state = gate[g].state
        BY <3>1, PauseMoves, Zenon
      <4>2. gate[g].state = "ended" => gate'[g].state = "ended"
        BY <4>1
      <4> QED
        BY <4>1, <4>2, Zenon
    <3>2. CASE Resume
      BY <3>2, ResumeMoves, Zenon
    <3>3. CASE End
      <4>1. PICK g \in Gens, err \in BOOLEAN :
              GetOrCreate(g) /\ gate' = [gate EXCEPT ![g] = EndGate(@, err)]
        BY <3>3, Zenon DEF End
      <4> QED
        BY <4>1, EndMoves, Zenon
    <3> QED
      BY <1>1, <3>1, <3>2, <3>3, Zenon
  <2>2. g = cur /\ cur' = cur /\ stored'
    BY <2>1, StoredIsCurrent, Zenon DEF Touches
  <2> QED
    BY <1>0, <2>1, <2>2, Zenon DEF Touches, Calm, Steady, Settles
<1>2. CASE ResumeWithReplayInterval
  <2>1. cur' = cur /\ stored'
    BY <1>2 DEF ResumeWithReplayInterval
  <2> QED
    BY <1>0, <1>2, <2>1, ReplayMoves, Zenon DEF Calm, Steady, Settles
<1>3. CASE ClearPausedBuffer
  <2>1. cur' = cur /\ stored'
    BY <1>3 DEF ClearPausedBuffer
  <2> QED
    BY <1>0, <1>3, <2>1, ClearMoves, Zenon DEF Steady, Settles
<1> QED
  BY <1>1, <1>2, <1>3, Zenon DEF Control

\* Nor does the provider.
LEMMA ProducerSettles == ASSUME StreamInv, stored, ~ReleaseOnFinal, Producer PROVE Settles
<1>0. gated => gated'
  BY Zenon DEF Producer, RunPostHooks, SendUngated, GateSendEnded, GateSendOverflow,
         GateSendPaused, GateSendQueued, GateSendDirect, DirectSend, DirectCancel,
         CloseStreamEnd, WaitForFlusher, CloseChannel, envVars
<1>1. CASE gate' = gate /\ cur' = cur /\ (stored' <=> stored)
  BY <1>0, <1>1, Zenon DEF Settles, Alone
<1>2. CASE RunPostHooks
  <2>1. gate' = gate /\ (stored' <=> stored)
    BY <1>2, HookMoves, Zenon
  <2>2. cur' = cur
    BY <1>2, Zenon DEF RunPostHooks
  <2> QED
    BY <1>1, <2>1, <2>2, Zenon
<1>3. CASE \/ GateSendEnded \/ GateSendOverflow \/ GateSendPaused \/ GateSendQueued
           \/ GateSendDirect
  <2>1. PICK g \in Gens :
          Receives(g) /\ (gate[g].state = "ended" => gate'[g].state = "ended")
    <3>1. CASE GateSendEnded
      BY <3>1, EndedMoves, Zenon
    <3>2. CASE GateSendOverflow
      BY <3>2, OverflowMoves, Zenon
    <3>3. CASE GateSendPaused
      BY <3>3, PausedMoves, Zenon
    <3>4. CASE GateSendQueued \/ GateSendDirect
      BY <3>4, QueuedMoves, DirectMoves, Zenon
    <3> QED
      BY <1>3, <3>1, <3>2, <3>3, <3>4, Zenon
  <2>2. g = cur /\ cur' = cur /\ stored'
    BY <2>1, StoredIsCurrent, Zenon DEF Receives
  <2> QED
    BY <1>0, <2>1, <2>2, Zenon DEF Receives, Steady, Settles
<1>4. CASE \E g \in Gens : GetOrCreate(g) /\ gate' = [gate EXCEPT ![g] = EndGate(@, FALSE)]
  <2>1. PICK g \in Gens : Touches(g) /\ gate'[g].state = "ended"
    BY <1>4, EndMoves, Zenon
  <2>2. g = cur /\ cur' = cur /\ stored'
    BY <2>1, StoredIsCurrent, Zenon DEF Touches
  <2> QED
    BY <1>0, <2>1, <2>2, Zenon DEF Touches, Calm, Steady, Settles
<1>5. CASE SendUngated \/ DirectSend \/ DirectCancel \/ WaitForFlusher \/ CloseChannel
  <2>1. gate' = gate /\ cur' = cur /\ (stored' <=> stored)
    BY <1>5, Zenon DEF SendUngated, DirectSend, DirectCancel, WaitForFlusher, CloseChannel
  <2> QED
    BY <1>1, <2>1, Zenon
<1>6. CASE CloseStreamEnd
  <2>1. \/ gate' = gate /\ cur' = cur /\ stored' = stored
        \/ \E g \in Gens : GetOrCreate(g) /\ gate' = [gate EXCEPT ![g] = EndGate(@, FALSE)]
    BY <1>6, Zenon DEF CloseStreamEnd
  <2> QED
    BY <1>1, <1>4, <2>1, Zenon
<1> QED
  BY <1>2, <1>3, <1>5, <1>6, Zenon DEF Producer

\* Nor does any step before the channel is closed.
LEMMA StepSettles ==
    ASSUME ~ReleaseOnFinal, ~TTLSweep, StreamInv, FlushInv, HeldInv, [Next]_vars,
           prod.at # "closed"
    PROVE  Settles
<1>0. stored /\ cur \in Gens
  BY Zenon DEF HeldInv, StreamInv
<1>1. CASE Control
  BY <1>0, <1>1, ControlSettles, Zenon
<1>2. CASE Producer
  BY <1>0, <1>2, ProducerSettles, Zenon
<1>3. CASE ForceCleanup
  BY <1>3, CleanupFlush, Zenon
<1>4. CASE Receive \/ Cancel \/ UNCHANGED vars
  <2>1. gate' = gate /\ cur' = cur /\ stored' = stored /\ gated' = gated
    BY <1>4, Zenon DEF Receive, Cancel, vars
  <2>2. (stored' <=> stored) /\ (gated' <=> gated)
    BY <2>1
  <2> QED
    BY <1>0, <2>1, <2>2, Zenon DEF Settles, Alone
<1>5. CASE \E g \in Gens : Flusher(g)
  <2>0. PICK g \in Gens : Flushes(g) /\ g = cur
    BY <1>5, FlusherFlush, Zenon
  <2>1. Flushes(cur)
    BY <2>0, Zenon
  <2>2. cur' = cur /\ (gated => gated')
    BY <2>1 DEF Flushes
  <2>3. stored'
    BY <1>0, <2>1, Zenon DEF Flushes, Carries, HeldInv
  <2> QED
    BY <2>1, <2>2, <2>3, Zenon DEF Flushes, Carries, Settles
<1> QED
  BY <1>1, <1>2, <1>3, <1>4, <1>5, Zenon DEF Next

\* No teardown is left to the flusher, and the accumulator stays in the map.
LEMMA CleanupStays ==
    ASSUME StreamInv, FlushInv, ~ReleaseOnFinal, ~TTLSweep, HeldInv, [Next]_vars
    PROVE  HeldInv'
<1>1. CASE prod.at # "closed"
  <2>1. Settles
    BY <1>1, StepSettles, Zenon
  <2> QED
    BY <2>1, Zenon DEF Settles, HeldInv, Alone
<1>2. CASE prod.at = "closed"
  <2>0. prod'.at = "closed" /\ ~Producer
    BY <1>2, ClosedStays, Zenon
  <2>1. CASE Pause \/ Resume \/ End
    <3>1. PICK g \in Gens : Touches(g)
      <4>1. CASE Pause \/ Resume
        BY <4>1, PauseMoves, ResumeMoves, Zenon
      <4>2. CASE End
        <5>1. PICK g \in Gens, err \in BOOLEAN :
                GetOrCreate(g) /\ gate' = [gate EXCEPT ![g] = EndGate(@, err)]
          BY <4>2, Zenon DEF End
        <5> QED
          BY <5>1, EndMoves, Zenon
      <4> QED
        BY <2>1, <4>1, <4>2, Zenon
    <3> QED
      BY <2>0, <3>1, Zenon DEF Touches, Alone, Calm, Steady, HeldInv
  <2>2. CASE ResumeWithReplayInterval \/ ClearPausedBuffer \/ ForceCleanup
    <3>1. Alone(cur) /\ Steady(gate[cur], gate'[cur]) /\ cur \in Gens
      BY <2>2, ReplayMoves, ClearMoves, ForceMoves, Zenon DEF Calm, StreamInv
    <3> QED
      BY <2>0, <3>1, Zenon DEF Alone, Steady, HeldInv
  <2>3. CASE Receive \/ Cancel \/ UNCHANGED vars
    <3>1. gate' = gate
      BY <2>3, Zenon DEF Receive, Cancel, vars
    <3> QED
      BY <2>0, <3>1, Zenon DEF HeldInv
  <2>4. CASE \E g \in Gens : Flusher(g)
    BY <1>2, <2>4, FlusherFlush, Zenon
  <2> QED
    BY <2>0, <2>1, <2>2, <2>3, <2>4, Zenon DEF Next, Control
<1> QED
  BY <1>1, <1>2, Zenon

\* How the end of the stream is recorded.
LEMMA CutSteps ==
    ASSUME StreamInv, [Next]_vars
    PROVE  \/ cut' = cut
           \/ cut = 0 /\ cut' = Unsent /\ gated' /\ gate'[cur'].state = "ended" /\ NoNew
<1>1. CASE End
  <2>1. cut' = (IF cut = 0 THEN Unsent ELSE cut) /\ gated'
    BY <1>1, Zenon DEF End
  <2>2. PICK g \in Gens, err \in BOOLEAN :
          GetOrCreate(g) /\ gate' = [gate EXCEPT ![g] = EndGate(@, err)]
    BY <1>1, Zenon DEF End
  <2>3. gate'[g].state = "ended" /\ cur' = g
    BY <2>2, EndMoves, Zenon DEF GetOrCreate
  <2>4. NoNew
    BY <1>1, ControlSeen, Zenon DEF Control
  <2> QED
    BY <2>1, <2>3, <2>4, Zenon
<1>2. CASE GateSendOverflow
  <2>1. /\ cut' = (IF cut = 0 THEN prod.chunk ELSE cut) /\ prod.at = "send" /\ gated
        /\ UNCHANGED envVars /\ out' = out /\ Advance
    BY <1>2, Zenon DEF GateSendOverflow
  <2>2. gated' /\ Unsent = prod.chunk
    BY <2>1 DEF envVars, Unsent
  <2>3. PICK g \in Gens :
          Receives(g) /\ gate'[g].buf = gate[g].buf /\ gate'[g].state = "ended"
    BY <1>2, OverflowMoves, Zenon
  <2>4. cur' = g
    BY <2>3, Zenon DEF Receives, GetOrCreate
  <2>5. Shrinks
    BY <2>3, SteadyHolds, AloneShrinks, Zenon DEF Receives
  <2>6. prod'.at # "direct"
    BY <2>1, AdvanceUnsent DEF StreamInv
  <2>7. NoNew
    BY <2>1, <2>5, <2>6, ShrinksSeen, Zenon
  <2> QED
    BY <2>1, <2>2, <2>3, <2>4, <2>7, Zenon
<1>3. CASE /\ [Next]_vars /\ ~End /\ ~GateSendOverflow
  <2>1. CASE Control \/ Receive \/ Cancel \/ ForceCleanup \/ UNCHANGED vars
    BY <1>3, <2>1, Zenon DEF Control, Pause, Resume, ResumeWithReplayInterval,
           ClearPausedBuffer, Receive, Cancel, ForceCleanup, vars, histVars
  <2>2. CASE Producer
    BY <1>3, <2>2, Zenon DEF Producer, RunPostHooks, SendUngated, GateSendEnded,
           GateSendPaused, GateSendQueued, GateSendDirect, DirectSend, DirectCancel,
           CloseStreamEnd, WaitForFlusher, CloseChannel, histVars
  <2>3. CASE \E g \in Gens : Flusher(g)
    BY <2>3, Zenon DEF Flusher, FlusherCheck, FlusherSend, FlusherCancel, FlusherSent,
           FlusherPaced, FlusherAbandon, FlusherSendErr, FlusherErrCancel, histVars
  <2> QED
    BY <1>3, <2>1, <2>2, <2>3, Zenon DEF Next
<1> QED
  BY <1>1, <1>2, <1>3, Zenon

\* A step accepts nothing, or the chunk the provider holds.
LEMMA StepSeen ==
    ASSUME StreamInv, OutTypes, FlushInv, [Next]_vars
    PROVE  (NoNew /\ Unsent' \in {Unsent, Unsent + 1}) \/ (Accepts /\ Producer)
<1>0. (prod' = prod) => Unsent' = Unsent
  BY Zenon DEF Unsent
<1>1. CASE Control
  BY <1>0, <1>1, ControlSeen, Zenon
<1>2. CASE Producer
  BY <1>2, ProducerSeen, Zenon
<1>3. CASE ForceCleanup
  <2>1. out' = out /\ prod' = prod /\ cur \in Gens
    BY <1>3, Zenon DEF ForceCleanup, StreamInv
  <2>2. /\ Alone(cur) /\ Steady(gate[cur], gate'[cur])
        /\ gate'[cur].buf = gate[cur].buf \/ gate'[cur].buf = <<>>
    BY <1>3, ForceMoves, Zenon
  <2>3. Holding(gate'[cur]) \subseteq Holding(gate[cur])
    BY <2>2, SteadyHolds, NoElements, Zenon
  <2>4. Shrinks
    BY <2>1, <2>2, <2>3, AloneShrinks, Zenon
  <2> QED
    BY <1>0, <2>1, <2>4, ShrinksSeen, Zenon
<1>4. CASE Receive \/ Cancel \/ UNCHANGED vars
  <2>1. gate' = gate /\ out' = out /\ prod' = prod
    BY <1>4, Zenon DEF Receive, Cancel, vars
  <2>2. Shrinks
    BY <2>1, Zenon DEF Shrinks
  <2> QED
    BY <1>0, <2>1, <2>2, ShrinksSeen, Zenon
<1>5. CASE \E g \in Gens : Flusher(g)
  BY <1>0, <1>5, FlusherFlush, FlusherSeen, Zenon
<1> QED
  BY <1>1, <1>2, <1>3, <1>4, <1>5, Zenon DEF Next

\* Every step keeps it.
LEMMA CutStays ==
    ASSUME ~ReleaseOnFinal, ~TTLSweep, StreamInv, Types, FlushInv, HeldInv, CutInv,
           [Next]_vars
    PROVE  CutInv'
<1>0. prod.chunk \in Nat /\ Unsent \in Nat /\ cut \in Nat /\ \A c \in Hand : c \in Nat
  <2>1. prod.chunk \in Nat
    BY ChunkIsNat, Zenon DEF StreamInv, Sending
  <2> QED
    BY <2>1, StreamAssumption DEF Unsent, Types, HistTypes, Hand
<1>1. Within(Unsent)'
  <2>1. CASE NoNew /\ Unsent' \in {Unsent, Unsent + 1}
    <3> SUFFICES ASSUME NEW c \in Hand, Seen(c)' PROVE c < Unsent'
      BY Zenon DEF Within, Hand
    <3>1. c < Unsent
      BY <2>1, Zenon DEF NoNew, CutInv, Within
    <3> QED
      BY <1>0, <2>1, <3>1
  <2>2. CASE Accepts
    <3> SUFFICES ASSUME NEW c \in Hand, Seen(c)' PROVE c < Unsent'
      BY Zenon DEF Within, Hand
    <3>1. c < Unsent \/ c = prod.chunk
      BY <2>2, Zenon DEF Accepts, CutInv, Within
    <3>2. Unsent = prod.chunk /\ Unsent' = prod.chunk + 1
      BY <2>2 DEF Accepts, Unsent
    <3> QED
      BY <1>0, <3>1, <3>2
  <2> QED
    BY <2>1, <2>2, StepSeen, Zenon DEF Types
<1>2. CASE cut = 0 /\ cut' = Unsent /\ gated' /\ gate'[cur'].state = "ended" /\ NoNew
  <2>1. Within(cut)'
    BY <1>2, Zenon DEF NoNew, CutInv, Within, Hand
  <2> QED
    BY <1>1, <1>2, <2>1, Zenon DEF CutInv
<1>3. CASE cut' = cut /\ cut # 0
  <2>1. Within(cut) /\ gated /\ (prod.at = "closed" \/ gate[cur].state = "ended")
    BY <1>3, Zenon DEF CutInv
  <2>2. /\ NoNew
        /\ gated' /\ (prod'.at = "closed" \/ gate'[cur'].state = "ended")
    <3>1. CASE prod.at = "closed"
      <4>1. prod'.at = "closed" /\ ~Producer
        BY <3>1, ClosedStays, Zenon
      <4>2. gated => gated'
        <5>1. CASE Control
          BY <5>1, Zenon DEF Control, Pause, Resume, ResumeWithReplayInterval,
                      ClearPausedBuffer, End
        <5>2. CASE Receive \/ Cancel \/ ForceCleanup \/ UNCHANGED vars
          BY <5>2, Zenon DEF Receive, Cancel, ForceCleanup, vars, envVars
        <5>3. CASE \E g \in Gens : Flusher(g)
          BY <3>1, <5>3, FlusherFlush, Zenon
        <5> QED
          BY <4>1, <5>1, <5>2, <5>3, Zenon DEF Next
      <4> QED
        BY <2>1, <4>1, <4>2, StepSeen, Zenon DEF Types
    <3>2. CASE prod.at # "closed"
      <4>1. Settles /\ stored /\ gate[cur].state = "ended"
        BY <2>1, <3>2, StepSettles, Zenon DEF HeldInv
      <4>2. ~Accepts
        BY <2>1, <4>1, StoredIsCurrent, Zenon DEF Accepts
      <4> QED
        BY <2>1, <4>1, <4>2, StepSeen, Zenon DEF Settles, Types
    <3> QED
      BY <3>1, <3>2, Zenon
  <2>3. Within(cut)'
    BY <1>3, <2>1, <2>2, Zenon DEF NoNew, Within, Hand
  <2> QED
    BY <1>1, <2>2, <2>3, Zenon DEF CutInv
<1>4. CASE cut' = cut /\ cut = 0
  BY <1>1, <1>4, Zenon DEF CutInv
<1> QED
  BY <1>2, <1>3, <1>4, CutSteps, Zenon

\* Nothing is seen at first.
LEMMA InitCut == Init => HeldInv /\ CutInv
<1> SUFFICES ASSUME Init PROVE HeldInv /\ CutInv
  OBVIOUS
<1>1. /\ \A g \in Gens : ~gate[g].cleanup /\ gate[g].flusher = "off" /\ gate[g].buf = <<>>
      /\ stored
  BY DEF Init, NewGate
<1>2. out = <<>> /\ cut = 0 /\ prod.at = "hook" /\ prod.chunk = 1
  BY DEF Init
<1>3. \A g \in Gens : Holding(gate[g]) = {}
  BY <1>1, HoldsBuffer, NoElements, Zenon
<1>4. \A c \in Hand : Seen(c) => c = Err
  BY <1>2, <1>3, NoElements, Zenon DEF Seen
<1>5. Within(Unsent)
  BY <1>2, <1>4 DEF Within, Unsent, Err
<1> QED
  BY <1>1, <1>2, <1>5, Zenon DEF HeldInv, CutInv

\* Once EndStream returned, no chunk handed to the gate later is delivered, as long as the
\* accumulator stays in the map.
THEOREM NothingAfterEnd ==
    ASSUME ~ReleaseOnFinal, ~TTLSweep PROVE Spec => []EndIsFinal
<1>1. Spec => []FlushInv
  BY SpecStream, InitFlush, NextFlush, PTL DEF Spec
<1>2. Spec => []Types
  BY SpecStream, InitTypes, NextTypes, PTL DEF Spec
<1>3. StreamInv /\ FlushInv /\ HeldInv /\ [Next]_vars => HeldInv'
  BY CleanupStays, Zenon
<1>4. StreamInv /\ Types /\ FlushInv /\ HeldInv /\ CutInv /\ [Next]_vars => CutInv'
  BY CutStays, Zenon
<1>5. Spec => [](HeldInv /\ CutInv)
  BY SpecStream, <1>1, <1>2, <1>3, <1>4, InitCut, PTL DEF Spec
<1>6. Types /\ CutInv => EndIsFinal
  <2> SUFFICES ASSUME Types, CutInv, cut # 0, NEW i \in DOMAIN out PROVE out[i] < cut
    BY Zenon DEF EndIsFinal
  <2>1. out[i] \in Hand /\ out[i] \in Range(out)
    BY DEF Types, OutTypes, Range
  <2> QED
    BY <2>1, Zenon DEF CutInv, Within, Seen
<1> QED
  BY <1>2, <1>5, <1>6, PTL

-----------------------------------------------------------------------------
(* A pause holds. *)

\* A send of a chunk taken before the pause.
Underway(b) == IF b THEN 1 ELSE 0

\* What a paused gate let out, and what is about to leave it.
Leaving == leak + Underway(prod.at = "direct") + Underway(gate[cur].flusher = "send")

\* Only a gated stream is paused, and not before its accumulator exists.
PauseStates == \A g \in Gens : gate[g].state = "paused" => gated /\ g <= cur

\* A paused gate lets out at most what the provider and the flusher had taken.
PauseBound == stored /\ gate[cur].state = "paused" => Leaving <= 2

\* One gate changes, and is paused only by a call on the stored accumulator.
LEMMA AlonePaused ==
    ASSUME PauseStates, NEW g \in Gens, Alone(g), gated => gated',
           \A h \in Gens : h <= cur => h <= cur',
           gate'[g].state = "paused" => (gated' /\ g <= cur') \/ gate[g].state = "paused"
    PROVE  PauseStates'
<1> SUFFICES ASSUME NEW h \in Gens, gate'[h].state = "paused" PROVE gated' /\ h <= cur'
  BY Zenon DEF PauseStates, Gens
<1>1. CASE gate[h].state = "paused"
  BY <1>1, Zenon DEF PauseStates
<1>2. CASE h = g
  BY <1>1, <1>2, Zenon
<1>3. CASE h # g
  BY <1>1, <1>3, Zenon DEF Alone
<1> QED
  BY <1>2, <1>3, Zenon

\* A call works on the stored accumulator, or on the next.
LEMMA GetOrCreateNext ==
    ASSUME StreamInv, NEW g \in Gens, GetOrCreate(g)
    PROVE  /\ cur' = g /\ g <= g /\ \A h \in Gens : h <= cur => h <= g
           /\ g <= cur => stored /\ g = cur
BY StreamAssumption DEF GetOrCreate, StreamInv, Gens

\* Two sends at most are under way.
LEMMA LeavingFew == ASSUME leak = 0 PROVE Leaving <= 2
BY DEF Leaving, Underway

\* Neither the pause nor the sends under way change.
LEMMA LeavingSame ==
    ASSUME PauseBound, stored' /\ gate'[cur'].state = "paused" =>
             /\ stored /\ cur' = cur /\ gate[cur].state = "paused" /\ leak' = leak
             /\ prod'.at = "direct" => prod.at = "direct"
             /\ gate'[cur].flusher = "send" => gate[cur].flusher = "send",
           leak \in Nat
    PROVE  PauseBound'
<1> SUFFICES ASSUME stored', gate'[cur'].state = "paused" PROVE Leaving' <= 2
  BY Zenon DEF PauseBound
<1>1. /\ Leaving <= 2 /\ cur' = cur /\ leak' = leak
      /\ prod'.at = "direct" => prod.at = "direct"
      /\ gate'[cur].flusher = "send" => gate[cur].flusher = "send"
  BY Zenon DEF PauseBound
<1> QED
  BY <1>1 DEF Leaving, Underway

\* The plugins' calls keep both: a pause starts the count.
LEMMA ControlPaused ==
    ASSUME StreamInv, leak \in Nat, PauseStates, PauseBound, Control
    PROVE  PauseStates' /\ PauseBound'
<1>0. prod' = prod
  BY ControlSeen, Zenon
<1>1. CASE Pause
  <2>0. gated'
    BY <1>1, Zenon DEF Pause
  <2>1. PICK g \in Gens :
          /\ Touches(g)
          /\ \/ gate'[g].state = "paused" /\ leak' = 0
             \/ gate'[g].state = gate[g].state /\ leak' = leak
    BY <1>1, PauseMoves, Zenon
  <2>2. GetOrCreate(g) /\ Alone(g) /\ Calm(gate[g], gate'[g])
    BY <2>1, Zenon DEF Touches
  <2>3. PauseStates'
    BY <2>0, <2>1, <2>2, GetOrCreateNext, AlonePaused, Zenon
  <2>4. CASE leak' = 0
    <3>1. Leaving' <= 2
      BY <2>4 DEF Leaving, Underway
    <3> QED
      BY <2>3, <3>1, Zenon DEF PauseBound
  <2>5. CASE gate'[g].state = gate[g].state /\ leak' = leak
    <3>1. gate[g].state = "paused" => stored /\ g = cur /\ cur' = cur
      BY <2>2, GetOrCreateNext, Zenon DEF PauseStates
    <3>2. cur' = g /\ (gate'[g].flusher = "send" => gate[g].flusher = "send")
      BY <2>2, GetOrCreateNext, Zenon DEF Calm, Steady
    <3> QED
      BY <1>0, <2>3, <2>5, <3>1, <3>2, LeavingSame, Zenon
  <2> QED
    BY <2>1, <2>4, <2>5, Zenon
<1>2. CASE Resume \/ End
  <2>0. gated'
    BY <1>2, Zenon DEF Resume, End
  <2>1. PICK g \in Gens : Touches(g) /\ gate'[g].state # "paused"
    <3>1. CASE Resume
      BY <3>1, ResumeMoves, Zenon
    <3>2. CASE End
      <4>1. PICK g \in Gens, err \in BOOLEAN :
              GetOrCreate(g) /\ gate' = [gate EXCEPT ![g] = EndGate(@, err)]
        BY <3>2, Zenon DEF End
      <4>2. Touches(g) /\ gate'[g].state = "ended"
        BY <4>1, EndMoves, Zenon
      <4> QED
        BY <4>2, Zenon
    <3> QED
      BY <1>2, <3>1, <3>2, Zenon
  <2>2. GetOrCreate(g) /\ Alone(g)
    BY <2>1, Zenon DEF Touches
  <2>3. PauseStates'
    BY <2>0, <2>1, <2>2, GetOrCreateNext, AlonePaused, Zenon
  <2>4. cur' = g
    BY <2>2, GetOrCreateNext, Zenon
  <2> QED
    BY <2>1, <2>3, <2>4, Zenon DEF PauseBound
<1>3. CASE ResumeWithReplayInterval \/ ClearPausedBuffer
  <2>0. stored /\ cur \in Gens
    BY <1>3, Zenon DEF ResumeWithReplayInterval, ClearPausedBuffer, StreamInv
  <2>1. cur' = cur /\ leak' = leak /\ (gated => gated')
    BY <1>3 DEF ResumeWithReplayInterval, ClearPausedBuffer
  <2>2. /\ Alone(cur) /\ Steady(gate[cur], gate'[cur])
        /\ gate'[cur].state = gate[cur].state
    BY <1>3, ReplayMoves, ClearMoves, Zenon DEF Calm
  <2>3. PauseStates'
    BY <2>0, <2>1, <2>2, AlonePaused, Zenon
  <2>4. gate'[cur].flusher = "send" => gate[cur].flusher = "send"
    BY <2>2, Zenon DEF Steady
  <2> QED
    BY <1>0, <2>0, <2>1, <2>2, <2>3, <2>4, LeavingSame, Zenon
<1> QED
  BY <1>1, <1>2, <1>3, Zenon DEF Control

\* Steps that leave the gates as they are and write nothing.
LEMMA ApartPaused ==
    ASSUME leak \in Nat, PauseStates, PauseBound, gate' = gate, cur' = cur,
           stored' => stored, gated => gated', leak' = leak,
           prod'.at = "direct" => prod.at = "direct" \/ ~gated, cur \in Gens
    PROVE  PauseStates' /\ PauseBound'
<1>1. PauseStates'
  BY Zenon DEF PauseStates, Gens
<1>2. gate[cur].state = "paused" => gated
  BY Zenon DEF PauseStates
<1> QED
  BY <1>1, <1>2, LeavingSame, Zenon

\* GateSend keeps both: it sends nothing past a paused gate.
LEMMA GateSendPauses ==
    ASSUME StreamInv, leak \in Nat, PauseStates, PauseBound,
           \/ GateSendEnded \/ GateSendOverflow \/ GateSendPaused \/ GateSendQueued
           \/ GateSendDirect
    PROVE  PauseStates' /\ PauseBound'
<1>0. UNCHANGED envVars
  BY Zenon DEF GateSendEnded, GateSendOverflow, GateSendPaused, GateSendQueued,
               GateSendDirect
<1>1. gated => gated'
  BY <1>0 DEF envVars
<1>2. CASE GateSendEnded \/ GateSendOverflow \/ GateSendQueued \/ GateSendDirect
  <2>1. PICK g \in Gens : Receives(g) /\ gate'[g].state # "paused"
    <3>1. CASE GateSendEnded
      <4>1. PICK g \in Gens : Receives(g) /\ gate'[g].state = "ended"
        BY <3>1, EndedMoves, Zenon
      <4> QED
        BY <4>1, Zenon
    <3>2. CASE GateSendOverflow
      <4>1. PICK g \in Gens : Receives(g) /\ gate'[g].state = "ended"
        BY <3>2, OverflowMoves, Zenon
      <4> QED
        BY <4>1, Zenon
    <3>3. CASE GateSendQueued \/ GateSendDirect
      BY <3>3, QueuedMoves, DirectMoves, Zenon
    <3> QED
      BY <1>2, <3>1, <3>2, <3>3, Zenon
  <2>2. GetOrCreate(g) /\ Alone(g)
    BY <2>1, Zenon DEF Receives
  <2>3. PauseStates'
    BY <1>1, <2>1, <2>2, GetOrCreateNext, AlonePaused, Zenon
  <2>4. cur' = g
    BY <2>2, GetOrCreateNext, Zenon
  <2> QED
    BY <2>1, <2>3, <2>4, Zenon DEF PauseBound
<1>3. CASE GateSendPaused
  <2>0. leak' = leak /\ Advance
    BY <1>3, Zenon DEF GateSendPaused
  <2>1. PICK g \in Gens : Receives(g) /\ gate[g].state = "paused"
    BY <1>3, PausedMoves, Zenon
  <2>2. GetOrCreate(g) /\ Alone(g) /\ Steady(gate[g], gate'[g])
    BY <2>1, Zenon DEF Receives
  <2>3. g = cur /\ stored /\ cur' = cur
    BY <2>1, <2>2, GetOrCreateNext, Zenon DEF PauseStates
  <2>4. PauseStates'
    BY <1>1, <2>1, <2>2, GetOrCreateNext, AlonePaused, Zenon
  <2>5. prod'.at # "direct"
    BY <2>0, AdvanceUnsent DEF StreamInv
  <2>6. gate'[cur].flusher = "send" => gate[cur].flusher = "send"
    BY <2>2, <2>3, Zenon DEF Steady
  <2> QED
    BY <2>0, <2>1, <2>3, <2>4, <2>5, <2>6, LeavingSame, Zenon
<1> QED
  BY <1>2, <1>3, Zenon

\* The provider keeps both.
LEMMA ProducerPaused ==
    ASSUME StreamInv, leak \in Nat, PauseStates, PauseBound, Producer
    PROVE  PauseStates' /\ PauseBound'
<1>0. cur \in Gens /\ prod \in Sending
  BY Zenon DEF StreamInv
<1>1. gated => gated'
  BY Zenon DEF Producer, RunPostHooks, SendUngated, GateSendEnded, GateSendOverflow,
         GateSendPaused, GateSendQueued, GateSendDirect, DirectSend, DirectCancel,
         CloseStreamEnd, WaitForFlusher, CloseChannel, envVars
<1>2. CASE RunPostHooks
  <2>1. leak' = leak /\ cur' = cur /\ prod' = [prod EXCEPT !.at = "send"]
    BY <1>2, Zenon DEF RunPostHooks, histVars
  <2>2. prod'.at # "direct"
    BY <1>0, <2>1 DEF Sending
  <2>3. Alone(cur) /\ Marked(gate[cur], gate'[cur]) /\ (stored' => stored)
    BY <1>2, HookMoves, Zenon
  <2>4. /\ gate'[cur].state = gate[cur].state
        /\ gate'[cur].flusher = "send" => gate[cur].flusher = "send"
    BY <2>3, Zenon DEF Marked
  <2>5. PauseStates'
    BY <1>0, <1>1, <2>1, <2>3, <2>4, AlonePaused, Zenon
  <2> QED
    BY <2>1, <2>2, <2>3, <2>4, <2>5, LeavingSame, Zenon
<1>3. CASE SendUngated \/ DirectCancel \/ WaitForFlusher \/ CloseChannel
  <2>1. gate' = gate /\ cur' = cur /\ leak' = leak /\ stored' = stored
    BY <1>3, Zenon DEF SendUngated, DirectCancel, WaitForFlusher, CloseChannel, histVars
  <2>2. stored' => stored
    BY <2>1
  <2>3. prod.at = "direct" \/ prod'.at # "direct" \/ ~gated
    <3>1. CASE SendUngated \/ DirectCancel
      BY <3>1, Zenon DEF SendUngated, DirectCancel
    <3>2. CASE WaitForFlusher
      BY <1>0, <3>2 DEF WaitForFlusher, Sending
    <3>3. CASE CloseChannel
      BY <1>0, <3>3 DEF CloseChannel, Sending
    <3> QED
      BY <1>3, <3>1, <3>2, <3>3, Zenon
  <2> QED
    BY <1>0, <1>1, <2>1, <2>2, <2>3, ApartPaused, Zenon
<1>4. CASE \/ GateSendEnded \/ GateSendOverflow \/ GateSendPaused \/ GateSendQueued
           \/ GateSendDirect
  BY <1>4, GateSendPauses, Zenon
<1>5. CASE DirectSend
  <2>1. /\ gate' = gate /\ cur' = cur /\ stored' = stored /\ prod.at = "direct"
        /\ Advance /\ leak' = IF stored /\ gate[cur].state = "paused" THEN leak + 1 ELSE leak
    BY <1>5, Zenon DEF DirectSend, Write
  <2>2. prod'.at # "direct"
    BY <1>0, <2>1, AdvanceUnsent
  <2>3. PauseStates'
    BY <1>1, <2>1, Zenon DEF PauseStates, Gens
  <2>4. stored' => stored
    BY <2>1
  <2>5. ASSUME stored', gate'[cur'].state = "paused" PROVE Leaving' <= 2
    <3>1. Leaving <= 2 /\ leak' = leak + 1
      BY <2>1, <2>4, <2>5, Zenon DEF PauseBound
    <3> QED
      BY <2>1, <2>2, <3>1 DEF Leaving, Underway
  <2> QED
    BY <2>3, <2>5, Zenon DEF PauseBound
<1>6. CASE CloseStreamEnd
  <2>1. CASE gated
    <3>1. PICK g \in Gens :
            GetOrCreate(g) /\ gate' = [gate EXCEPT ![g] = EndGate(@, FALSE)]
      BY <1>6, <2>1, Zenon DEF CloseStreamEnd
    <3>2. Alone(g) /\ gate'[g].state = "ended"
      BY <3>1, EndMoves, Zenon DEF Touches
    <3>3. gate'[g].state # "paused" /\ cur' = g
      BY <3>1, <3>2, GetOrCreateNext, Zenon
    <3>4. PauseStates'
      BY <1>1, <3>1, <3>2, <3>3, GetOrCreateNext, AlonePaused, Zenon
    <3> QED
      BY <3>3, <3>4, Zenon DEF PauseBound
  <2>2. CASE ~gated
    <3>1. gate' = gate /\ cur' = cur /\ stored' = stored /\ leak' = leak
      BY <1>6, <2>2, Zenon DEF CloseStreamEnd, histVars
    <3>2. stored' => stored
      BY <3>1
    <3> QED
      BY <1>0, <1>1, <2>2, <3>1, <3>2, ApartPaused, Zenon
  <2> QED
    BY <2>1, <2>2, Zenon
<1> QED
  BY <1>2, <1>3, <1>4, <1>5, <1>6, Zenon DEF Producer

\* The flusher keeps both: it takes no chunk from a paused gate.
LEMMA FlusherPauses ==
    ASSUME StreamInv, FlushInv, leak \in Nat, PauseStates, PauseBound, NEW g \in Gens,
           Flusher(g)
    PROVE  PauseStates' /\ PauseBound'
<1>1. g = cur /\ stored /\ Flushes(g)
  BY FlusherFlush, Zenon
<1>2. /\ Alone(g) /\ cur' = cur /\ prod' = prod
      /\ gate'[g].state = "paused" => gate[g].state = "paused"
      /\ gate[g].state = "ended" => gate'[g].state = "ended"
  BY <1>1, Zenon DEF Flushes, Carries
<1>3. gated => gated'
  BY <1>1 DEF Flushes
<1>4. PauseStates'
  BY <1>2, <1>3, AlonePaused, Zenon
<1>5. CASE KeepsAll(g) \/ GivesUp(g) \/ Abandons(g)
  <2>1. leak' = leak /\ (gate'[g].flusher = "send" => gate[g].state # "paused")
    BY <1>5, Zenon DEF KeepsAll, GivesUp, Abandons
  <2> QED
    BY <1>1, <1>2, <1>4, <2>1, LeavingSame, Zenon
<1>6. CASE WritesChunk(g)
  <2>1. /\ gate[g].flusher = "send" /\ gate'[g].flusher = "sent"
        /\ leak' = IF stored /\ gate[cur].state = "paused" THEN leak + 1 ELSE leak
    BY <1>6, Zenon DEF WritesChunk, Write
  <2>5. ASSUME stored', gate'[cur'].state = "paused" PROVE Leaving' <= 2
    <3>1. Leaving <= 2 /\ leak' = leak + 1
      BY <1>1, <1>2, <2>1, <2>5, Zenon DEF PauseBound
    <3> QED
      BY <1>1, <1>2, <2>1, <3>1 DEF Leaving, Underway
  <2> QED
    BY <1>4, <2>5, Zenon DEF PauseBound
<1>7. CASE WritesError(g)
  <2>1. gate'[cur'].state = "ended"
    BY <1>1, <1>2, <1>7, Zenon DEF WritesError
  <2>2. gate'[cur'].state # "paused"
    BY <2>1, Zenon
  <2> QED
    BY <1>4, <2>2, Zenon DEF PauseBound
<1> QED
  BY <1>1, <1>5, <1>6, <1>7, Zenon DEF Flushes

\* Every step keeps both.
LEMMA NextPaused ==
    StreamInv /\ FlushInv /\ Types /\ PauseStates /\ PauseBound /\ [Next]_vars
        => PauseStates' /\ PauseBound'
<1> SUFFICES ASSUME StreamInv, FlushInv, Types, PauseStates, PauseBound, [Next]_vars
             PROVE  PauseStates' /\ PauseBound'
  BY Zenon
<1>0. leak \in Nat /\ cur \in Gens
  BY Zenon DEF Types, HistTypes, StreamInv
<1>1. CASE Control
  BY <1>0, <1>1, ControlPaused, Zenon
<1>2. CASE Producer
  BY <1>0, <1>2, ProducerPaused, Zenon
<1>3. CASE ForceCleanup
  <2>1. cur' = cur /\ ~stored' /\ UNCHANGED envVars
    BY <1>3, Zenon DEF ForceCleanup
  <2>2. gated => gated'
    BY <2>1 DEF envVars
  <2>3. Alone(cur) /\ gate'[cur].state = "ended"
    BY <1>3, ForceMoves, Zenon
  <2>4. gate'[cur].state # "paused"
    BY <2>3, Zenon
  <2>5. PauseStates'
    BY <1>0, <2>1, <2>2, <2>3, <2>4, AlonePaused, Zenon
  <2> QED
    BY <2>1, <2>5, Zenon DEF PauseBound
<1>4. CASE Receive \/ Cancel \/ UNCHANGED vars
  <2>1. /\ gate' = gate /\ cur' = cur /\ stored' = stored /\ gated' = gated
        /\ leak' = leak /\ prod' = prod
    BY <1>4, Zenon DEF Receive, Cancel, vars, histVars
  <2>2. (stored' => stored) /\ (gated => gated')
    BY <2>1
  <2> QED
    BY <1>0, <2>1, <2>2, ApartPaused, Zenon
<1>5. CASE \E g \in Gens : Flusher(g)
  BY <1>0, <1>5, FlusherPauses, Zenon
<1> QED
  BY <1>1, <1>2, <1>3, <1>4, <1>5, Zenon DEF Next

\* While the gate stays paused the client gets at most two more chunks, as long as the TTL
\* is not reached.
THEOREM PauseLetsOutTwo == ASSUME ~TTLSweep PROVE Spec => []PauseHolds
<1>1. Spec => []FlushInv
  BY SpecStream, InitFlush, NextFlush, PTL DEF Spec
<1>2. Spec => []Types
  BY SpecStream, InitTypes, NextTypes, PTL DEF Spec
<1>3. Init => PauseStates /\ PauseBound
  <2> SUFFICES ASSUME Init PROVE PauseStates /\ PauseBound
    OBVIOUS
  <2>1. leak = 0 /\ \A g \in Gens : gate[g].state = "active"
    BY DEF Init, NewGate
  <2>2. \A g \in Gens : gate[g].state # "paused"
    BY <2>1, Zenon
  <2> QED
    BY <2>1, <2>2, LeavingFew, Zenon DEF PauseStates, PauseBound
<1>4. Spec => [](PauseStates /\ PauseBound)
  BY SpecStream, <1>1, <1>2, <1>3, NextPaused, PTL DEF Spec
<1>5. Types /\ PauseBound => PauseHolds
  BY DEF Types, HistTypes, PauseBound, Leaving, Underway, PauseHolds
<1> QED
  BY <1>2, <1>4, <1>5, PTL
=============================================================================

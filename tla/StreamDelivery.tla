--------------------------- MODULE StreamDelivery ---------------------------
(***************************************************************************)
(* What the stream gate (framework/streaming/gate.go) promises the client  *)
(* of one stream, whatever plugins do to pause, resume, clear or end it.   *)
(*                                                                         *)
(* A chunk the provider produces is refused, or it joins exactly one lane: *)
(* the direct lane (the provider goroutine writes it to the channel) or    *)
(* the lane of a flusher.  Each lane delivers in the order it accepted,    *)
(* delivers a chunk at most once, and delivers at most one synthetic       *)
(* error, as its last chunk.  Chunks of a lane may be discarded.  Nothing  *)
(* is promised about the order between lanes.                              *)
(***************************************************************************)
EXTENDS Naturals, Sequences

CONSTANTS
    Lanes,    \* the flushers' lanes and the direct lane
    Direct,   \* the direct lane
    Err       \* the synthetic terminal error chunk

VARIABLES
    queue,    \* queue[l]: the chunks lane l has accepted and not delivered
    last,     \* the last chunk the provider produced
    done,     \* the lanes that have produced their terminal error
    out       \* the chunks written to the client's channel, in order

vars == <<queue, last, done, out>>

Init ==
    /\ queue = [l \in Lanes |-> <<>>]
    /\ last = 0
    /\ done = {}
    /\ out = <<>>

\* The next chunk joins a lane.
Put(l) ==
    /\ l \notin done
    /\ last' = last + 1
    /\ queue' = [queue EXCEPT ![l] = Append(@, last')]
    /\ UNCHANGED <<done, out>>

\* The next chunk is dropped by an ended gate.
Refuse ==
    /\ last' = last + 1
    /\ UNCHANGED <<queue, done, out>>

\* A lane whose chunks are all delivered or discarded ends with an error.
Fail(l) ==
    /\ l # Direct /\ l \notin done
    /\ queue[l] = <<>>
    /\ queue' = [queue EXCEPT ![l] = <<Err>>]
    /\ done' = done \cup {l}
    /\ UNCHANGED <<last, out>>

Deliver(l) ==
    /\ queue[l] # <<>>
    /\ out' = Append(out, Head(queue[l]))
    /\ queue' = [queue EXCEPT ![l] = Tail(@)]
    /\ UNCHANGED <<last, done>>

\* The lane gives up its chunks, or all but the one it is delivering.
Discard(l) ==
    /\ queue[l] # <<>>
    /\ queue' = [queue EXCEPT ![l] = <<>>] \/ queue' = [queue EXCEPT ![l] = <<Head(@)>>]
    /\ UNCHANGED <<last, done, out>>

Next ==
    \/ Refuse
    \/ \E l \in Lanes : Put(l) \/ Fail(l) \/ Deliver(l) \/ Discard(l)

Spec == Init /\ [][Next]_vars

=============================================================================

------------------------------- MODULE WSPool -------------------------------
(***************************************************************************)
(* The pool of upstream WebSocket connections                              *)
(* (transports/celer-route-http/websocket/pool.go) and its clients: relays *)
(* that discard what they borrowed (handlers/wsrealtime.go), callers that  *)
(* return it, and sessions that pin it (handlers/wsresponses.go).          *)
(*                                                                         *)
(* Probes, dials and ages have arbitrary results.  Each section under the  *)
(* pool's mutex is one action.                                             *)
(***************************************************************************)
EXTENDS Integers, FiniteSets, Functions, SequencesExt

CONSTANTS
    PoolKeys,            \* (provider, key, endpoint) groups
    Conns,               \* connection identities
    Relays,              \* clients that only discard
    Returners,           \* clients that return or discard
    Sessions,            \* clients that pin a connection from turn to turn
    None,                \* no key or connection
    MaxTotalConnections,
    MaxIdlePerKey,
    Breaks,              \* connections in use may be closed by the upstream
    MayClose             \* the pool may be shut down

Clients == Relays \cup Returners \cup Sessions

PoolAssumption ==
    /\ MaxTotalConnections \in Nat \ {0} /\ MaxIdlePerKey \in Nat \ {0}
    /\ Breaks \in BOOLEAN /\ MayClose \in BOOLEAN
    /\ None \notin PoolKeys \cup Conns

VARIABLES
    idle,            \* idle[k]: idle connections of k, oldest first
    inFlight,        \* the pool's counter of connections in use
    probing,         \* probing[k]: probingPerKey; the total is their sum
    closed,          \* the pool was shut down
    open,            \* connections that are not closed
    client,          \* client[b]: what a client is doing
    sweep            \* the heartbeat: its candidates not yet probed, its survivors

vars == <<idle, inFlight, probing, closed, open, client, sweep>>

NotBorrowing == [at |-> "idle", key |-> None, conn |-> None]
Resting == [at |-> "idle", todo |-> {}, alive |-> {}, count |-> [k \in PoolKeys |-> 0]]

\* The shape of the state; an idle connection is in one place of one list.
TypeOK ==
    /\ idle \in [PoolKeys -> Seq(Conns)]
    /\ inFlight \in Int
    /\ probing \in [PoolKeys -> Nat]
    /\ closed \in BOOLEAN /\ open \subseteq Conns
    /\ client \in [Clients -> [at : {"idle", "got", "dial", "using", "pinned"},
                               key : PoolKeys \cup {None}, conn : Conns \cup {None}]]
    /\ sweep.at \in {"idle", "probe"}
    /\ sweep.todo \subseteq PoolKeys \X Conns /\ sweep.alive \subseteq PoolKeys \X Conns
    /\ \A k, l \in PoolKeys : \A i \in DOMAIN idle[k], j \in DOMAIN idle[l] :
         idle[k][i] = idle[l][j] => k = l /\ i = j

Init ==
    /\ idle = [k \in PoolKeys |-> <<>>]
    /\ inFlight = 0 /\ probing = [k \in PoolKeys |-> 0]
    /\ closed = FALSE /\ open = {}
    /\ client = [b \in Clients |-> NotBorrowing]
    /\ sweep = Resting

Sum(f) == FoldFunction(+, 0, f)
TotalIdle == Sum([k \in PoolKeys |-> Len(idle[k])])
IdleConns == UNION {Range(idle[k]) : k \in PoolKeys}
Held == {client[b].conn : b \in Clients} \ {None}
Candidates == {p[2] : p \in sweep.todo \cup sweep.alive}

Become(b, at, k, c) == client' = [client EXCEPT ![b] = [at |-> at, key |-> k, conn |-> c]]

-----------------------------------------------------------------------------
(* Get.                                                                    *)

HasRoom == TotalIdle + inFlight + Sum(probing) < MaxTotalConnections

GetPop(b, k) ==
    /\ client[b].at = "idle" /\ ~closed /\ idle[k] # <<>>
    /\ Become(b, "got", k, idle[k][Len(idle[k])])
    /\ idle' = [idle EXCEPT ![k] = SubSeq(@, 1, Len(@) - 1)]
    /\ UNCHANGED <<inFlight, probing, closed, open, sweep>>

\* Outside the lock the connection is fit for use; then it is counted.
GetReuse(b) ==
    /\ client[b].at = "got" /\ client[b].conn \in open
    /\ inFlight' = inFlight + 1
    /\ Become(b, "using", client[b].key, client[b].conn)
    /\ UNCHANGED <<idle, probing, closed, open, sweep>>

\* It is closed, expired or silent: the next one is popped, or none is left.
GetReject(b) ==
    LET k == client[b].key
    IN  /\ client[b].at = "got"
        /\ open' = open \ {client[b].conn}
        /\ IF idle[k] # <<>>
           THEN /\ Become(b, "got", k, idle[k][Len(idle[k])])
                /\ idle' = [idle EXCEPT ![k] = SubSeq(@, 1, Len(@) - 1)]
                /\ UNCHANGED inFlight
           ELSE /\ UNCHANGED idle
                /\ IF HasRoom
                   THEN Become(b, "dial", k, None) /\ inFlight' = inFlight + 1
                   ELSE Become(b, "idle", None, None) /\ UNCHANGED inFlight
        /\ UNCHANGED <<probing, closed, sweep>>

\* Nothing is idle: a slot is reserved before dialing.
GetReserve(b, k) ==
    /\ client[b].at = "idle" /\ ~closed /\ idle[k] = <<>>
    /\ HasRoom
    /\ inFlight' = inFlight + 1
    /\ Become(b, "dial", k, None)
    /\ UNCHANGED <<idle, probing, closed, open, sweep>>

Dialed(b) ==
    /\ client[b].at = "dial"
    /\ \E c \in Conns \ (open \cup Held \cup IdleConns \cup Candidates) :
         /\ open' = open \cup {c}
         /\ Become(b, "using", client[b].key, c)
    /\ UNCHANGED <<idle, inFlight, probing, closed, sweep>>

\* Mutant: the reserved slot is not given back.
DialFailedKeepingSlot(b) ==
    /\ client[b].at = "dial"
    /\ Become(b, "idle", None, None)
    /\ UNCHANGED <<inFlight, idle, probing, closed, open, sweep>>

DialFailed(b) ==
    /\ client[b].at = "dial"
    /\ inFlight' = inFlight - 1
    /\ Become(b, "idle", None, None)
    /\ UNCHANGED <<idle, probing, closed, open, sweep>>

-----------------------------------------------------------------------------
(* Return, Discard and Close.                                              *)

HasIdleRoom(k) == Len(idle[k]) + probing[k] < MaxIdlePerKey

\* A closed connection is dropped before any counter is touched.
ReturnClosed(b) ==
    /\ b \in Returners /\ client[b].at = "using" /\ client[b].conn \notin open
    /\ Become(b, "idle", None, None)
    /\ UNCHANGED <<idle, inFlight, probing, closed, open, sweep>>

ReturnExpired(b) ==
    /\ b \in Returners /\ client[b].at = "using" /\ client[b].conn \in open
    /\ open' = open \ {client[b].conn}
    /\ inFlight' = inFlight - 1
    /\ Become(b, "idle", None, None)
    /\ UNCHANGED <<idle, probing, closed, sweep>>

Return(b) ==
    LET k == client[b].key
        c == client[b].conn
    IN  /\ b \in Returners /\ client[b].at = "using" /\ c \in open
        /\ inFlight' = inFlight - 1
        /\ IF ~closed /\ HasIdleRoom(k)
           THEN idle' = [idle EXCEPT ![k] = Append(@, c)] /\ UNCHANGED open
           ELSE open' = open \ {c} /\ UNCHANGED idle
        /\ Become(b, "idle", None, None)
        /\ UNCHANGED <<probing, closed, sweep>>

Discard(b) ==
    /\ client[b].at = "using"
    /\ open' = open \ {client[b].conn}
    /\ inFlight' = inFlight - 1
    /\ Become(b, "idle", None, None)
    /\ UNCHANGED <<idle, probing, closed, sweep>>

Close ==
    /\ MayClose /\ ~closed
    /\ closed' = TRUE
    /\ open' = open \ IdleConns
    /\ idle' = [k \in PoolKeys |-> <<>>]
    /\ UNCHANGED <<inFlight, probing, client, sweep>>

-----------------------------------------------------------------------------
(* Sessions of the Responses endpoint.                                     *)

\* A turn that ends well leaves the connection pinned to its session.
EndTurn(b) ==
    /\ b \in Sessions /\ client[b].at = "using" /\ client[b].conn \in open
    /\ client' = [client EXCEPT ![b].at = "pinned"]
    /\ UNCHANGED <<idle, inFlight, probing, closed, open, sweep>>

\* The next turn uses the pinned connection, or discards it for another key.
NextTurn(b) ==
    /\ client[b].at = "pinned"
    /\ \/ /\ client' = [client EXCEPT ![b].at = "using"]
          /\ UNCHANGED <<open, inFlight>>
       \/ /\ open' = open \ {client[b].conn}
          /\ inFlight' = inFlight - 1
          /\ Become(b, "idle", None, None)
    /\ UNCHANGED <<idle, probing, closed, sweep>>

\* Session.Close closes the pinned connection itself.
EndSession(b) ==
    /\ client[b].at = "pinned"
    /\ open' = open \ {client[b].conn}
    /\ Become(b, "idle", None, None)
    /\ UNCHANGED <<idle, inFlight, probing, closed, sweep>>

\* The upstream goes away: a read or a write in use closes the connection.
Break(b) ==
    /\ Breaks /\ client[b].at = "using" /\ client[b].conn \in open
    /\ open' = open \ {client[b].conn}
    /\ UNCHANGED <<idle, inFlight, probing, closed, client, sweep>>

-----------------------------------------------------------------------------
(* The background loops.                                                   *)

\* refreshIdleConnections takes every idle connection out, ...
SweepBegin ==
    /\ sweep.at = "idle" /\ ~closed /\ TotalIdle > 0
    /\ sweep' = [at |-> "probe", alive |-> {}, count |-> [k \in PoolKeys |-> Len(idle[k])],
                 todo |-> UNION {{k} \X Range(idle[k]) : k \in PoolKeys}]
    /\ probing' = [k \in PoolKeys |-> probing[k] + Len(idle[k])]
    /\ idle' = [k \in PoolKeys |-> <<>>]
    /\ UNCHANGED <<inFlight, closed, open, client>>

\* ... probes each one without the lock, ...
SweepProbe ==
    /\ sweep.at = "probe"
    /\ \E p \in sweep.todo :
         \/ /\ p[2] \in open
            /\ sweep' = [sweep EXCEPT !.todo = @ \ {p}, !.alive = @ \cup {p}]
            /\ UNCHANGED open
         \/ /\ sweep' = [sweep EXCEPT !.todo = @ \ {p}]
            /\ open' = open \ {p[2]}
    /\ UNCHANGED <<idle, inFlight, probing, closed, client>>

SurvivorsOf(k) == {p[2] : p \in {p \in sweep.alive : p[1] = k}}

\* ... and puts the survivors back.
SweepEnd ==
    /\ sweep.at = "probe" /\ sweep.todo = {}
    /\ sweep' = Resting
    /\ probing' = [k \in PoolKeys |-> probing[k] - sweep.count[k]]
    /\ IF closed
       THEN open' = open \ {p[2] : p \in sweep.alive} /\ UNCHANGED idle
       ELSE idle' = [k \in PoolKeys |-> idle[k] \o SetToSeq(SurvivorsOf(k))] /\ UNCHANGED open
    /\ UNCHANGED <<inFlight, closed, client>>

\* evictExpired drops the closed and the expired idle connections.
EvictExpired ==
    \E gone \in SUBSET IdleConns \ {{}} :
        /\ ~closed
        /\ open' = open \ gone
        /\ idle' = [k \in PoolKeys |-> SelectSeq(idle[k], LAMBDA c : c \notin gone)]
        /\ UNCHANGED <<inFlight, probing, closed, client, sweep>>

-----------------------------------------------------------------------------

ClientStep(b) ==
    \/ GetReuse(b) \/ GetReject(b) \/ Dialed(b) \/ DialFailed(b)
    \/ ReturnClosed(b) \/ ReturnExpired(b) \/ Return(b) \/ Discard(b)
    \/ EndTurn(b) \/ NextTurn(b) \/ EndSession(b)

SweepStep == SweepProbe \/ SweepEnd

Next ==
    \/ \E b \in Clients : ClientStep(b) \/ Break(b) \/ \E k \in PoolKeys : GetPop(b, k) \/ GetReserve(b, k)
    \/ SweepBegin \/ SweepStep \/ EvictExpired \/ Close

Spec == Init /\ [][Next]_vars

\* A probe, a dial and a relay end, since each has a deadline or ends with its
\* client; a client that is not borrowing need not borrow.
FairSpec ==
    /\ Spec
    /\ WF_vars(SweepStep)
    /\ \A b \in Clients : WF_vars(ClientStep(b))

-----------------------------------------------------------------------------
(* Properties.                                                             *)

\* No connection is used by two clients, or used and probed or idle at once.
ExclusiveUse ==
    /\ \A a, b \in Clients : a # b /\ client[a].conn # None => client[a].conn # client[b].conn
    /\ Held \cap (IdleConns \cup Candidates) = {}

\* The idle connections of a key, those out for a heartbeat included, never
\* exceed MaxIdlePerKey (Return's bound, refreshIdleConnections).
IdleBounded == \A k \in PoolKeys : Len(idle[k]) + probing[k] <= MaxIdlePerKey

\* The connections that exist or are being dialed never exceed
\* MaxTotalConnections (the check Get makes before dialing).
CapacityRespected ==
    Cardinality(open) + Cardinality({b \in Clients : client[b].at = "dial"}) <= MaxTotalConnections

\* inFlight counts the connections clients hold or dial: a slot is given back
\* when a client lets go of its connection, however it does.
SlotsGivenBack ==
    inFlight = Cardinality({b \in Clients : client[b].at \in {"dial", "using", "pinned"}})

\* inFlight never misses a connection that a client holds or dials, so that a
\* slot is never handed out twice (Get, Return and Discard).
SlotsCovered ==
    inFlight >= Cardinality({b \in Clients : client[b].at \in {"dial", "using", "pinned"}})

\* Between sweeps no connection is counted as under probe (the block that
\* "must always run").
ProbesGivenBack == sweep.at = "idle" => \A k \in PoolKeys : probing[k] = 0

\* After a shutdown every connection is closed in the end, also those that were
\* out for a probe, borrowed, or being dialed when it happened (Close).
ShutdownDrains == closed ~> [](open = {})
=============================================================================

--------------------------- MODULE AuthRecovery ---------------------------
(***************************************************************************)
(* What a live MCP tool call does when the server rejects its credential   *)
(* (core/mcp/toolmanager.go, attemptAuthFailureRecovery), for one client   *)
(* and one tool.  A per-call client refreshes its credential and repeats   *)
(* the call.  A shared client is reconnected by a goroutine; the caller    *)
(* waits for it, or joins the operation its reconnect lost to              *)
(* (AwaitReconnect), and repeats the call once on the new connection.      *)
(*                                                                         *)
(* The connections of the shared client are numbered in the order they are *)
(* made; a reconnect is the short form of the one in module MCPClients.    *)
(* The tool's annotations are optional hints.                              *)
(***************************************************************************)
EXTENDS Integers, Sequences, FiniteSets

CONSTANTS
    Callers,     \* tool calls
    Hint,        \* values of an annotation: {"unset", "yes", "no"} or fewer
    Shared,      \* whether the client holds a shared connection
    Edits,       \* "update" and "disable" operations of administrators
    MaxConns,    \* connections ever made
    MaxExpiries, \* times the server stops accepting what it accepted
    MaxFaults    \* failing dials and calls, misleading errors, lost tools

AuthAssumption ==
    /\ IsFiniteSet(Callers) /\ Hint \subseteq {"unset", "yes", "no"} /\ Shared \in BOOLEAN
    /\ Edits \subseteq {"update", "disable"} /\ {MaxConns, MaxExpiries, MaxFaults} \subseteq Nat

VARIABLES
    hints,     \* the annotations of the tool
    client,    \* the client's entry: connection, tool in ToolMap, disabled
    accepted,  \* the connections whose credential the server accepts
    made,      \* connections made
    ops,       \* exclusive operations of the client, oldest first; the last
               \* one is what reconnectingClients holds
    call,      \* call[c]: a tool call
    bg,        \* bg[c]: the reconnect goroutine of a call
    edits,     \* edits not yet begun, and the one under way
    expiries,
    faults

vars == <<hints, client, accepted, made, ops, call, bg, edits, expiries, faults>>

Start == [at |-> "prepare", conn |-> 0, tries |-> 0, rejected |-> 0, joined |-> 0, why |-> "none"]
Off == [at |-> "off", op |-> 0, lost |-> 0, err |-> FALSE]

Init ==
    /\ hints \in [ro : Hint, destructive : Hint, idempotent : Hint]
    /\ client = [conn |-> 1, tool |-> TRUE, disabled |-> FALSE]
    /\ accepted = {1} /\ made = 1 /\ ops = <<>>
    /\ call = [c \in Callers |-> Start]
    /\ bg = [c \in Callers |-> Off]
    /\ edits = [left |-> Edits, now |-> "none", op |-> 0]
    /\ expiries = 0 /\ faults = 0

Fault == faults < MaxFaults /\ faults' = faults + 1
FaultUnless(expected) == IF expected THEN UNCHANGED faults ELSE Fault
At(c, step) == call[c].at = step
Goes(c, step) == call' = [call EXCEPT ![c].at = step]
Fails(c, why) == call' = [call EXCEPT ![c].at = "failed", ![c].why = why]

\* The call is not repeated: readOnlyHint is no by default, destructiveHint
\* yes and idempotentHint no.  A tool that is not in the map opts out of
\* nothing.
OptedOut(tool) ==
    tool /\ hints.ro # "yes" /\ hints.destructive # "no" /\ hints.idempotent # "yes"

(***************************************************************************)
(* The exclusive operations of the client.                                 *)
(***************************************************************************)

\* beginExclusiveClientOp: the last operation has not closed its channel.
Busy == ops # <<>> /\ ~ops[Len(ops)].done
Began == Append(ops, [done |-> FALSE, err |-> FALSE])

\* finishExclusiveClientOp: the operation stays in the map, with its outcome.
Finished(o, err) == [ops EXCEPT ![o] = [done |-> TRUE, err |-> err]]

(***************************************************************************)
(* A tool call.                                                            *)
(***************************************************************************)

\* prepareToolExecution and AcquireClientConn.
Prepare(c) ==
    /\ At(c, "prepare")
    /\ IF ~client.tool \/ client.disabled \/ (Shared /\ client.conn = 0)
       THEN Fails(c, "gate")
       ELSE call' = [call EXCEPT ![c].conn = IF Shared THEN client.conn ELSE 1, ![c].at = "call"]
    /\ UNCHANGED <<hints, client, accepted, made, ops, bg, edits, expiries, faults>>

\* The connection has been replaced, and closed, since the caller took it.
Closed(c) == Shared /\ call[c].conn # client.conn

\* CallTool: it succeeds, is rejected, is repeated after a transport failure
\* (at most twice) or fails.  An error text may look like a rejection.
CallTool(c) ==
    /\ At(c, "call")
    /\ \/ call[c].conn \in accepted /\ Goes(c, "ok") /\ UNCHANGED faults
       \/ /\ FaultUnless(call[c].conn \notin accepted)
          /\ call' = [call EXCEPT ![c].rejected = call[c].conn, ![c].at = "recover"]
       \/ /\ FaultUnless(Closed(c))
          /\ \/ call[c].tries < 2 /\ call' = [call EXCEPT ![c].tries = @ + 1]
             \/ Fails(c, "upstream")
    /\ UNCHANGED <<hints, client, accepted, made, ops, bg, edits, expiries>>

\* attemptAuthFailureRecovery of a shared client: the reconnect is started
\* also when the call is not to be repeated.
RecoverShared(c) ==
    /\ At(c, "recover") /\ Shared
    /\ bg' = [bg EXCEPT ![c].at = "refresh"]
    /\ IF OptedOut(client.tool) THEN Fails(c, "optout") ELSE Goes(c, "await")
    /\ UNCHANGED <<hints, client, accepted, made, ops, edits, expiries, faults>>

\* attemptAuthFailureRecovery of a per-call client: refresh, connect and
\* repeat at once.
RecoverPerCall(c) ==
    /\ At(c, "recover") /\ ~Shared
    /\ \/ /\ OptedOut(client.tool) \/ ~client.tool
          /\ Fails(c, "optout") /\ UNCHANGED <<accepted, made, faults>>
       \/ /\ ~OptedOut(client.tool) /\ client.tool /\ made < MaxConns
          /\ made' = made + 1 /\ accepted' = accepted \union {made + 1}
          /\ call' = [call EXCEPT ![c].conn = made + 1, ![c].at = "retry"]
          /\ UNCHANGED faults
       \/ /\ ~OptedOut(client.tool) /\ client.tool
          /\ Fault /\ Fails(c, "connect") /\ UNCHANGED <<accepted, made>>
    /\ UNCHANGED <<hints, client, ops, bg, edits, expiries>>

\* recoverSharedConnection: the result of the goroutine.
Await(c) ==
    /\ At(c, "await") /\ bg[c].at = "done"
    /\ IF bg[c].err THEN Goes(c, "join") ELSE Goes(c, "resolve")
    /\ UNCHANGED <<hints, client, accepted, made, ops, bg, edits, expiries, faults>>

\* Mutant: only an operation in progress is found.
JoinRunning(c) ==
    /\ At(c, "join")
    /\ IF ~Busy THEN Fails(c, "join")
       ELSE call' = [call EXCEPT ![c].joined = Len(ops), ![c].at = "joined"]
    /\ UNCHANGED <<hints, client, accepted, made, ops, bg, edits, expiries, faults>>

\* AwaitReconnect finds the last operation of the client.
Join(c) ==
    /\ At(c, "join")
    /\ IF ops = <<>> THEN Fails(c, "join")
       ELSE call' = [call EXCEPT ![c].joined = Len(ops), ![c].at = "joined"]
    /\ UNCHANGED <<hints, client, accepted, made, ops, bg, edits, expiries, faults>>

Joined(c) ==
    /\ At(c, "joined") /\ ops[call[c].joined].done
    /\ IF ops[call[c].joined].err THEN Fails(c, "join") ELSE Goes(c, "resolve")
    /\ UNCHANGED <<hints, client, accepted, made, ops, bg, edits, expiries, faults>>

\* The budget is spent, or the caller is gone.
TimesOut(c) ==
    /\ \E step \in {"await", "joined"} : At(c, step)
    /\ Fails(c, "timeout")
    /\ UNCHANGED <<hints, client, accepted, made, ops, bg, edits, expiries, faults>>

\* The client is looked up again by name: it must still have the tool and
\* have a connection.
Resolve(c) ==
    /\ At(c, "resolve")
    /\ IF client.tool /\ client.conn # 0
       THEN call' = [call EXCEPT ![c].conn = client.conn, ![c].at = "retry"]
       ELSE Fails(c, "resolve")
    /\ UNCHANGED <<hints, client, accepted, made, ops, bg, edits, expiries, faults>>

\* The one repetition.
Retry(c) ==
    /\ At(c, "retry")
    /\ \/ call[c].conn \in accepted /\ Goes(c, "ok")
       \/ (call[c].conn \notin accepted \/ Closed(c)) /\ Fails(c, "retry")
    /\ UNCHANGED <<hints, client, accepted, made, ops, bg, edits, expiries, faults>>

(***************************************************************************)
(* The reconnect goroutine, triggerBackgroundReconnect.                    *)
(***************************************************************************)

\* ForceRefresh, then ReconnectClient's claim of the exclusive operation.
BeginReconnect(c) ==
    /\ bg[c].at = "refresh"
    /\ IF Busy
       THEN /\ bg' = [bg EXCEPT ![c].at = "done", ![c].lost = Len(ops), ![c].err = TRUE]
            /\ UNCHANGED ops
       ELSE /\ ops' = Began
            /\ bg' = [bg EXCEPT ![c].at = "dial", ![c].op = Len(ops) + 1]
    /\ UNCHANGED <<hints, client, accepted, made, call, edits, expiries, faults>>

\* connectToMCPClient swaps the new connection in, or fails and leaves none;
\* a disabled client is left alone.
Reconnect(c) ==
    /\ bg[c].at = "dial"
    /\ \/ /\ client.disabled
          /\ bg' = [bg EXCEPT ![c].at = "finish", ![c].err = TRUE]
          /\ UNCHANGED <<client, accepted, made, faults>>
       \/ /\ ~client.disabled /\ made < MaxConns
          /\ made' = made + 1 /\ accepted' = accepted \union {made + 1}
          /\ \E listed \in BOOLEAN :
                /\ client' = [client EXCEPT !.conn = made + 1, !.tool = listed]
                /\ FaultUnless(listed)
          /\ bg' = [bg EXCEPT ![c].at = "finish"]
       \/ /\ ~client.disabled /\ Fault
          /\ client' = [client EXCEPT !.conn = 0]
          /\ bg' = [bg EXCEPT ![c].at = "finish", ![c].err = TRUE]
          /\ UNCHANGED <<accepted, made>>
    /\ UNCHANGED <<hints, ops, call, edits, expiries>>

FinishReconnect(c) ==
    /\ bg[c].at = "finish"
    /\ ops' = Finished(bg[c].op, bg[c].err)
    /\ bg' = [bg EXCEPT ![c].at = "done"]
    /\ UNCHANGED <<hints, client, accepted, made, call, edits, expiries, faults>>

(***************************************************************************)
(* Administrators, the checker and the server.                             *)
(***************************************************************************)

\* UpdateClient and DisableClient claim the same exclusive operation.
BeginEdit(e) ==
    /\ edits.now = "none" /\ e \in edits.left /\ ~Busy
    /\ ops' = Began
    /\ edits' = [left |-> edits.left \ {e}, now |-> e, op |-> Len(ops) + 1]
    /\ UNCHANGED <<hints, client, accepted, made, call, bg, expiries, faults>>

\* DisableClient closes the connection; it keeps the tools of a per-call
\* client.  UpdateClient changes nothing modelled here.
Disable ==
    /\ edits.now = "disable" /\ ~client.disabled
    /\ client' = [conn |-> 0, tool |-> client.tool /\ ~Shared, disabled |-> TRUE]
    /\ UNCHANGED <<hints, accepted, made, ops, call, bg, edits, expiries, faults>>

FinishEdit ==
    /\ edits.now = "update" \/ (edits.now = "disable" /\ client.disabled)
    /\ ops' = Finished(edits.op, FALSE)
    /\ edits' = [edits EXCEPT !.now = "none"]
    /\ UNCHANGED <<hints, client, accepted, made, call, bg, expiries, faults>>

\* A check of the connection finds the tool gone from the server's list.
LoseTool ==
    /\ client.tool /\ Fault
    /\ client' = [client EXCEPT !.tool = FALSE]
    /\ UNCHANGED <<hints, accepted, made, ops, call, bg, edits, expiries>>

\* The server no longer accepts the credential of any open connection.
Expire ==
    /\ expiries < MaxExpiries /\ expiries' = expiries + 1
    /\ accepted' = {}
    /\ UNCHANGED <<hints, client, made, ops, call, bg, edits, faults>>

(***************************************************************************)
(* Specification.                                                          *)
(***************************************************************************)

Caller(c) ==
    \/ Prepare(c) \/ CallTool(c) \/ RecoverShared(c) \/ RecoverPerCall(c) \/ Await(c)
    \/ Join(c) \/ Joined(c) \/ Resolve(c) \/ Retry(c)
Background(c) == BeginReconnect(c) \/ Reconnect(c) \/ FinishReconnect(c)

Done ==
    /\ \A c \in Callers : call[c].at \in {"ok", "failed"} /\ bg[c].at \in {"off", "done"}
    /\ UNCHANGED vars

Next ==
    \/ \E c \in Callers : Caller(c) \/ TimesOut(c) \/ Background(c)
    \/ \E e \in Edits : BeginEdit(e)
    \/ Disable \/ FinishEdit \/ LoseTool \/ Expire \/ Done

Spec == Init /\ [][Next]_vars

\* Goroutines run and dials end: every network step has a timeout.
FairSpec ==
    /\ Spec
    /\ \A c \in Callers : WF_vars(Caller(c)) /\ WF_vars(Background(c))
    /\ WF_vars(Disable) /\ WF_vars(FinishEdit)

(***************************************************************************)
(* Properties.                                                             *)
(***************************************************************************)

Steps == {"prepare", "call", "recover", "await", "join", "joined", "resolve", "retry", "ok", "failed"}

\* Types, and at most one goroutine is inside an exclusive operation of the
\* client (beginExclusiveClientOp).
TypeOK ==
    /\ \A c \in Callers : call[c].at \in Steps /\ call[c].conn \in 0..MaxConns
    /\ client.conn \in 0..made /\ made \in 1..MaxConns /\ accepted \subseteq 1..MaxConns
    /\ Cardinality({c \in Callers : bg[c].at \in {"dial", "finish"}})
           + (IF edits.now = "none" THEN 0 ELSE 1) <= 1

\* A call is repeated only for a tool that may be called twice by the
\* defaults of the MCP specification: read-only, not destructive or
\* idempotent (attemptAuthFailureRecovery, "Fail closed on missing hints").
RetryIsSafe ==
    \A c \in Callers : At(c, "retry") =>
        hints.ro = "yes" \/ hints.destructive = "no" \/ hints.idempotent = "yes"

\* The repetition runs on another connection than the one that was rejected
\* (recoverSharedConnection, "re-acquires the healed connection").
RetryOnHealed ==
    \A c \in Callers : At(c, "retry") => call[c].conn # call[c].rejected

\* A caller whose reconnect lost to another operation gives up only when
\* that operation, or a later one, failed (beginExclusiveClientOp keeps a
\* completed operation so that nobody is "silently missing a reconnect that
\* in fact just succeeded").
NoMissedReconnect ==
    \A c \in Callers : call[c].why = "join" /\ bg[c].lost # 0 =>
        \E o \in bg[c].lost..Len(ops) : ops[o].done /\ ops[o].err

\* A connection the server rejects does not stay the client's connection
\* (recoverSharedConnection, "always triggers the background force-refresh +
\* reconnect first, so the connection heals").
Heals ==
    \A n \in 1..MaxConns :
        (/\ Shared /\ n \notin accepted /\ client.conn = n
         /\ \E c \in Callers : call[c].rejected = n) ~> (client.conn # n)
=============================================================================

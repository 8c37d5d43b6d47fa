---------------------------- MODULE MCPClients ----------------------------
(***************************************************************************)
(* The MCP client manager (core/mcp/clientmanager.go, core/mcp/mcp.go) and *)
(* the connection checker (core/mcp/connectionchecker.go), for one client  *)
(* id.  A section under the manager's lock is one step; dialling, closing, *)
(* discovering tools and starting a checker happen between sections, while *)
(* other callers go on.  A connection stands for the transport and its     *)
(* cancel function, which are captured and released together.              *)
(*                                                                         *)
(* A call runs in a thread: requests of administrators, the reactive       *)
(* reconnect of a tool call and the reconnect goroutines of a checker.     *)
(* The exclusive-operation slot turns the second caller away; RemoveClient *)
(* and SetClientTools do not take it.  Name, header and transport          *)
(* validation is left out.                                                 *)
(***************************************************************************)
EXTENDS Integers, FiniteSets

CONSTANTS
    Threads,
    Kinds,        \* the calls that are made
    AddConfigs,   \* what AddClient is called with
    EditConfigs,  \* what UpdateClient is called with
    Transport,    \* "http", "sse" or "stdio"
    Conns,        \* connections, used again once closed and forgotten
    Checkers,     \* likewise
    Tools,        \* the tools a server may offer
    MaxCalls,     \* calls made and tool lists changed
    MaxFaults,    \* failing dials, checks and writes, connections lost
    MaxGen        \* a checker reconnects only below this generation

MCPAssumption ==
    /\ \A S \in {Threads, Conns, Checkers, Tools} : IsFiniteSet(S)
    /\ AddConfigs \union EditConfigs \subseteq
          [perCall : BOOLEAN, disabled : BOOLEAN, pending : BOOLEAN, cred : 1..2]
    /\ Transport \in {"http", "sse", "stdio"} /\ {MaxCalls, MaxFaults, MaxGen} \subseteq Nat

VARIABLES
    entry,     \* clientMap[id]
    slot,      \* the thread that holds the exclusive operation
    th,        \* th[t]: what a thread does and has captured
    conn,      \* conn[x]: "open", "dead" (the server is gone) or "closed"
    ck,        \* ck[c]: a connection checker and its check in flight
    reg,       \* the checker registered for the client
    lost,      \* registered connection-lost callbacks (SSE)
    srv,       \* the tools the server offers
    db,        \* the tools persisted for the client
    persists,  \* the tool sets whose persisting goroutine has not run
    calls,     \* calls made so far
    faults     \* faults so far

vars == <<entry, slot, th, conn, ck, reg, lost, srv, db, persists, calls, faults>>
memory == <<entry, slot, th, conn, ck, reg>>
world == <<lost, srv, db, persists, calls, faults>>

None == "none"
NoConfig == [perCall |-> FALSE, disabled |-> FALSE, pending |-> FALSE, cred |-> 0]
NoEntry == [ptr |-> 0, state |-> "absent", conn |-> None, gen |-> 0, cfg |-> NoConfig,
            tools |-> {}, hash |-> {}]
Idle == [kind |-> None, at |-> "idle", cfg |-> NoConfig, old |-> NoConfig, ptr |-> 0,
         gen |-> 0, new |-> None, prev |-> None, list |-> {}, reauth |-> FALSE, ck |-> None]
Off == [run |-> "off", at |-> "idle", ptr |-> 0, gen |-> 0, conn |-> None, list |-> {}, ok |-> FALSE]

Exclusive == {"disable", "enable", "reconnect", "rotate", "update", "creds"}
Authoritative == {"disabled", "needs_reauth"}
Present == entry.ptr # 0

\* A fresh *MCPClientState under the client's id: a pointer nobody holds.
InUse == {entry.ptr} \union {th[t].ptr : t \in Threads} \union {ck[c].ptr : c \in Checkers}
             \union {l.ptr : l \in lost}
NewEntry(state, cfg) ==
    [NoEntry EXCEPT !.ptr = CHOOSE p \in 1..(Cardinality(InUse) + 1) : p \notin InUse,
                    !.state = state, !.cfg = cfg]

Init ==
    /\ entry = NoEntry /\ slot = None /\ reg = None
    /\ th = [t \in Threads |-> Idle]
    /\ conn = [x \in Conns |-> "closed"]
    /\ ck = [c \in Checkers |-> Off]
    /\ lost = {} /\ persists = {} /\ srv = Tools /\ db = {}
    /\ calls = 0 /\ faults = 0

At(t, step) == th[t].at = step
Goes(t, step) == th' = [th EXCEPT ![t].at = step]

\* The call returns; finishExclusiveClientOp is deferred.
Return(t) ==
    /\ th' = [th EXCEPT ![t] = Idle]
    /\ slot' = IF slot = t THEN None ELSE slot

Closing(xs) == [x \in Conns |-> IF x \in xs THEN "closed" ELSE conn[x]]

\* StopChecking: a checker that has been registered but not started is only
\* forgotten, and a check in flight goes on.
Stopped(c) == IF c # None /\ ck[c].run = "running" THEN [ck EXCEPT ![c].run = "off"] ELSE ck
StopChecking == ck' = Stopped(reg) /\ reg' = None

\* toolsChangedCallback: only a list that differs from the last announced one
\* is handed to a persisting goroutine.
Announced(e, list) == [e EXCEPT !.hash = {list}]
Announce(list) ==
    persists' = IF entry.hash = {list} THEN persists ELSE persists \union {list}

Fault == faults < MaxFaults /\ faults' = faults + 1

(***************************************************************************)
(* Calls.                                                                  *)
(***************************************************************************)

\* A caller arrives.  The boot dial precedes every other call.
Request(t, k) ==
    /\ At(t, "idle") /\ calls < MaxCalls
    /\ k = "boot" => calls = 0
    /\ \A u \in Threads : th[u].kind # "boot"
    /\ th' = [th EXCEPT ![t].kind = k, ![t].at = "begin"]
    /\ calls' = calls + 1
    /\ UNCHANGED <<entry, slot, conn, ck, reg, lost, srv, db, persists, faults>>

\* beginExclusiveClientOp: the second caller gets an error.
Begin(t) ==
    /\ At(t, "begin") /\ th[t].kind \in Exclusive
    /\ IF slot = None THEN slot' = t /\ Goes(t, "locked") ELSE Return(t)
    /\ UNCHANGED <<entry, conn, ck, reg, world>>

\* AddClient up to the release of the manager's lock.
AddClient(t, cfg) ==
    /\ At(t, "begin") /\ th[t].kind \in {"add", "boot"}
    /\ IF Present \/ (~cfg.disabled /\ slot # None)
       THEN Return(t) /\ UNCHANGED entry
       ELSE /\ entry' = NewEntry(IF cfg.disabled THEN "disabled" ELSE "new", cfg)
            /\ IF cfg.disabled
               THEN Return(t)
               ELSE /\ slot' = t
                    /\ th' = [th EXCEPT ![t].cfg = cfg, ![t].at = "added"]
    /\ UNCHANGED <<conn, ck, reg, world>>

\* AddClient parks a client that an administrator has yet to authorize.
ParkPending(t) ==
    /\ At(t, "added") /\ th[t].cfg.pending
    /\ entry' = IF Present THEN [entry EXCEPT !.state = "pending"] ELSE entry
    /\ Return(t)
    /\ UNCHANGED <<conn, ck, reg, world>>

\* AddClient of a per-call client: persisted tools are restored, or
\* discovered now.
AddPerCall(t, restored) ==
    /\ At(t, "added") /\ ~th[t].cfg.pending /\ th[t].cfg.perCall
    /\ entry' = IF Present
                THEN [entry EXCEPT !.state = "healthy", !.tools = @ \union restored,
                                   !.hash = IF restored = {} THEN @ ELSE {restored}]
                ELSE entry
    /\ Goes(t, IF restored = {} THEN "discover" ELSE "register")
    /\ UNCHANGED <<slot, conn, ck, reg, world>>

AddSticky(t) ==
    /\ At(t, "added") /\ ~th[t].cfg.pending /\ ~th[t].cfg.perCall
    /\ Goes(t, "connect")
    /\ UNCHANGED <<entry, slot, conn, ck, reg, world>>

\* performAdminToolDiscovery, best effort.
Discover(t) ==
    /\ At(t, "discover")
    /\ \/ /\ th' = [th EXCEPT ![t].list = srv, ![t].at = "settools"]
          /\ UNCHANGED <<slot, faults>>
       \/ /\ Fault
          /\ IF th[t].kind = "verify" THEN Return(t) ELSE Goes(t, "register") /\ UNCHANGED slot
    /\ UNCHANGED <<entry, conn, ck, reg, lost, srv, db, persists, calls>>

SetClientTools(t) ==
    /\ At(t, "settools")
    /\ IF Present
       THEN /\ entry' = [Announced(entry, th[t].list) EXCEPT !.tools = @ \union th[t].list,
                                                            !.state = "healthy"]
            /\ Announce(th[t].list)
       ELSE UNCHANGED <<entry, persists>>
    /\ IF th[t].kind = "verify" THEN Return(t) ELSE Goes(t, "register") /\ UNCHANGED slot
    /\ UNCHANGED <<conn, ck, reg, lost, srv, db, calls, faults>>

\* An administrator verifies a per-call client once more; the handler sets
\* the tools found, without the exclusive operation.
Verify(t) ==
    /\ At(t, "begin") /\ th[t].kind = "verify"
    /\ IF Present /\ entry.cfg.perCall THEN Goes(t, "discover") /\ UNCHANGED slot ELSE Return(t)
    /\ UNCHANGED <<entry, conn, ck, reg, world>>

RemoveClient(t) ==
    /\ At(t, "begin") /\ th[t].kind = "remove"
    /\ IF Present
       THEN StopChecking /\ conn' = Closing({entry.conn}) /\ entry' = NoEntry
       ELSE UNCHANGED <<ck, reg, conn, entry>>
    /\ Return(t)
    /\ UNCHANGED world

CloseAndMarkNeedsReauth(t) ==
    /\ At(t, "locked") /\ th[t].kind = "rotate"
    /\ IF Present /\ ~entry.cfg.perCall /\ entry.state # "disabled"
       THEN /\ conn' = Closing({entry.conn})
            /\ entry' = [entry EXCEPT !.conn = None, !.state = "needs_reauth"]
       ELSE UNCHANGED <<conn, entry>>
    /\ Return(t)
    /\ UNCHANGED <<ck, reg, world>>

DisableClient(t) ==
    /\ At(t, "locked") /\ th[t].kind = "disable"
    /\ IF Present /\ entry.state # "disabled"
       THEN /\ StopChecking
            /\ conn' = Closing({entry.conn})
            /\ entry' = [entry EXCEPT !.conn = None, !.state = "disabled", !.cfg.disabled = TRUE,
                                      !.tools = IF entry.cfg.perCall THEN @ ELSE {}]
       ELSE UNCHANGED <<ck, reg, conn, entry>>
    /\ Return(t)
    /\ UNCHANGED world

EnableClient(t) ==
    /\ At(t, "locked") /\ th[t].kind = "enable"
    /\ IF Present /\ entry.state = "disabled"
       THEN /\ entry' = [entry EXCEPT !.cfg.disabled = FALSE]
            /\ th' = [th EXCEPT ![t].cfg = entry'.cfg,
                                ![t].at = IF entry.cfg.perCall THEN "enabled" ELSE "connect"]
            /\ UNCHANGED slot
       ELSE Return(t) /\ UNCHANGED entry
    /\ UNCHANGED <<conn, ck, reg, world>>

\* EnableClient of a per-call client: no dial and no checker.
EnablePerCall(t) ==
    /\ At(t, "enabled")
    /\ entry' = IF Present THEN [entry EXCEPT !.state = "healthy"] ELSE entry
    /\ Return(t)
    /\ UNCHANGED <<conn, ck, reg, world>>

ReconnectClient(t) ==
    /\ At(t, "locked") /\ th[t].kind = "reconnect"
    /\ IF Present /\ ~entry.cfg.perCall /\ ~entry.cfg.pending
       THEN th' = [th EXCEPT ![t].cfg = entry.cfg, ![t].at = "connect"] /\ UNCHANGED slot
       ELSE Return(t)
    /\ UNCHANGED <<entry, conn, ck, reg, world>>

\* UpdateClient's lock section: the new settings, and the connection closed
\* when the client has just become per-call.
UpdateClient(t, edit) ==
    LET cfg == [edit EXCEPT !.cred = entry.cfg.cred] IN
    /\ At(t, "locked") /\ th[t].kind = "update"
    /\ CASE ~Present -> Return(t) /\ UNCHANGED <<entry, conn>>
         [] Present /\ ~entry.cfg.perCall /\ cfg.perCall ->
              /\ conn' = Closing({entry.conn})
              /\ entry' = [entry EXCEPT !.cfg = cfg, !.gen = @ + 1, !.conn = None,
                                        !.state = IF @ \in Authoritative THEN @ ELSE "healthy"]
              /\ Goes(t, "unwatch") /\ UNCHANGED slot
         [] Present /\ entry.cfg.perCall /\ ~cfg.perCall ->
              /\ entry' = [entry EXCEPT !.cfg = cfg]
              /\ th' = [th EXCEPT ![t].cfg = cfg, ![t].at = "connect"]
              /\ UNCHANGED <<conn, slot>>
         [] OTHER -> entry' = [entry EXCEPT !.cfg = cfg] /\ Return(t) /\ UNCHANGED conn
    /\ UNCHANGED <<ck, reg, world>>

\* UpdateClient after the switch to per-call connections.
Unwatch(t) ==
    /\ At(t, "unwatch")
    /\ StopChecking /\ Return(t)
    /\ UNCHANGED <<entry, conn, world>>

\* UpdateClientCredentials: a pending per-call client becomes live, a sticky
\* one is dialled with the merged configuration.
UpdateClientCredentials(t) ==
    /\ At(t, "locked") /\ th[t].kind = "creds"
    /\ CASE Present /\ ~entry.cfg.perCall ->
              /\ th' = [th EXCEPT ![t].old = entry.cfg, ![t].at = "connect",
                          ![t].cfg = [entry.cfg EXCEPT !.cred = 3 - @, !.pending = FALSE]]
              /\ UNCHANGED <<entry, slot>>
         [] Present /\ entry.cfg.perCall /\ entry.state = "pending" ->
              /\ entry' = [entry EXCEPT !.cfg.pending = FALSE, !.state = "healthy"]
              /\ Goes(t, "discover") /\ UNCHANGED slot
         [] OTHER -> Return(t) /\ UNCHANGED entry
    /\ UNCHANGED <<conn, ck, reg, world>>

(***************************************************************************)
(* connectToMCPClient.                                                     *)
(***************************************************************************)

\* The first lock section.  With make-before-break the entry keeps its state
\* and connection during the dial; otherwise it is reset.  A client that is
\* not in the map is entered.
ConnectLock(t) ==
    /\ At(t, "connect")
    /\ IF Present /\ entry.state = "disabled" /\ th[t].cfg.disabled
       THEN Goes(t, "failed") /\ UNCHANGED entry
       ELSE IF ~Present
       THEN /\ entry' = NewEntry("unstable", th[t].cfg)
            /\ th' = [th EXCEPT ![t].ptr = entry'.ptr, ![t].at = "dial"]
       ELSE LET keep == entry.conn # None /\ Transport \in {"http", "sse"} IN
            /\ entry' = IF keep THEN [entry EXCEPT !.cfg = th[t].cfg]
                        ELSE [entry EXCEPT !.cfg = th[t].cfg, !.state = "unstable",
                                           !.conn = None, !.gen = @ + 1]
            /\ th' = [th EXCEPT ![t].ptr = entry.ptr, ![t].prev = entry.conn,
                                ![t].at = IF keep THEN "dial" ELSE "closefirst"]
    /\ UNCHANGED <<slot, conn, ck, reg, world>>

\* Mutant: the old process may still run while the new one is started.
CloseFirstLater(t) ==
    /\ At(t, "closefirst")
    /\ Goes(t, "dial")
    /\ UNCHANGED <<entry, slot, conn, ck, reg, world>>

CloseFirst(t) ==
    /\ At(t, "closefirst")
    /\ conn' = Closing({th[t].prev})
    /\ th' = [th EXCEPT ![t].prev = None, ![t].at = "dial"]
    /\ UNCHANGED <<entry, slot, ck, reg, world>>

FreeConns == {x \in Conns : /\ conn[x] = "closed" /\ entry.conn # x
                            /\ \A t \in Threads : x \notin {th[t].new, th[t].prev}
                            /\ \A c \in Checkers : ck[c].conn # x
                            /\ \A l \in lost : l.conn # x}

\* The dial and list_tools succeed.
Dial(t, x) ==
    /\ At(t, "dial") /\ x \in FreeConns
    /\ conn' = [conn EXCEPT ![x] = "open"]
    /\ th' = [th EXCEPT ![t].new = x, ![t].list = srv, ![t].at = "swap"]
    /\ UNCHANGED <<entry, slot, ck, reg, world>>

\* A plugin answers in place of the server: no connection and no tools.
DialShortCircuited(t) ==
    /\ At(t, "dial") /\ Fault
    /\ Goes(t, "swap")
    /\ UNCHANGED <<entry, slot, conn, ck, reg, lost, srv, db, persists, calls>>

\* The dial fails, for a dead credential or otherwise, or list_tools fails
\* on the open connection.
DialFails(t) ==
    /\ At(t, "dial") /\ Fault
    /\ \/ /\ \E dead \in BOOLEAN : th' = [th EXCEPT ![t].reauth = dead, ![t].at = "fail"]
          /\ UNCHANGED conn
       \/ \E x \in FreeConns : /\ conn' = [conn EXCEPT ![x] = "open"]
                               /\ th' = [th EXCEPT ![t].new = x, ![t].at = "fail"]
    /\ UNCHANGED <<entry, slot, ck, reg, lost, srv, db, persists, calls>>

\* The second lock section: the new connection is swapped in, unless the
\* client was removed or disabled in the meantime.
Swap(t) ==
    /\ At(t, "swap")
    /\ IF entry.ptr = th[t].ptr /\ entry.state # "disabled"
       THEN /\ entry' = [Announced(entry, th[t].list) EXCEPT
                            !.conn = th[t].new, !.state = "healthy", !.tools = th[t].list,
                            !.gen = @ + 1]
            /\ Announce(th[t].list)
            /\ th' = [th EXCEPT ![t].gen = entry.gen + 1, ![t].at = "register"]
       ELSE Goes(t, "fail") /\ UNCHANGED <<entry, persists>>
    /\ UNCHANGED <<slot, conn, ck, reg, lost, srv, db, calls, faults>>

\* failConnectAttempt, under the lock.
FailConnectAttempt(t) ==
    /\ At(t, "fail")
    /\ entry' = IF entry.ptr = th[t].ptr /\ entry.state # "disabled"
                THEN [entry EXCEPT !.conn = None, !.gen = @ + 1,
                          !.state = IF th[t].reauth THEN "needs_reauth" ELSE "unstable"]
                ELSE entry
    /\ Goes(t, "closeboth")
    /\ UNCHANGED <<slot, conn, ck, reg, world>>

\* failConnectAttempt, after the lock.
CloseBoth(t) ==
    /\ At(t, "closeboth")
    /\ conn' = Closing({th[t].new, th[t].prev})
    /\ th' = [th EXCEPT ![t].new = None, ![t].prev = None, ![t].at = "failed"]
    /\ UNCHANGED <<entry, slot, ck, reg, world>>

\* What the callers do when connectToMCPClient fails: AddClient deletes the
\* entry, UpdateClientCredentials restores the configuration it replaced,
\* EnableClient and UpdateClient have a checker recover the client.
ConnectFailed(t) ==
    LET k == th[t].kind
        final == Present /\ entry.state \in (IF k = "enable" THEN {"disabled"} ELSE Authoritative)
    IN
    /\ At(t, "failed")
    /\ \/ k = "reconnect" /\ Return(t) /\ UNCHANGED entry
       \/ /\ k = "creds" /\ Return(t)
          /\ entry' = IF Present THEN [entry EXCEPT !.cfg = th[t].old] ELSE entry
       \/ k = "add" /\ entry' = NoEntry /\ Return(t)
       \/ /\ k = "boot" /\ entry' = NoEntry /\ slot' = None
          /\ Goes(t, "park")
       \/ /\ k \in {"enable", "update"}
          /\ entry' = IF Present /\ entry.state \notin Authoritative
                      THEN [entry EXCEPT !.state = "unstable"] ELSE entry
          /\ IF final THEN Return(t) ELSE Goes(t, "register") /\ UNCHANGED slot
    /\ UNCHANGED <<conn, ck, reg, world>>

\* connectConfiguredClients keeps a client whose boot dial failed.
ParkUnstable(t) ==
    /\ At(t, "park")
    /\ entry' = IF Present THEN [entry EXCEPT !.state = "unstable"]
                ELSE NewEntry("unstable", th[t].cfg)
    /\ Goes(t, "register")
    /\ UNCHANGED <<slot, conn, ck, reg, world>>

FreeCheckers == {c \in Checkers : ck[c] = Off /\ reg # c /\ \A t \in Threads : th[t].ck # c}

\* StartChecking under the registry's lock; an SSE connection gets its
\* connection-lost callback, bound to the generation of the swap.
Register(t) ==
    /\ At(t, "register")
    /\ \E c \in FreeCheckers :
          /\ ck' = [Stopped(reg) EXCEPT ![c].run = "made"]
          /\ reg' = c
          /\ th' = [th EXCEPT ![t].ck = c, ![t].at = "start"]
    /\ lost' = IF Transport = "sse" /\ th[t].new # None
               THEN lost \union {[conn |-> th[t].new, ptr |-> th[t].ptr, gen |-> th[t].gen]}
               ELSE lost
    /\ UNCHANGED <<entry, slot, conn, srv, db, persists, calls, faults>>

\* Start: nothing runs for a client that is gone.
StartChecker(t) ==
    /\ At(t, "start")
    /\ ck' = [ck EXCEPT ![th[t].ck].run = IF Present THEN "running" ELSE "off"]
    /\ Goes(t, "closeold")
    /\ UNCHANGED <<entry, slot, conn, reg, world>>

\* The previous connection is closed only now.
CloseOld(t) ==
    /\ At(t, "closeold")
    /\ conn' = Closing({th[t].prev})
    /\ Return(t)
    /\ UNCHANGED <<entry, ck, reg, world>>

(***************************************************************************)
(* The connection checker.                                                 *)
(***************************************************************************)

\* performCheck up to its network calls.  A sticky client without a
\* connection is reconnected by a goroutine.
PerformCheck(c) ==
    /\ ck[c].run = "running" /\ ck[c].at = "idle" /\ entry.state # "needs_reauth"
    /\ IF ~Present \/ entry.state = "disabled"
       THEN ck' = [ck EXCEPT ![c].run = "off"] /\ UNCHANGED th
       ELSE IF entry.conn # None \/ entry.cfg.perCall
       THEN /\ ck' = [ck EXCEPT ![c].at = "call", ![c].ptr = entry.ptr, ![c].gen = entry.gen,
                                ![c].conn = entry.conn]
            /\ UNCHANGED th
       ELSE /\ entry.gen < MaxGen
            /\ \E t \in Threads : /\ At(t, "idle")
                                  /\ th' = [th EXCEPT ![t].kind = "reconnect", ![t].at = "begin"]
            /\ UNCHANGED ck
    /\ UNCHANGED <<entry, slot, conn, reg, world>>

\* Ping and list_tools over the connection, or the discovery of a per-call
\* client.
CheckAnswers(c) ==
    /\ ck[c].at = "call" /\ (ck[c].conn # None => conn[ck[c].conn] = "open")
    /\ ck' = [ck EXCEPT ![c].list = srv, ![c].ok = TRUE, ![c].at = "write"]
    /\ UNCHANGED <<entry, slot, th, conn, reg, world>>

CheckFails(c) ==
    /\ ck[c].at = "call"
    /\ IF ck[c].conn # None /\ conn[ck[c].conn] # "open" THEN UNCHANGED faults ELSE Fault
    /\ ck' = [ck EXCEPT ![c].ok = FALSE, ![c].at = "mark"]
    /\ UNCHANGED <<entry, slot, th, conn, reg, lost, srv, db, persists, calls>>

WriteBackTools(c) ==
    /\ ck[c].at = "write"
    /\ IF Present /\ entry.gen = ck[c].gen
       THEN /\ entry' = [Announced(entry, ck[c].list) EXCEPT !.tools = ck[c].list]
            /\ Announce(ck[c].list)
       ELSE UNCHANGED <<entry, persists>>
    /\ ck' = [ck EXCEPT ![c].at = "mark"]
    /\ UNCHANGED <<slot, th, conn, reg, lost, srv, db, calls, faults>>

\* Mutant: the result is written whatever became of the connection.
SetStateAnyGeneration(c) ==
    Present /\ entry.state \notin Authoritative

\* setState writes only for the generation that was checked, and never over
\* an authoritative state.
MayWrite(c) ==
    Present /\ entry.gen = ck[c].gen /\ entry.state \notin Authoritative

SetState(c) ==
    /\ ck[c].at = "mark"
    /\ entry' = IF MayWrite(c)
                THEN [entry EXCEPT !.state = IF ck[c].ok THEN "healthy" ELSE "unstable"]
                ELSE entry
    /\ ck' = [ck EXCEPT ![c] = [Off EXCEPT !.run = ck[c].run]]
    /\ UNCHANGED <<slot, th, conn, reg, world>>

\* The library reports the loss, or the closing, of an SSE connection.
HandleSSEConnectionLost(l) ==
    /\ conn[l.conn] # "open"
    /\ entry' = IF Present /\ entry.gen = l.gen /\ entry.state \notin Authoritative
                THEN [entry EXCEPT !.state = "unstable"] ELSE entry
    /\ lost' = lost \ {l}
    /\ UNCHANGED <<slot, th, conn, ck, reg, srv, db, persists, calls, faults>>

(***************************************************************************)
(* The servers and the store.                                              *)
(***************************************************************************)

\* The server of an open connection goes away.
ConnectionDies(x) ==
    /\ conn[x] = "open" /\ Fault
    /\ conn' = [conn EXCEPT ![x] = "dead"]
    /\ UNCHANGED <<entry, slot, th, ck, reg, lost, srv, db, persists, calls>>

ServerChanges(tools) ==
    /\ calls < MaxCalls /\ tools # srv
    /\ srv' = tools /\ calls' = calls + 1
    /\ UNCHANGED <<memory, lost, db, persists, faults>>

\* PersistMCPClientTools: a failure is only logged.
PersistMCPClientTools(list) ==
    /\ persists' = persists \ {list}
    /\ \/ db' = list /\ UNCHANGED faults
       \/ Fault /\ UNCHANGED db
    /\ UNCHANGED <<memory, lost, srv, calls>>

(***************************************************************************)
(* Specification.                                                          *)
(***************************************************************************)

Proceeds(t) ==
    \/ Begin(t) \/ Verify(t) \/ RemoveClient(t)
    \/ \E cfg \in AddConfigs : AddClient(t, cfg)
    \/ ParkPending(t) \/ AddSticky(t) \/ Discover(t) \/ SetClientTools(t)
    \/ \E restored \in {{}, db} : AddPerCall(t, restored)
    \/ CloseAndMarkNeedsReauth(t) \/ DisableClient(t) \/ EnableClient(t) \/ EnablePerCall(t)
    \/ ReconnectClient(t) \/ UpdateClientCredentials(t) \/ Unwatch(t)
    \/ \E edit \in EditConfigs : UpdateClient(t, edit)
    \/ ConnectLock(t) \/ CloseFirst(t) \/ DialFails(t) \/ DialShortCircuited(t) \/ Swap(t)
    \/ \E x \in Conns : Dial(t, x)
    \/ FailConnectAttempt(t) \/ CloseBoth(t) \/ ConnectFailed(t) \/ ParkUnstable(t)
    \/ Register(t) \/ StartChecker(t) \/ CloseOld(t)

Checks(c) ==
    PerformCheck(c) \/ CheckAnswers(c) \/ CheckFails(c) \/ WriteBackTools(c) \/ SetState(c)

Next ==
    \/ \E t \in Threads : Proceeds(t) \/ \E k \in Kinds : Request(t, k)
    \/ \E c \in Checkers : Checks(c)
    \/ \E l \in lost : HandleSSEConnectionLost(l)
    \/ \E x \in Conns : ConnectionDies(x)
    \/ \E tools \in SUBSET Tools : ServerChanges(tools)
    \/ \E list \in persists : PersistMCPClientTools(list)

Spec == Init /\ [][Next]_vars

\* A call goes on, the timer of a running checker fires, and a persisting
\* goroutine runs: nothing blocks them but network calls with a timeout.
FairSpec ==
    /\ Spec
    /\ \A t \in Threads : WF_vars(Proceeds(t))
    /\ \A c \in Checkers : WF_vars(Checks(c))
    /\ WF_vars(\E list \in persists : PersistMCPClientTools(list))

(***************************************************************************)
(* Properties.                                                             *)
(***************************************************************************)

States == {"absent", "new", "pending", "healthy", "unstable", "needs_reauth", "disabled"}
Quiet == \A t \in Threads : At(t, "idle")

\* Types, the slot held exactly by a thread inside an exclusive operation,
\* and no connection in a disabled or per-call entry.
TypeOK ==
    /\ entry.state \in States /\ entry.conn \in Conns \union {None} /\ entry.gen \in Nat
    /\ (entry.ptr = 0) <=> (entry.state = "absent")
    /\ entry.tools \subseteq Tools /\ srv \subseteq Tools /\ db \subseteq Tools
    /\ slot \in Threads \union {None} /\ reg \in Checkers \union {None}
    /\ conn \in [Conns -> {"open", "dead", "closed"}]
    /\ \A t \in Threads : At(t, "dial") => slot = t
    /\ entry.state = "disabled" \/ entry.cfg.perCall => entry.conn = None
    /\ calls \in 0..MaxCalls /\ faults \in 0..MaxFaults

\* Every connection that is not closed is the entry's own or is in the hands
\* of a call that will close it: removal, disabling and failed dials leak
\* none (connectToMCPClient, "to prevent transport/goroutine leaks").
NoLeakedConnection ==
    \A x \in Conns : conn[x] # "closed" =>
        entry.conn = x \/ \E t \in Threads : x \in {th[t].new, th[t].prev}

\* A client over STDIO never has two processes at a time, also when it is
\* removed and added again during a dial (connectToMCPClient, "Two
\* subprocesses coexisting during the dial would double resource use and
\* break servers holding exclusive resources").
OneProcess ==
    Transport = "stdio" => Cardinality({x \in Conns : conn[x] # "closed"}) <= 1

\* A client never has two running checkers (StartChecking, "no leaked
\* duplicate timers").
OneChecker == Cardinality({c \in Checkers : ck[c].run = "running"}) <= 1

\* When no call is under way, a live client has a running checker, which
\* keeps its tools current and reconnects it.
Watched ==
    Quiet /\ entry.state \in {"healthy", "unstable"} => reg # None /\ ck[reg].run = "running"

\* When no call is under way, the state and the configuration agree on
\* whether the client is disabled: connectToMCPClient stays away from a
\* disabled client only if both say so.
DisabledAgrees ==
    Quiet /\ Present => (entry.state = "disabled" <=> entry.cfg.disabled)

\* DisableClient is authoritative: nothing but EnableClient makes a disabled
\* client live again.
StaysDisabled ==
    entry.state = "disabled" /\ entry'.ptr = entry.ptr /\ entry'.state # "disabled"
        => \E t \in Threads : th[t].kind = "enable" /\ slot = t

\* Not what the code does (README, disagreements).
DisabledKept == [][StaysDisabled]_vars

\* Only new credentials take a client out of needs_reauth (performCheck,
\* "only an explicit reauthorize (or a direct UpdateClientCredentials
\* success) moves this out").
\* Not what the code does (README, disagreements).
NeedsReauthKept ==
    [][entry.state = "needs_reauth" /\ entry'.ptr = entry.ptr
          /\ entry'.state \notin Authoritative
          => \E t \in Threads : th[t].kind = "creds" /\ slot = t]_vars

\* What a check or a lost connection writes to the entry is about the client
\* and the connection the entry still has: results for a replaced one are
\* dropped (writeBackTools, setState, handleSSEConnectionLost).
WritesFreshResults ==
    /\ \A c \in Checkers :
          ck[c].at \in {"write", "mark"} /\ ck'[c].at # ck[c].at /\ entry' # entry
          => entry.ptr = ck[c].ptr /\ entry.conn \in {ck[c].conn, None}
    /\ \A l \in lost \ lost' :
          entry' # entry => entry.ptr = l.ptr /\ entry.conn = l.conn

\* Not what the code does (README, disagreements).
StaleResultsDropped == [][WritesFreshResults]_vars

\* A client that was removed stays removed until it is added again.
\* Not what the code does (README, disagreements).
RemovedStaysRemoved ==
    [][~Present /\ entry'.ptr # 0
          => \E t \in Threads : th[t].kind \in {"add", "boot"} /\ th'[t] # th[t]]_vars

\* A sticky client without a connection gets one again, once dials succeed
\* (ConnectConfiguredClients, "a connection checker that recovers it
\* automatically").
Recovers ==
    (entry.state = "unstable" /\ entry.conn = None)
        ~> (entry.state # "unstable" \/ entry.conn # None)

\* A connection whose server is gone is replaced (ClientConnectionChecker,
\* "A failure here also triggers a background reconnect").
\* Not what the code does (README, disagreements).
DeadReplaced ==
    \A x \in Conns : (entry.conn = x /\ conn[x] = "dead") ~> (entry.conn # x)

\* In the end, the tools of a client are the persisted ones
\* (PersistMCPClientTools, "the next discovery event ... tries again").
\* Not what the code does (README, disagreements).
ToolsPersisted ==
    <>[](entry.state = "healthy" /\ Quiet => db = entry.tools)
=============================================================================

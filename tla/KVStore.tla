------------------------------ MODULE KVStore ------------------------------
(***************************************************************************)
(* The in-memory key-value store (framework/kvstore/kvstore.go) on one     *)
(* key: the operations of goroutines on several nodes, expiry, and the     *)
(* replication the store offers to a SyncDelegate.  The delegate and its   *)
(* network are not in the repository; they deliver what OnSet and OnDelete *)
(* are given to every other node, in any order and perhaps twice.          *)
(***************************************************************************)
EXTENDS Integers, FiniteSets, FiniteSetsExt

CONSTANTS
    Nodes,
    Procs,        \* goroutines; each performs one operation, and its name is what it writes
    Home,         \* Home[p]: the node of p
    Op,           \* Op[p]: "set", "setnx", "take" (GetAndDelete) or "delete"
    TTLs,         \* 0: no expiration
    MaxTime,      \* bound on the clock
    Serialized,   \* a goroutine is not overtaken between reading the clock and its update
    Duplicates    \* messages may be delivered twice

KVAssumption ==
    /\ \A p \in Procs : Home[p] \in Nodes /\ Op[p] \in {"set", "setnx", "take", "delete"}
    /\ TTLs \subseteq Nat /\ MaxTime \in Nat /\ {Serialized, Duplicates} \subseteq BOOLEAN
    /\ Procs \cap {"none", "ok", "no"} = {}

VARIABLES
    clock,
    data,   \* data[n]: the entry of the key on node n, or Nothing
    proc,   \* proc[p]: where the goroutine is, the time it read, its expiry, its result;
            \* when is history, the time of its update
    net     \* messages on their way

vars == <<clock, data, proc, net>>

Nothing == [val |-> "none", at |-> 0, exp |-> 0]
Entry(p) == [val |-> p, at |-> proc[p].now, exp |-> proc[p].exp]

Init ==
    /\ clock = 1 /\ net = {}
    /\ data = [n \in Nodes |-> Nothing]
    /\ proc = [p \in Procs |-> [at |-> "idle", now |-> 0, exp |-> 0, got |-> "none", when |-> 0]]

IsExpired(e, now) == e # Nothing /\ e.exp # 0 /\ now >= e.exp

\* The clock is read before the lock is taken.  Nanoseconds: no two readings are equal.
Stamp(p) ==
    /\ proc[p].at = "idle" /\ clock < MaxTime
    /\ Serialized => \A q \in Procs : Home[q] = Home[p] => proc[q].at # "stamped"
    /\ \E ttl \in IF Op[p] \in {"set", "setnx"} THEN TTLs ELSE {0} :
         proc' = [proc EXCEPT ![p] = [at |-> "stamped", now |-> clock, got |-> "none", when |-> 0,
                                      exp |-> IF ttl > 0 THEN clock + ttl ELSE 0]]
    /\ clock' = clock + 1
    /\ UNCHANGED <<data, net>>

\* The update under the lock, and the goroutine's result; a replicated change is told next.
Update(p, e, got, tell) ==
    /\ data' = [data EXCEPT ![Home[p]] = e]
    /\ proc' = [proc EXCEPT ![p].at = IF tell THEN "tell" ELSE "done", ![p].got = got,
                             ![p].when = clock]
    /\ UNCHANGED <<clock, net>>

SetWithTTL(p) ==
    /\ proc[p].at = "stamped" /\ Op[p] = "set"
    /\ Update(p, Entry(p), "ok", TRUE)

Vacant(e, now) == e = Nothing \/ IsExpired(e, now)

SetNXWithTTL(p) ==
    /\ proc[p].at = "stamped" /\ Op[p] = "setnx"
    /\ LET e == data[Home[p]] IN
         IF Vacant(e, proc[p].now) THEN Update(p, Entry(p), "ok", TRUE)
         ELSE Update(p, e, "no", FALSE)

GetAndDelete(p) ==
    /\ proc[p].at = "stamped" /\ Op[p] = "take"
    /\ LET e == data[Home[p]] IN
         IF e = Nothing \/ IsExpired(e, proc[p].now) THEN Update(p, Nothing, "no", FALSE)
         ELSE Update(p, Nothing, e.val, TRUE)

Delete(p) ==
    /\ proc[p].at = "stamped" /\ Op[p] = "delete"
    /\ IF data[Home[p]] = Nothing THEN Update(p, Nothing, "no", FALSE)
       ELSE Update(p, Nothing, "ok", TRUE)

\* OnSet or OnDelete, after the lock was released.
Tell(p) ==
    /\ proc[p].at = "tell"
    /\ proc' = [proc EXCEPT ![p].at = "done"]
    /\ net' = net \cup {[to |-> n, set |-> Op[p] \in {"set", "setnx"},
                         e |-> IF Op[p] \in {"set", "setnx"} THEN Entry(p)
                               ELSE [Nothing EXCEPT !.at = proc[p].now]]
                          : n \in Nodes \ {Home[p]}}
    /\ UNCHANGED <<clock, data>>

\* Mutant: what arrives last wins.
NewerNever(e, m) == FALSE

\* Mutant: what is there stays.
NewerAlways(e, m) == e # Nothing

\* The local entry was written after what arrives.
Newer(e, m) == e # Nothing /\ e.at > m.at

\* SetRemote and DeleteRemote.
Deliver(m) ==
    /\ Serialized => \A p \in Procs : Home[p] = m.to => proc[p].at # "stamped"
    /\ net' \in IF Duplicates THEN {net, net \ {m}} ELSE {net \ {m}}
    /\ data' = IF Newer(data[m.to], m.e) THEN data
               ELSE [data EXCEPT ![m.to] = IF m.set THEN m.e ELSE Nothing]
    /\ UNCHANGED <<clock, proc>>

\* cleanupExpired, and the deletion in Get, which looks again under the lock.
CleanupExpired(n) ==
    /\ IsExpired(data[n], clock)
    /\ data' = [data EXCEPT ![n] = Nothing]
    /\ UNCHANGED <<clock, proc, net>>

Tick == clock < MaxTime /\ clock' = clock + 1 /\ UNCHANGED <<data, proc, net>>

Operate(p) == SetWithTTL(p) \/ SetNXWithTTL(p) \/ GetAndDelete(p) \/ Delete(p) \/ Tell(p)

Next ==
    \/ \E p \in Procs : Stamp(p) \/ Operate(p)
    \/ \E m \in net : Deliver(m)
    \/ \E n \in Nodes : CleanupExpired(n)
    \/ Tick

Spec == Init /\ [][Next]_vars

\* The cleanup loop runs.
FairSpec == Spec /\ \A n \in Nodes : WF_vars(CleanupExpired(n))
-----------------------------------------------------------------------------
(* Properties                                                              *)

\* The shape of the state; a node holds an entry somebody wrote, with its own times.
TypeOK ==
    /\ clock \in 1..MaxTime
    /\ \A n \in Nodes : data[n] = Nothing \/ \E p \in Procs : data[n] = Entry(p)
    /\ \A p \in Procs : proc[p].at \in {"idle", "stamped", "tell", "done"}
    /\ \A m \in net : m.to \in Nodes

Visible(n) == IF IsExpired(data[n], clock) THEN Nothing ELSE data[n]
Quiet == net = {} /\ \A p \in Procs : proc[p].at \in {"idle", "done"}

\* Last write wins: when everything is delivered, all nodes hold the same entry.
Converged == Quiet => \A m, n \in Nodes : Visible(m) = Visible(n)

\* It is the write with the latest time.
NewestWins ==
    Quiet => \A n \in Nodes, p \in Procs :
        proc[p].at = "done" /\ proc[p].got = "ok" => data[n].at >= proc[p].now

\* An entry is never replaced by an older one, in whatever order writes arrive.
OnlyNewer ==
    \A n \in Nodes : data[n] # Nothing /\ data'[n] # Nothing => data'[n].at >= data[n].at

NeverOlder == [][OnlyNewer]_vars

\* A value that was stored once is handed out by GetAndDelete once.
TakenOnce ==
    \A p, q \in Procs : /\ Op[p] = "take" /\ Op[q] = "take" /\ p # q
                        /\ proc[p].got \in Procs
                        => proc[p].got # proc[q].got

\* Two SetNX that both succeed on one node succeed for different times: one had expired when
\* the other came, or was deleted in between.
NXExclusive ==
    \A p, q \in Procs :
        /\ p # q /\ Home[p] = Home[q] /\ Op[p] = "setnx" /\ Op[q] = "setnx"
        /\ proc[p].got = "ok" /\ proc[q].got = "ok"
        => \/ proc[p].exp # 0 /\ proc[q].when >= proc[p].exp
           \/ proc[q].exp # 0 /\ proc[p].when >= proc[q].exp
           \/ \E t \in Procs : proc[t].got \in {p, q} \/ (Op[t] = "delete" /\ proc[t].got = "ok")

\* An expired entry does not stay.
ExpiredGoes ==
    \A n \in Nodes : IsExpired(data[n], clock) ~> ~IsExpired(data[n], clock)
=============================================================================

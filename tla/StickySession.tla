--------------------------- MODULE StickySession ---------------------------
(***************************************************************************)
(* Session stickiness of selectKeyFromProviderForModel (core/bifrost.go):  *)
(* the requests of one session agree on a provider key by way of one entry *)
(* of the key-value store.  Every call of the store is a step; expiry is   *)
(* relative, the entry has a number of ticks left.                         *)
(***************************************************************************)
EXTENDS Integers, FiniteSets

CONSTANTS
    Requests,
    Keys,       \* keys of the provider
    TTL,
    Expiring,   \* time passes
    Removable   \* keys may be disabled or removed at runtime

StickyAssumption ==
    /\ TTL \in Nat \ {0} /\ {Expiring, Removable} \subseteq BOOLEAN /\ Cardinality(Keys) > 1

VARIABLES
    cell,    \* the entry of the session: key and ticks left, or Absent
    keys,    \* the keys that are in service
    req,     \* req[r]: step, keys it found supported, key it read or selected, answer
    served   \* history: the keys finished requests got since the entry was last meant to be
             \* forgotten (it expired, or its key went out of service)

vars == <<cell, keys, req, served>>

Absent == [key |-> "none", left |-> 0]

Init ==
    /\ cell = Absent /\ keys = Keys /\ served = {}
    /\ req = [r \in Requests |-> [at |-> "idle", mine |-> {}, key |-> "none"]]

Goto(r, at, key) == req' = [req EXCEPT ![r].at = at, ![r].key = key]
Finish(r, key) == Goto(r, "done", key) /\ served' = served \cup ({key} \cap keys)
Step(r, at) == req[r].at = at

\* The supported keys are computed once, at the start; with one key there is no stickiness.
Begin(r) ==
    /\ Step(r, "idle") /\ Cardinality(keys) > 1
    /\ req' = [req EXCEPT ![r].at = "lookup", ![r].mine = keys]
    /\ UNCHANGED <<cell, keys, served>>

\* getCachedKeyFromStore: found, stale or missing.
Lookup(r) ==
    /\ Step(r, "lookup")
    /\ \/ cell = Absent /\ Goto(r, "select", "none")
       \/ cell # Absent /\ cell.key \in req[r].mine /\ Goto(r, "refresh", cell.key)
       \/ cell # Absent /\ cell.key \notin req[r].mine /\ Goto(r, "drop", "none")
    /\ UNCHANGED <<cell, keys, served>>

Refresh(r) ==
    /\ Step(r, "refresh")
    /\ cell' = [key |-> req[r].key, left |-> TTL]
    /\ Finish(r, req[r].key)
    /\ UNCHANGED keys

\* The stale entry is deleted, whatever it is by now.
Drop(r) ==
    /\ Step(r, "drop")
    /\ cell' = Absent
    /\ Goto(r, "select", "none")
    /\ UNCHANGED <<keys, served>>

Select(r) ==
    /\ Step(r, "select")
    /\ \E k \in req[r].mine : Goto(r, "claim", k)
    /\ UNCHANGED <<cell, keys, served>>

\* Mutant: the entry is overwritten.
ClaimAnyway(r) ==
    /\ Step(r, "claim")
    /\ cell' = [key |-> req[r].key, left |-> TTL] /\ Finish(r, req[r].key)
    /\ UNCHANGED keys

\* SetNXWithTTL.
Claim(r) ==
    /\ Step(r, "claim")
    /\ IF cell = Absent
       THEN cell' = [key |-> req[r].key, left |-> TTL] /\ Finish(r, req[r].key)
       ELSE Goto(r, "reread", req[r].key) /\ UNCHANGED <<cell, served>>
    /\ UNCHANGED keys

\* Another request won: its key is used, unless it is not supported here, or gone.
Reread(r) ==
    /\ Step(r, "reread")
    /\ IF cell # Absent /\ cell.key \in req[r].mine
       THEN Finish(r, cell.key) /\ UNCHANGED cell
       ELSE Finish(r, req[r].key) /\ cell' = Absent
    /\ UNCHANGED keys

\* The next request of the session.
Again(r) ==
    /\ Step(r, "done")
    /\ req' = [req EXCEPT ![r] = [at |-> "idle", mine |-> {}, key |-> "none"]]
    /\ UNCHANGED <<cell, keys, served>>

\* A key goes out of service; what was chosen before may be forgotten then.
Remove(k) ==
    /\ Removable /\ k \in keys /\ keys' = keys \ {k}
    /\ served' = IF k \in served THEN {} ELSE served
    /\ UNCHANGED <<cell, req>>

Tick ==
    /\ Expiring /\ cell # Absent
    /\ IF cell.left > 1 THEN cell' = [cell EXCEPT !.left = @ - 1] /\ UNCHANGED served
       ELSE cell' = Absent /\ served' = {}
    /\ UNCHANGED <<keys, req>>

Serve(r) == Lookup(r) \/ Refresh(r) \/ Drop(r) \/ Select(r) \/ Claim(r) \/ Reread(r)

Next ==
    \/ \E r \in Requests : Begin(r) \/ Serve(r) \/ Again(r)
    \/ \E k \in Keys : Remove(k)
    \/ Tick

Spec == Init /\ [][Next]_vars
-----------------------------------------------------------------------------
(* Properties                                                              *)

\* The shape of the state.
TypeOK ==
    /\ cell = Absent \/ (cell.key \in Keys /\ cell.left \in 1..TTL)
    /\ keys \subseteq Keys /\ served \subseteq Keys
    /\ \A r \in Requests : req[r].mine \subseteq Keys /\ req[r].key \in Keys \cup {"none"}

\* The requests of a session use one key as long as the entry lives and its key is in service.
OneKeyPerSession == Cardinality(served) <= 1

\* What the next request will find is what the last ones got.
EntryIsServed == cell # Absent /\ served # {} => cell.key \in served

\* A request ends with a key that was in service when it began.
AnswerSupported == \A r \in Requests : req[r].at = "done" => req[r].key \in req[r].mine
=============================================================================

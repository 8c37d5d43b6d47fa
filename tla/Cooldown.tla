------------------------------ MODULE Cooldown ------------------------------
(***************************************************************************)
(* The cooldown marks of one provider's keys                               *)
(* (plugins/providercooldown/cooldown.go): what a mark records, which keys *)
(* it suppresses, and how marks go away.  KeyRotation composes this with   *)
(* the requests that read and write the marks.                             *)
(*                                                                         *)
(* Time is counted in whole seconds.  The counters of the monitoring page  *)
(* are left out.                                                           *)
(***************************************************************************)
EXTENDS Naturals, FiniteSets, FiniteSetsExt

CONSTANTS
    Keys,         \* the provider's keys
    Models,       \* models the requests ask for
    AllModels,    \* the model part of a mark of key granularity
    Ttl,          \* Ttl[kind]: seconds a policy rule cools
    Scope,        \* Scope[kind]: "key" or "model"
    MaxTime       \* bound: the clock

Kinds == {"rate_limit", "quota"}

CooldownAssumption ==
    /\ AllModels \notin Models
    /\ Ttl \in [Kinds -> Nat \ {0}]
    /\ Scope \in [Kinds -> {"key", "model"}]
    /\ MaxTime \in Nat

VARIABLES
    cooldowns,    \* cooldowns[e]: when entry e expires; 0 when there is none
    now           \* the clock

Entries == Keys \X (Models \cup {AllModels})

\* The entries a request for model m consults for key k.
EntriesFor(k, m) == {<<k, AllModels>>, <<k, m>>}

CooldownInit == cooldowns = [e \in Entries |-> 0] /\ now = 0

Recorded(e) == cooldowns[e] # 0
Active(e) == now < cooldowns[e]
Expired(e) == Recorded(e) /\ ~Active(e)

\* lookupSuppressed.
Suppressed(k, m) == \E e \in EntriesFor(k, m) : Active(e)

\* The expiry lookupSuppressed reports: that of the key's mark, if it has one.
ReportedExpiry(k, m) ==
    IF Active(<<k, AllModels>>) THEN cooldowns[<<k, AllModels>>] ELSE cooldowns[<<k, m>>]

ShortestRemainingCooldown(keys, m) ==
    LET remaining == {ReportedExpiry(k, m) - now : k \in {k \in keys : Suppressed(k, m)}}
    IN  IF remaining = {} THEN 0 ELSE Min(remaining)

MarkKey(k, m, kind) == <<k, IF Scope[kind] = "model" THEN m ELSE AllModels>>

MarkWithTTL(k, m, kind) ==
    cooldowns' = [cooldowns EXCEPT ![MarkKey(k, m, kind)] = now + Ttl[kind]]

\* Mutant: what was seen expired is deleted without a second look.
PruneBlindly(entries) ==
    cooldowns' = [e \in Entries |-> IF e \in entries THEN 0 ELSE cooldowns[e]]

\* The second, locked half of a lookup that found expired entries.
Prune(entries) ==
    cooldowns' = [e \in Entries |-> IF e \in entries /\ Expired(e) THEN 0 ELSE cooldowns[e]]

-----------------------------------------------------------------------------

RunGC ==
    /\ \E e \in Entries : Expired(e)
    /\ Prune(Entries)
    /\ UNCHANGED now

ClearKey(e) ==
    /\ Recorded(e)
    /\ cooldowns' = [cooldowns EXCEPT ![e] = 0]
    /\ UNCHANGED now

Tick ==
    /\ now < MaxTime
    /\ now' = now + 1
    /\ UNCHANGED cooldowns
=============================================================================

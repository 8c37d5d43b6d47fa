------------------------------- MODULE MCKeys -------------------------------
(***************************************************************************)
(* What decides on the key of a request: the cache of virtual keys, the    *)
(* rotation over provider keys with their cooldown marks, and the key a    *)
(* session sticks to.  A behaviour stays in the scene it starts in; the    *)
(* components of the other scenes rest.                                    *)
(***************************************************************************)
EXTENDS LRUCache, TLC

VARIABLES
    scene,
    pCooldowns, pNow, pReq, pPromised,              \* one request, three keys
    sCooldowns, sNow, sReq, sPromised,              \* two requests, two keys
    cell, keys, session, served                     \* the entry of a session

pvars == <<pCooldowns, pNow, pReq, pPromised>>
svars == <<sCooldowns, sNow, sReq, sPromised>>
kvars == <<cell, keys, session, served>>

\* The cache with room for every key (the constants of the run), or for one.
Tight == INSTANCE LRUCache WITH Capacity <- 1

Seconds(limited, quota) == [rate_limit |-> limited, quota |-> quota]

\* Any sequence of answers to one request with three keys and three retries.
Rotation == INSTANCE KeyRotation WITH
    cooldowns <- pCooldowns, now <- pNow, req <- pReq, promised <- pPromised,
    Keys <- {"k1", "k2", "k3"}, Pool <- <<"k1", "k2", "k3">>, Models <- {"m"},
    AllModels <- "*", Requests <- {"r"}, None <- "none", Rotates <- TRUE,
    CooldownOn <- FALSE, MaxRetries <- 3, MaxTime <- 0, Ttl <- Seconds(1, 1),
    Scope <- [rate_limit |-> "key", quota |-> "key"],
    Outcomes <- {"ok", "bifrost", "permanent", "unclassified", "transient",
                 "rejected", "other"}

\* Two requests that share the marks of two keys.
Shared == INSTANCE KeyRotation WITH
    cooldowns <- sCooldowns, now <- sNow, req <- sReq, promised <- sPromised,
    Keys <- {"k1", "k2"}, Pool <- <<"k1", "k2">>, Models <- {"m"},
    AllModels <- "*", Requests <- {"q", "r"}, None <- "none", Rotates <- TRUE,
    CooldownOn <- TRUE, MaxRetries <- 1, MaxTime <- 2, Ttl <- Seconds(1, 1),
    Scope <- [rate_limit |-> "key", quota |-> "model"],
    Outcomes <- {"ok", "rate_limit"}

\* Two requests bound to one key.
Fixed == INSTANCE KeyRotation WITH
    cooldowns <- sCooldowns, now <- sNow, req <- sReq, promised <- sPromised,
    Keys <- {"k1", "k2"}, Pool <- <<"k1", "k2">>, Models <- {"m"},
    AllModels <- "*", Requests <- {"q", "r"}, None <- "none", Rotates <- FALSE,
    CooldownOn <- TRUE, MaxRetries <- 1, MaxTime <- 2, Ttl <- Seconds(1, 2),
    Scope <- [rate_limit |-> "key", quota |-> "model"],
    Outcomes <- {"ok", "permanent", "rate_limit", "quota", "transient"}

\* The requests of one session: keys in service, or coming and going.
Sticky == INSTANCE StickySession WITH
    req <- session, Requests <- {"q", "r", "s"}, Keys <- {"k1", "k2", "k3"},
    TTL <- 2, Expiring <- FALSE, Removable <- FALSE
Changing == INSTANCE StickySession WITH
    req <- session, Requests <- {"q", "r"}, Keys <- {"k1", "k2", "k3"},
    TTL <- 2, Expiring <- TRUE, Removable <- TRUE

ASSUME SceneAssumption ==
    /\ Rotation!CooldownAssumption /\ Rotation!RotationAssumption
    /\ Shared!CooldownAssumption /\ Shared!RotationAssumption
    /\ Fixed!CooldownAssumption /\ Fixed!RotationAssumption
    /\ Sticky!StickyAssumption /\ Changing!StickyAssumption
-----------------------------------------------------------------------------
CONSTANT Scenes

Rotating == scene \in {"rotation", "shared", "fixed"}
Sticking == scene \in {"sticky", "changing"}

Symmetry == Permutations(Readers)

\* Two lookups of any keys; or one key and one row only, looked up three times: a verdict on
\* a value that is replaced meanwhile.
TwoLookups == lookups' <= 2
TheKey == CHOOSE k \in Keys : TRUE
TheRow == CHOOSE r \in Rows : TRUE
OneKey ==
    /\ \A d \in Readers : reader'[d].key \in {None, TheKey}
    /\ \A r \in Rows : at'[r] \in {None, TheKey} /\ (ver'[r] > 0 => r = TheRow)

\* The resting components have one initial state.
MCInit ==
    /\ scene \in Scenes
    /\ Init /\ Rotation!Init /\ Shared!Init /\ Sticky!Init
    /\ scene = "one" => \A r \in Rows : at[r] # None => r = TheRow /\ at[r] = TheKey
    /\ scene \notin {"tight", "roomy", "one"} => \A r \in Rows : at[r] = None
    /\ scene # "rotation" => ~pReq["r"].cipher

MCNext ==
    /\ UNCHANGED scene
    /\ \/ scene = "tight" /\ Tight!Next /\ TwoLookups /\ UNCHANGED <<pvars, svars, kvars>>
       \/ scene = "roomy" /\ Next /\ TwoLookups /\ UNCHANGED <<pvars, svars, kvars>>
       \/ scene = "one" /\ Next /\ OneKey /\ UNCHANGED <<pvars, svars, kvars>>
       \/ scene = "rotation" /\ Rotation!Next /\ UNCHANGED <<vars, svars, kvars>>
       \/ scene = "shared" /\ Shared!Next /\ UNCHANGED <<vars, pvars, kvars>>
       \/ scene = "fixed" /\ Fixed!Next /\ UNCHANGED <<vars, pvars, kvars>>
       \/ scene = "sticky" /\ Sticky!Next /\ UNCHANGED <<vars, pvars, svars>>
       \/ scene = "changing" /\ Changing!Next /\ UNCHANGED <<vars, pvars, svars>>

MCSpec == MCInit /\ [][MCNext]_<<scene, vars, pvars, svars, kvars>>
-----------------------------------------------------------------------------
\* LRUCache, OrderExact, with room for every key and where the cache overflows.
RecencyExact == OrderExact /\ (scene = "tight" => Tight!OrderExact)

\* KeyRotation: dead keys stay dead, keys take turns within the budget of attempts,
\* and the request is refused, backed off and recorded as what happened.
RotationSound ==
    /\ Rotating => /\ Rotation!TypeOK /\ Shared!TypeOK
                   /\ Rotation!DeadKeysStayDead /\ Shared!DeadKeysStayDead
                   /\ Rotation!KeysTakeTurns /\ Rotation!BackoffExact
                   /\ Rotation!RotationRecorded /\ Shared!RotationRecorded
                   /\ Rotation!AttemptBudget /\ Shared!AttemptBudget
                   /\ Rotation!SelectedKeyServed /\ Shared!SelectedKeyServed
    /\ scene = "rotation" => Rotation!RefusalExact
    /\ scene = "shared" => Shared!RefusalExact
    /\ scene = "fixed" => Fixed!RefusalExact

\* KeyRotation, CooledIsSkipped.
SkippedWhenCooled == [][Rotating => Shared!CooledSkipped]_svars

\* StickySession: answers use a key in service; and one key per session, which its
\* entry names, while keys stay and entries last.
SessionKept ==
    /\ Sticking => Sticky!TypeOK /\ Sticky!AnswerSupported
    /\ scene = "sticky" => Sticky!OneKeyPerSession /\ Sticky!EntryIsServed
=============================================================================

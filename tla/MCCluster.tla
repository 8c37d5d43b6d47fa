----------------------------- MODULE MCCluster -----------------------------
(***************************************************************************)
(* What nodes share: the distributed lock, and the replicated key-value    *)
(* store in two scenes.  A behaviour stays in the scene it starts in,      *)
(* while the other components rest in their initial state, so that the     *)
(* states of the scenes add up and do not multiply.                        *)
(***************************************************************************)
EXTENDS DistributedLock, TLC

CONSTANTS a, b, c, d, f, n1, n2, n3

VARIABLES
    scene,
    wClock, wData, wProc, wNet,     \* the store whose nodes write
    cClock, cData, cProc, cNet      \* the store whose goroutines compete

\* Three nodes write at the same time; messages are reordered and duplicated.
Writes == INSTANCE KVStore WITH
    clock <- wClock, data <- wData, proc <- wProc, net <- wNet,
    Nodes <- {n1, n2, n3}, Procs <- {a, b, c}, Home <- (a :> n1 @@ b :> n2 @@ c :> n3),
    Op <- [p \in {a, b, c} |-> "set"], TTLs <- {0}, MaxTime <- 4,
    Serialized <- TRUE, Duplicates <- TRUE

\* Goroutines of one node compete for a key that expires and may be deleted.
Claims == INSTANCE KVStore WITH
    clock <- cClock, data <- cData, proc <- cProc, net <- cNet,
    Nodes <- {n1, n2}, Procs <- {a, b, c, d, f}, Home <- [p \in {a, b, c, d, f} |-> n1],
    Op <- (a :> "setnx" @@ b :> "setnx" @@ c :> "take" @@ d :> "take" @@
           f :> "delete"),
    TTLs <- {0, 1}, MaxTime <- 4, Serialized <- FALSE, Duplicates <- FALSE

ASSUME SceneAssumption == Writes!KVAssumption /\ Claims!KVAssumption

wvars == <<wClock, wData, wProc, wNet>>
cvars == <<cClock, cData, cProc, cNet>>

MCInit == scene \in {"lock", "writes", "claims"} /\ Init /\ Writes!Init /\ Claims!Init

MCNext ==
    /\ UNCHANGED scene
    /\ \/ scene = "lock" /\ Next /\ UNCHANGED <<wvars, cvars>>
       \/ scene = "writes" /\ Writes!Next /\ UNCHANGED <<vars, cvars>>
       \/ scene = "claims" /\ Claims!Next /\ UNCHANGED <<vars, wvars>>

\* The fairness of both modules, for the scene's component.
MCSpec ==
    /\ MCInit /\ [][MCNext]_<<scene, vars, wvars, cvars>>
    /\ WF_vars(scene = "lock" /\ Tick)
    /\ \A h \in Holders : WF_vars(scene = "lock" /\ Locking(h))
    /\ \A n \in {n1, n2} : WF_cvars(scene = "claims" /\ Claims!CleanupExpired(n))
-----------------------------------------------------------------------------
\* KVStore: replicas converge to the latest write, whatever the order and number of
\* deliveries; two SetNX do not both hold the key, and what is taken is taken once.
StoreSound ==
    /\ scene # "lock" => Writes!TypeOK /\ Claims!TypeOK
    /\ scene = "writes" => Writes!Converged /\ Writes!NewestWins
    /\ scene = "claims" => Claims!NXExclusive /\ Claims!TakenOnce

\* KVStore: no entry is replaced by an older one.
NeverOlder == [][scene = "writes" => Writes!OnlyNewer]_wvars

\* DistributedLock and KVStore: calls return, the row a failed call leaves behind
\* expires, and so do entries.
LocksEnd == LockReturns /\ OrphanExpires /\ Claims!ExpiredGoes
=============================================================================

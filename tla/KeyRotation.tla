---------------------------- MODULE KeyRotation ----------------------------
(***************************************************************************)
(* The retry loop of a request and the choice of a key for each attempt    *)
(* (core/bifrost.go, executeRequestWithRetries and the keyProvider         *)
(* closures), for several requests that share the cooldown marks of module *)
(* Cooldown.                                                               *)
(*                                                                         *)
(* A filter looks keys up one at a time, in pool order; marks, prunings    *)
(* and the clock move between two lookups.  The upstream's answers are     *)
(* arbitrary.  The weighted choice among the filter's keys is arbitrary.   *)
(* Requests without a key (SkipKeySelection) are left out.                 *)
(***************************************************************************)
EXTENDS Cooldown, Sequences, Functions

CONSTANTS
    Pool,         \* the request's keys, in configuration order
    Rotates,      \* canRotate: a pool, or the fixed key Pool[1]
    Requests,     \* concurrent requests
    None,         \* no key
    MaxRetries,   \* NetworkConfig.MaxRetries
    CooldownOn,   \* the cooldown plugin's filter and marker are installed
    Outcomes      \* what the upstream may answer

Answers == {"ok", "bifrost", "permanent", "rate_limit", "quota", "unclassified",
            "transient", "rejected", "other"}

RotationAssumption ==
    /\ Range(Pool) = Keys /\ Pool # <<>> /\ None \notin Keys
    /\ Rotates \in BOOLEAN /\ CooldownOn \in BOOLEAN
    /\ MaxRetries \in Nat /\ Outcomes \subseteq Answers

VARIABLES
    req,          \* req[r]: request r's local state
    promised      \* history: until when entry e was promised to be cooled

vars == <<cooldowns, now, req, promised>>

Steps == {"start", "loop", "look", "prune", "attempt", "post", "done"}
Results == {"none", "ok", "failed", "no_eligible_keys", "credentials_exhausted"}
Attempt == [key : Keys, why : Answers \cup {"none"}, rotated : BOOLEAN, slept : BOOLEAN]

\* The shape of the state; during an attempt the last trail record is the attempt's.
TypeOK ==
    /\ cooldowns \in [Entries -> Nat] /\ promised \in [Entries -> Nat] /\ now \in 0..MaxTime
    /\ \A r \in Requests :
         /\ req[r].at \in Steps /\ req[r].result \in Results
         /\ req[r].model \in Models
         /\ req[r].todo \in Seq(Keys) /\ req[r].kept \subseteq Keys
         /\ req[r].expired \subseteq Entries
         /\ req[r].used \subseteq Keys /\ req[r].dead \subseteq Keys
         /\ {req[r].key, req[r].prev, req[r].selected} \subseteq Keys \cup {None}
         /\ req[r].attempts \in Nat /\ req[r].extra \in Nat
         /\ req[r].trail \in Seq(Attempt)
         /\ req[r].pending \in 0..Len(req[r].trail)
         /\ req[r].hint \in Nat
         /\ req[r].at = "attempt" => req[r].key = req[r].trail[Len(req[r].trail)].key

NewRequest(m, c) ==
    [at |-> "start", phase |-> "hook", model |-> m, cipher |-> c,
     todo |-> <<>>, kept |-> {}, expired |-> {},
     used |-> {}, dead |-> {}, key |-> None, prev |-> None, selected |-> None,
     attempts |-> 0, extra |-> 0, stripped |-> FALSE,
     perKey |-> FALSE, permanent |-> FALSE, strip |-> FALSE,
     pending |-> 0, trail |-> <<>>, hint |-> 0, result |-> "none"]

Init ==
    /\ CooldownInit
    /\ promised = [e \in Entries |-> 0]
    /\ req \in [Requests -> {NewRequest(m, c) : m \in Models, c \in {"rejected" \in Outcomes, FALSE}}]

Goto(r, q) == req' = [req EXCEPT ![r] = q]

\* The selected key is cleared on every error; the local state is gone.
Finish(q, result) ==
    [NewRequest(q.model, FALSE) EXCEPT
        !.at = "done", !.result = result, !.trail = q.trail, !.hint = q.hint,
        !.selected = IF result = "ok" THEN q.selected ELSE None]

-----------------------------------------------------------------------------
(* Filters.                                                                *)

PoolWithout(gone) == SelectSeq(Pool, LAMBDA k : k \notin gone)

\* The keys the filter of q's phase is given.
KeysFiltered(q) ==
    CASE q.phase = "hook" -> Pool
      [] q.phase = "fresh" -> PoolWithout(q.used \cup q.dead)
      [] q.phase = "reset" -> PoolWithout(q.dead)
      [] q.phase = "fixed" -> <<Pool[1]>>

Filter(q, phase) ==
    LET p == [q EXCEPT !.at = "look", !.phase = phase]
    IN  IF CooldownOn
        THEN [p EXCEPT !.todo = KeysFiltered(p), !.kept = {}]
        ELSE [p EXCEPT !.todo = <<>>, !.kept = Range(KeysFiltered(p))]

PreProviderHook(r) ==
    /\ req[r].at = "start"
    /\ Goto(r, IF CooldownOn THEN Filter(req[r], "hook") ELSE [req[r] EXCEPT !.at = "loop"])
    /\ UNCHANGED <<cooldowns, now, promised>>

\* One key's lookup.  Entries seen expired are deleted in a second step.
LookupKey(r) ==
    LET q == req[r]
        k == Head(q.todo)
        seen == IF Active(<<k, AllModels>>) THEN {}
                ELSE {e \in EntriesFor(k, q.model) : Expired(e)}
    IN  /\ q.at = "look" /\ q.todo # <<>>
        /\ Goto(r, [q EXCEPT !.todo = Tail(@),
                             !.kept = IF Suppressed(k, q.model) THEN @ ELSE @ \cup {k},
                             !.expired = seen,
                             !.at = IF seen = {} THEN "look" ELSE "prune"])
        /\ UNCHANGED <<cooldowns, now, promised>>

PruneSeen(r) ==
    /\ req[r].at = "prune"
    /\ Prune(req[r].expired)
    /\ Goto(r, [req[r] EXCEPT !.at = "look", !.expired = {}])
    /\ UNCHANGED <<now, promised>>

-----------------------------------------------------------------------------
(* The top of the retry loop.                                              *)

\* The attempt waiting to learn whether its failure rotated the key.
ConfirmRotation(q, k) ==
    IF q.pending # 0 /\ q.trail[q.pending].key # k
    THEN [q.trail EXCEPT ![q.pending].rotated = TRUE]
    ELSE q.trail

BacksOff(q, k) == q.attempts > 0 /\ ~((q.permanent /\ k # q.prev) \/ q.strip)

OpenAttempt(q, k) ==
    [q EXCEPT !.at = "attempt", !.key = k, !.kept = {},
              !.trail = Append(@, [key |-> k, why |-> "none", rotated |-> FALSE,
                                   slept |-> BacksOff(q, k)])]

Select(q, k) ==
    OpenAttempt([q EXCEPT !.selected = k, !.pending = 0, !.trail = ConfirmRotation(q, k)], k)

Loop(r) ==
    LET q == req[r]
    IN  /\ q.at = "loop"
        /\ Goto(r, CASE q.attempts # 0 /\ ~q.perKey -> OpenAttempt(q, q.key)
                     [] Rotates /\ (q.attempts = 0 \/ q.perKey) -> Filter(q, "fresh")
                     [] ~Rotates /\ (q.attempts = 0 \/ q.perKey) ->
                          IF Pool[1] \in q.dead
                          THEN Finish(q, "credentials_exhausted")
                          ELSE Filter(q, "fixed"))
        /\ UNCHANGED <<cooldowns, now, promised>>

\* The filter kept some keys: one of them is selected.
ChooseKey(r) ==
    LET q == req[r]
    IN  /\ q.at = "look" /\ q.todo = <<>> /\ q.kept # {}
        /\ IF q.phase = "hook"
           THEN Goto(r, [q EXCEPT !.at = "loop", !.kept = {}])
           ELSE \E k \in q.kept :
                  Goto(r, Select(IF q.phase = "reset" THEN [q EXCEPT !.used = {}] ELSE q, k))
        /\ UNCHANGED <<cooldowns, now, promised>>

\* The filter stamps the time to wait when it vetoed every key it was given.
RetryHint(q) ==
    LET rem == ShortestRemainingCooldown(Range(KeysFiltered(q)), q.model)
    IN  IF CooldownOn /\ rem > 0 THEN rem ELSE q.hint

Refusal(q) ==
    IF q.phase = "reset" /\ KeysFiltered(q) = <<>> THEN "credentials_exhausted" ELSE "no_eligible_keys"

\* The filter kept none: a second round over the live keys, or an error.
NoKey(r) ==
    LET q == [req[r] EXCEPT !.hint = RetryHint(req[r])]
    IN  /\ q.at = "look" /\ q.todo = <<>> /\ q.kept = {}
        /\ Goto(r, IF q.phase = "fresh" THEN Filter(q, "reset") ELSE Finish(q, Refusal(q)))
        /\ UNCHANGED <<cooldowns, now, promised>>

-----------------------------------------------------------------------------
(* The outcome of an attempt.                                              *)

PerKeyFailure(o) == o \in {"permanent", "rate_limit", "quota", "unclassified"}

\* The rejected ciphertext can be stripped from the request.
Strips(q, o) == o = "rejected" /\ q.cipher /\ ~q.stripped

ShouldRetry(q, o) == PerKeyFailure(o) \/ o = "transient" \/ Strips(q, o)

\* Mutant: the extra attempt does not count for the bound.
IsCandidateUnextended(q, o) == PerKeyFailure(o) /\ q.attempts < MaxRetries

\* The failed attempt may turn out to have rotated the key.
IsCandidate(q, o) == PerKeyFailure(o) /\ q.attempts < MaxRetries + q.extra

KeysDead(q, o) == IF o = "permanent" THEN q.dead \cup {q.key} ELSE q.dead

KeysUsed(q, o) == IF PerKeyFailure(o) /\ o # "permanent" THEN q.used \cup {q.key} ELSE q.used

\* What a failed attempt leaves behind.
Failed(q, o) ==
    LET f == [q EXCEPT !.trail[Len(q.trail)].why = o, !.strip = Strips(q, o),
                       !.stripped = @ \/ Strips(q, o),
                       !.extra = IF Strips(q, o) THEN @ + 1 ELSE @]
    IN  IF ~ShouldRetry(q, o) THEN f
        ELSE [f EXCEPT !.dead = KeysDead(q, o), !.used = KeysUsed(q, o),
                       !.perKey = PerKeyFailure(o), !.permanent = (o = "permanent"),
                       !.prev = q.key,
                       !.pending = IF IsCandidate(f, o) THEN Len(f.trail) ELSE @]

\* The loop is left with an error; post-hooks look at it when it is classified.
EndFailed(q, o) ==
    [Finish(q, "failed") EXCEPT !.at = IF CooldownOn /\ o \in Kinds THEN "post" ELSE "done"]

NextAttempt(q, o) ==
    IF ShouldRetry(q, o) /\ q.attempts < MaxRetries + Failed(q, o).extra
    THEN [Failed(q, o) EXCEPT !.at = "loop", !.attempts = @ + 1]
    ELSE EndFailed(Failed(q, o), o)

\* Success, a gateway error or a cancellation leaves the loop at once.
Settle(r, o) ==
    LET q == req[r]
    IN  /\ q.at = "attempt" /\ o \in Outcomes \cap {"ok", "bifrost"}
        /\ Goto(r, IF o = "ok" THEN Finish(q, "ok") ELSE EndFailed(q, o))
        /\ UNCHANGED <<cooldowns, now, promised>>

\* The marker: a rate-limited key is marked for other requests.
MarkFailure(q, o) ==
    IF CooldownOn /\ o \in Kinds
    THEN MarkWithTTL(q.key, q.model, o)
    ELSE UNCHANGED cooldowns

\* What the policy promises of a classified failure seen now.
Promise(q, o) ==
    IF CooldownOn /\ o \in Kinds
    THEN LET e == MarkKey(q.key, q.model, o)
         IN  promised' = [promised EXCEPT ![e] = Max({@, now + Ttl[o]})]
    ELSE UNCHANGED promised

Fail(r, o) ==
    LET q == req[r]
    IN  /\ q.at = "attempt" /\ o \in Outcomes \ {"ok", "bifrost"}
        /\ Goto(r, NextAttempt(q, o))
        /\ MarkFailure(q, o)
        /\ Promise(q, o)
        /\ UNCHANGED now

PostLLMHook(r) ==
    LET q == req[r]
        last == q.trail[Len(q.trail)]
    IN  /\ q.at = "post"
        /\ MarkWithTTL(last.key, q.model, last.why)
        /\ Goto(r, [q EXCEPT !.at = "done"])
        /\ UNCHANGED <<now, promised>>

-----------------------------------------------------------------------------

RequestStep(r) ==
    \/ PreProviderHook(r) \/ Loop(r) \/ LookupKey(r) \/ PruneSeen(r)
    \/ ChooseKey(r) \/ NoKey(r)
    \/ \E o \in Outcomes : Settle(r, o) \/ Fail(r, o)
    \/ PostLLMHook(r)

\* The background collection, and time.
Housekeeping == (RunGC \/ Tick) /\ UNCHANGED <<req, promised>>

\* An operator lifts a mark.
Unfreeze(e) == ClearKey(e) /\ promised' = [promised EXCEPT ![e] = 0] /\ UNCHANGED req

Next ==
    \/ \E r \in Requests : RequestStep(r)
    \/ Housekeeping
    \/ \E e \in Entries : Unfreeze(e)

Spec == Init /\ [][Next]_vars

\* The upstream answers within its timeout, and the request's goroutine runs.
FairSpec == Spec /\ \A r \in Requests : WF_vars(RequestStep(r))

-----------------------------------------------------------------------------
(* Properties.                                                             *)

Trail(r) == req[r].trail
Why(r, i) == Trail(r)[i].why

\* The keys that failed permanently in request r.
Killed(r) == {Trail(r)[i].key : i \in {i \in 1..Len(Trail(r)) : Why(r, i) = "permanent"}}

\* A key that failed permanently (401, 402, 403) serves no later attempt of the
\* same request, however often the pool is reset (deadKeyIDs).
DeadKeysStayDead ==
    \A r \in Requests : \A i, j \in 1..Len(Trail(r)) :
        i < j /\ Why(r, i) = "permanent" => Trail(r)[j].key # Trail(r)[i].key

\* A request reports exhausted credentials exactly when every key it may use
\* failed permanently, and "no eligible keys" only while some key is not dead
\* (errAllKeysDead and errAllKeysFiltered).
RefusalExact ==
    \A r \in Requests :
        LET usable == IF Rotates THEN Keys ELSE {Pool[1]}
        IN  /\ req[r].result = "credentials_exhausted" => usable \subseteq Killed(r)
            /\ req[r].result = "no_eligible_keys" => ~(usable \subseteq Killed(r))

\* Without cooldowns, rate-limited keys take turns: of two keys that are not
\* dead neither has been rate-limited twice more often than the other
\* (usedKeyIDs and its reset).
KeysTakeTurns ==
    \A r \in Requests : \A k, l \in Keys \ Killed(r) :
        LET limited(x) == Cardinality({i \in 1..Len(Trail(r)) :
                Trail(r)[i].key = x /\ PerKeyFailure(Why(r, i)) /\ Why(r, i) # "permanent"})
        IN  Rotates => limited(k) <= limited(l) + 1

\* An attempt is recorded as having triggered a rotation exactly when its own
\* failure led the next attempt to another key (TriggeredRotation).
RotationRecorded ==
    \A r \in Requests : \A i \in 1..Len(Trail(r)) :
        Trail(r)[i].rotated <=> /\ i < Len(Trail(r))
                                /\ PerKeyFailure(Why(r, i))
                                /\ Trail(r)[i + 1].key # Trail(r)[i].key

\* An attempt after the first skips its backoff exactly when the previous one
\* failed permanently on another key, or had its ciphertext stripped.
BackoffExact ==
    \A r \in Requests : \A i \in 2..Len(Trail(r)) :
        Trail(r)[i].slept <=>
            ~ \/ Why(r, i - 1) = "permanent" /\ Trail(r)[i].key # Trail(r)[i - 1].key
              \/ Why(r, i - 1) = "rejected"

\* A request makes MaxRetries + 1 attempts, and one more only if its ciphertext
\* was rejected (extraAttempts).
AttemptBudget ==
    \A r \in Requests :
        Len(Trail(r)) <= MaxRetries + 1
            + (IF \E i \in 1..Len(Trail(r)) : Why(r, i) = "rejected" THEN 1 ELSE 0)

\* A finished request names a selected key exactly when it was served, and then
\* it is the key of the attempt that was (BifrostContextKeySelectedKeyID).
SelectedKeyServed ==
    \A r \in Requests : req[r].at = "done" =>
        IF req[r].result = "ok"
        THEN req[r].selected = Trail(r)[Len(Trail(r))].key
        ELSE req[r].selected = None

\* A lookup keeps no key during the cooldown that a failure of the key promised,
\* whichever request saw the failure, unless an operator lifted it.
CooledSkipped ==
    \A r \in Requests : \A k \in req'[r].kept \ req[r].kept :
        CooldownOn => \A e \in EntriesFor(k, req[r].model) : promised[e] <= now

CooledIsSkipped == [][CooledSkipped]_vars

\* The moment the first of the keys can be used again.
EarliestEligible(keys, m) ==
    Min({Max({cooldowns[e] : e \in EntriesFor(k, m)}) : k \in keys})

\* The hint given with a refusal is the time until the first of the keys can be
\* used again (ShortestRemainingCooldown).
\* Not what the code does (README, disagreements).
HintIsEarliest ==
    [][\A r \in Requests :
         req'[r].hint # req[r].hint =>
            now + req'[r].hint = EarliestEligible(Range(KeysFiltered(req[r])), req[r].model)]_vars

\* A request that has begun ends (the retry loop and the filters terminate).
RequestEnds == \A r \in Requests : req[r].at # "start" ~> req[r].at = "done"
=============================================================================

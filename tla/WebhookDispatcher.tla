------------------------- MODULE WebhookDispatcher -------------------------
(***************************************************************************)
(* Webhook delivery (framework/webhooks/dispatcher.go) over its queue, the *)
(* table of webhook jobs (framework/configstore/rdb.go): several nodes     *)
(* scan for due jobs, claim them with a lease, post to the receiver,       *)
(* record the attempt and reschedule or retire the job.  All jobs are for  *)
(* one endpoint.                                                           *)
(*                                                                         *)
(* A statement of a store is one step, a delivery goroutine (a "worker")   *)
(* takes any time between two steps, and time shows only as events: a      *)
(* lease lapses, a backoff ends, a result expires.  The server gives every *)
(* node the same empty runner id, so that the lease expiry alone fences a  *)
(* claim.  A job is claimed again only after its lease has lapsed or was   *)
(* given up by its holder, so the expiry of every claim is a later         *)
(* instant: it is modelled as a token that nobody else holds.              *)
(***************************************************************************)
EXTENDS Integers, FiniteSets, FiniteSetsExt, Functions

CONSTANTS
    Nodes,
    Jobs,         \* webhook ids
    Alerts,       \* the jobs whose payload is stored with the job
    Limit,        \* maxConcurrentDeliveries of the endpoint
    MaxRetries,   \* maxRetries of the endpoint
    MaxRuns,      \* times a job is queued: once, then by redelivery
    MaxFaults,    \* failing statements, lost answers, stops and crashes
    MaxLapses,    \* lapsed leases of a job
    Current,      \* a worker claims before its listed copy of the job is stale
    Prompt,       \* the lease of a working worker does not lapse
    MayChange     \* the endpoint may be disabled, enabled and deleted

WebhookAssumption ==
    /\ Alerts \subseteq Jobs /\ IsFiniteSet(Nodes) /\ IsFiniteSet(Jobs)
    /\ {Limit, MaxRuns} \subseteq Nat \ {0} /\ {MaxRetries, MaxFaults, MaxLapses} \subseteq Nat
    /\ {Current, Prompt, MayChange} \subseteq BOOLEAN

VARIABLES
    row,       \* row[j]: the webhook job in the table
    work,      \* work[n][i]: worker i of node n
    slots,     \* slots[n]: perEndpoint of node n
    node,      \* node[n]: "up", "stopping" or "down"
    endpoint,  \* the endpoint's state and consecutive_failures
    stored,    \* async jobs whose result has not expired
    history,   \* history[j]: the delivery records of job j
    past,      \* past[j], history variable: runs, posts, accepted posts, what
               \* was posted, leases lapsed or replies lost
    faults     \* failures so far

vars == <<row, work, slots, node, endpoint, stored, history, past, faults>>

Slots == 1..Limit
NoToken == 0
Tokens == 1..(Cardinality(Nodes) * Limit + Cardinality(Jobs))
NoRow == [in |-> FALSE, payload |-> FALSE, due |-> FALSE, token |-> NoToken,
          live |-> FALSE, attempts |-> 0]
Idle == [at |-> "idle", job |-> NoToken, seen |-> 0, payload |-> FALSE, endpoint |-> "enabled",
         token |-> NoToken, live |-> FALSE, run |-> 0, outcome |-> "retryable", touch |-> FALSE,
         body |-> "none"]
Outcomes == {"delivered", "retryable", "permanent", "exhausted"}
Terminal == Outcomes \ {"retryable"}

\* The workers that have won a claim and not yet given up their row.
Holding == {"claimed", "post", "record", "queue"}

\* The shape of the state.
TypeOK ==
    /\ \A j \in Jobs :
         /\ row[j].token \in Tokens \cup {NoToken} /\ row[j].attempts \in Nat
         /\ row[j].in \/ row[j] = NoRow
         /\ row[j].live => row[j].token # NoToken
    /\ \A n \in Nodes, i \in Slots :
         LET w == work[n][i] IN
         w # Idle =>
           /\ w.at \in {"listed", "resolved", "count"} \cup Holding
           /\ w.job \in Jobs /\ w.outcome \in Outcomes
           /\ w.endpoint \in {"enabled", "disabled", "deleted"}
    /\ node \in [Nodes -> {"up", "stopping", "down"}]
    /\ endpoint.state \in {"enabled", "disabled", "deleted"} /\ endpoint.fails \in Nat
    /\ stored \subseteq Jobs \ Alerts /\ faults \in 0..MaxFaults

----------------------------------------------------------------------------
(* Helpers *)

Due(j) == row[j].in /\ row[j].due /\ (row[j].token = NoToken \/ ~row[j].live)

Set(n, i, w) == work' = [work EXCEPT ![n][i] = w]

\* The goroutine ends and releases its slot.
End(n, i) ==
    /\ Set(n, i, Idle)
    /\ slots' = [slots EXCEPT ![n] = IF @ <= 1 THEN 0 ELSE @ - 1]

\* A statement on the context of node n fails: it was cancelled by Stop, or the store fails.
Fails(n) ==
    \/ node[n] = "stopping" /\ UNCHANGED faults
    \/ faults < MaxFaults /\ faults' = faults + 1

Works(n) == node[n] = "up" /\ UNCHANGED faults

Init ==
    /\ row = [j \in Jobs |-> NoRow]
    /\ work = [n \in Nodes |-> [i \in Slots |-> Idle]]
    /\ slots = [n \in Nodes |-> 0]
    /\ node = [n \in Nodes |-> "up"]
    /\ endpoint = [state |-> "enabled", fails |-> 0]
    /\ stored = Jobs \ Alerts
    /\ history = [j \in Jobs |-> {}]
    /\ past = [j \in Jobs |-> [runs |-> 0, posts |-> 0, accepted |-> 0, bodies |-> {}, lapses |-> 0]]
    /\ faults = 0

----------------------------------------------------------------------------
(* The queue *)

CreateWebhookJob(j, payload) ==
    /\ row' = [row EXCEPT ![j] = [NoRow EXCEPT !.in = TRUE, !.due = TRUE, !.payload = payload]]
    /\ past' = [past EXCEPT ![j].runs = @ + 1]

\* EnqueueJobEvent, EnqueueAlertEvent, EnqueueBudgetExceeded: an insert that fails is
\* repeated, and finding the row of an earlier try counts as success.
Enqueue(j) ==
    /\ past[j].runs = 0 /\ endpoint.state = "enabled"
    /\ CreateWebhookJob(j, j \in Alerts)
    /\ UNCHANGED <<work, slots, node, endpoint, stored, history, faults>>

\* redeliverWebhook: the job of a delivery record is queued again, unless it is in flight.
Redeliver(j) ==
    /\ history[j] # {} /\ endpoint.state = "enabled" /\ ~row[j].in /\ past[j].runs < MaxRuns
    /\ CreateWebhookJob(j, FALSE)
    /\ UNCHANGED <<work, slots, node, endpoint, stored, history, faults>>

\* dispatchOnce, for one of the due jobs it lists.
Scan(n, j) ==
    /\ node[n] = "up" /\ Due(j) /\ slots[n] < Limit
    /\ slots' = [slots EXCEPT ![n] = @ + 1]
    /\ LET i == Min({k \in Slots : work[n][k] = Idle}) IN
       Set(n, i, [Idle EXCEPT !.at = "listed", !.job = j, !.seen = row[j].attempts,
                              !.payload = row[j].payload])
    /\ UNCHANGED <<row, node, endpoint, stored, history, past, faults>>

----------------------------------------------------------------------------
(* processDue, attempt and finalize of worker i of node n *)

\* The endpoint is read once, before the claim, and serves the whole attempt.
Resolve(n, i) ==
    LET w == work[n][i] IN
    /\ w.at = "listed"
    /\ Set(n, i, [w EXCEPT !.at = "resolved", !.endpoint = endpoint.state])
    /\ UNCHANGED <<row, slots, node, endpoint, stored, history, past, faults>>

Held == {work[n][i].token : n \in Nodes, i \in Slots} \cup {row[j].token : j \in Jobs}
FreshToken == Min(Tokens \ Held)

Claimed(j, t) == row' = [row EXCEPT ![j].token = t, ![j].live = TRUE]

\* The conditional update: the job is still due and nobody's lease on it is live.
Claimable(j) == Due(j)

ClaimWebhookJob(n, i) ==
    LET w == work[n][i]  t == FreshToken IN
    /\ w.at = "resolved"
    /\ Claimable(w.job)
    /\ Current => w.seen = row[w.job].attempts /\ w.payload = row[w.job].payload
    /\ \/ /\ Works(n)
          /\ Set(n, i, [w EXCEPT !.at = "claimed", !.token = t, !.live = TRUE, !.run = past[w.job].runs])
          /\ Claimed(w.job, t) /\ UNCHANGED slots
       \/ /\ Fails(n) /\ End(n, i)
          /\ UNCHANGED row \/ Claimed(w.job, t)
    /\ UNCHANGED <<node, endpoint, stored, history, past>>

\* Another worker, here or elsewhere, was first; or the listed copy is stale.
ClaimLost(n, i) ==
    LET w == work[n][i] IN
    /\ w.at = "resolved"
    /\ ~Claimable(w.job) \/ (Current /\ (w.seen # row[w.job].attempts \/ w.payload # row[w.job].payload))
    /\ End(n, i)
    /\ UNCHANGED <<row, node, endpoint, stored, history, past, faults>>

Retire(n, i) ==
    Set(n, i, [work[n][i] EXCEPT !.at = "record", !.outcome = "permanent", !.touch = FALSE])
    /\ UNCHANGED slots

SendBody(n, i, body) ==
    Set(n, i, [work[n][i] EXCEPT !.at = "post", !.body = body]) /\ UNCHANGED slots

\* FindAsyncJobByID has answered.  No endpoint: the job is retired.
Endpointless(n, i) ==
    LET w == work[n][i] IN
    /\ w.at = "claimed" /\ w.endpoint # "enabled" /\ Works(n) /\ Retire(n, i)
    /\ UNCHANGED <<row, node, endpoint, stored, history, past>>

\* The body: the stored payload, the rendered result, or that the result has expired.
\* A result that cannot be rendered retires the job.
Render(n, i) ==
    LET w == work[n][i] IN
    /\ w.at = "claimed" /\ w.endpoint = "enabled"
    /\ \/ w.payload /\ UNCHANGED faults /\ SendBody(n, i, "alert")
       \/ /\ ~w.payload /\ Works(n)
          /\ IF w.job \in stored THEN SendBody(n, i, "result") \/ Retire(n, i)
                                 ELSE SendBody(n, i, "expired")
    /\ UNCHANGED <<row, node, endpoint, stored, history, past>>

\* A failing look-up, or a panic: the row stays claimed until its lease lapses.
LookupFails(n, i) ==
    LET w == work[n][i] IN
    /\ w.at = "claimed" /\ (w.endpoint # "enabled" \/ ~w.payload)
    /\ Fails(n) /\ End(n, i)
    /\ UNCHANGED <<row, node, endpoint, stored, history, past>>

Spent(w, outcome) == IF outcome = "retryable" /\ w.seen + 1 > MaxRetries THEN "exhausted" ELSE outcome

\* deliver and classify.  A receiver that accepted may have its answer lost.
Post(n, i) ==
    LET w == work[n][i]
        Result(outcome, reached) ==
          /\ Set(n, i, [w EXCEPT !.at = "record", !.outcome = Spent(w, outcome), !.touch = TRUE])
          /\ past' = [past EXCEPT ![w.job] =
               [(IF outcome = "retryable" /\ reached THEN [past[w.job] EXCEPT !.lapses = @ + 1] ELSE past[w.job])
                EXCEPT !.posts = @ + 1, !.accepted = IF reached THEN @ + 1 ELSE @,
                       !.bodies = @ \cup {w.body}]]
    IN
    /\ w.at = "post"
    /\ \/ Works(n) /\ (Result("delivered", TRUE) \/ Result("retryable", FALSE) \/ Result("permanent", FALSE))
       \/ Fails(n) /\ \E reached \in BOOLEAN : Result("retryable", reached)
    /\ UNCHANGED <<row, slots, node, endpoint, stored, history>>

\* History comes first; without it the row stays claimed and the attempt is made again.
CreateWebhookDelivery(n, i) ==
    LET w == work[n][i]
        recorded == history' = [history EXCEPT ![w.job] = @ \cup {[run |-> w.run, outcome |-> w.outcome]}]
    IN
    /\ w.at = "record"
    /\ \/ Works(n) /\ recorded /\ Set(n, i, [w EXCEPT !.at = "queue"]) /\ UNCHANGED slots
       \/ Fails(n) /\ (recorded \/ UNCHANGED history) /\ End(n, i)
    /\ UNCHANGED <<row, node, endpoint, stored, past>>

\* Mutant: the runner id alone fences, and every node has the same.
FencedByRunner(w) == row[w.job].in

\* RescheduleWebhookJob and DeleteWebhookJob match the exact lease of the claim.
Fenced(w) == row[w.job].in /\ row[w.job].token = w.token

RescheduleWebhookJob(j) ==
    row' = [row EXCEPT ![j].attempts = @ + 1, ![j].due = FALSE, ![j].token = NoToken, ![j].live = FALSE]

DeleteWebhookJob(j) == row' = [row EXCEPT ![j] = NoRow]

Finish(w) == IF w.outcome = "retryable" THEN RescheduleWebhookJob(w.job) ELSE DeleteWebhookJob(w.job)

\* The queue row; errors and a row no longer owned are only logged.
UpdateQueue(n, i) ==
    LET w == work[n][i] IN
    /\ w.at = "queue"
    /\ \/ Works(n) /\ (IF Fenced(w) THEN Finish(w) ELSE UNCHANGED row)
       \/ Fails(n) /\ (UNCHANGED row \/ (Fenced(w) /\ Finish(w)))
    /\ IF w.touch THEN Set(n, i, [w EXCEPT !.at = "count"]) /\ UNCHANGED slots ELSE End(n, i)
    /\ UNCHANGED <<node, endpoint, stored, history, past>>

\* RecordWebhookEndpointSuccess and RecordWebhookEndpointFailure.
Count(n, i) ==
    LET w == work[n][i] IN
    /\ w.at = "count" /\ End(n, i)
    /\ \/ /\ Works(n)
          /\ endpoint' = IF endpoint.state = "deleted" THEN endpoint
                         ELSE [endpoint EXCEPT !.fails = IF w.outcome = "delivered" THEN 0 ELSE @ + 1]
       \/ Fails(n) /\ UNCHANGED endpoint
    /\ UNCHANGED <<row, node, stored, history, past>>

----------------------------------------------------------------------------
(* Time, administration, stops and crashes *)

\* The lease on job j lapses; with Prompt only when nobody works under it.
Lapse(j) ==
    LET holders == {n \in Nodes : \E i \in Slots :
                      work[n][i].at \in Holding /\ work[n][i].token = row[j].token}
    IN
    /\ row[j].live /\ past[j].lapses < MaxLapses /\ (Prompt => holders = {})
    /\ row' = [row EXCEPT ![j].live = FALSE]
    /\ work' = [n \in Nodes |-> [i \in Slots |->
                 IF work[n][i].token = row[j].token
                 THEN [work[n][i] EXCEPT !.live = FALSE] ELSE work[n][i]]]
    /\ past' = [past EXCEPT ![j].lapses = @ + 1]
    /\ UNCHANGED <<slots, node, endpoint, stored, history, faults>>

\* next_attempt_at is reached.
BackoffEnds(j) ==
    /\ row[j].in /\ ~row[j].due
    /\ row' = [row EXCEPT ![j].due = TRUE]
    /\ UNCHANGED <<work, slots, node, endpoint, stored, history, past, faults>>

ResultExpires(j) ==
    /\ j \in stored
    /\ stored' = stored \ {j}
    /\ UNCHANGED <<row, work, slots, node, endpoint, history, past, faults>>

ChangeEndpoint ==
    /\ MayChange /\ endpoint.state # "deleted"
    /\ \E s \in {"enabled", "disabled", "deleted"} \ {endpoint.state} : endpoint' = [endpoint EXCEPT !.state = s]
    /\ UNCHANGED <<row, work, slots, node, stored, history, past, faults>>

Stop(n) ==
    /\ node[n] = "up" /\ faults < MaxFaults
    /\ faults' = faults + 1
    /\ node' = [node EXCEPT ![n] = "stopping"]
    /\ UNCHANGED <<row, work, slots, endpoint, stored, history, past>>

\* Stop returns when the last delivery has finished.
Stopped(n) ==
    /\ node[n] = "stopping" /\ \A i \in Slots : work[n][i] = Idle
    /\ node' = [node EXCEPT ![n] = "down"]
    /\ UNCHANGED <<row, work, slots, endpoint, stored, history, past, faults>>

Crash(n) ==
    /\ node[n] # "down" /\ faults < MaxFaults
    /\ faults' = faults + 1
    /\ node' = [node EXCEPT ![n] = "down"]
    /\ work' = [work EXCEPT ![n] = [i \in Slots |-> Idle]]
    /\ slots' = [slots EXCEPT ![n] = 0]
    /\ UNCHANGED <<row, endpoint, stored, history, past>>

Start(n) ==
    /\ node[n] = "down"
    /\ node' = [node EXCEPT ![n] = "up"]
    /\ UNCHANGED <<row, work, slots, endpoint, stored, history, past, faults>>

Step(n, i) ==
    \/ Resolve(n, i) \/ ClaimWebhookJob(n, i) \/ ClaimLost(n, i)
    \/ Endpointless(n, i) \/ Render(n, i) \/ LookupFails(n, i) \/ Post(n, i)
    \/ CreateWebhookDelivery(n, i) \/ UpdateQueue(n, i) \/ Count(n, i)

Next ==
    \/ \E j \in Jobs : Enqueue(j) \/ Redeliver(j) \/ Lapse(j) \/ BackoffEnds(j) \/ ResultExpires(j)
    \/ \E n \in Nodes, j \in Jobs : Scan(n, j)
    \/ \E n \in Nodes, i \in Slots : Step(n, i)
    \/ \E n \in Nodes : Stop(n) \/ Stopped(n) \/ Crash(n) \/ Start(n)
    \/ ChangeEndpoint

Spec == Init /\ [][Next]_vars

\* Goroutines run, time passes, a stopped node is started again; every node scans at least
\* each poll interval, oldest due first, so a due job finds a free slot in time.
Fairness ==
    /\ \A n \in Nodes, i \in Slots : WF_vars(Step(n, i))
    /\ \A j \in Jobs : WF_vars(Lapse(j)) /\ WF_vars(BackoffEnds(j))
    /\ \A n \in Nodes : WF_vars(Start(n)) /\ WF_vars(Stopped(n))
    /\ \A n \in Nodes, j \in Jobs : SF_vars(Scan(n, j))

FairSpec == Spec /\ Fairness

----------------------------------------------------------------------------
(* Properties *)

\* An attempt whose lease has not lapsed still owns its job: no other attempt, however late,
\* reschedules, retires or claims it (the lease expiry as fencing token, RescheduleWebhookJob
\* and DeleteWebhookJob).
LeaseKept ==
    \A n \in Nodes, i \in Slots :
      LET w == work[n][i] IN
      w.at \in Holding /\ w.live => Fenced(w) /\ row[w.job].live

\* A job that left the queue has a terminal record of that very run in the delivery history,
\* whatever fails in between (finalize: history first, then the queue row).
RetiredIsRecorded ==
    \A j \in Jobs :
      past[j].runs > 0 /\ ~row[j].in =>
        \E rec \in history[j] : rec.run = past[j].runs /\ rec.outcome \in Terminal

\* A receiver that accepted a delivery gets it again only after a redelivery, a lapsed lease
\* or a lost answer (at-least-once delivery, with no other duplicates).
NoNeedlessDuplicate ==
    \A j \in Jobs :
      past[j].accepted <= past[j].runs + past[j].lapses

\* The receiver is tried at most maxRetries + 1 times in a run, and once more for each lapsed
\* lease or lost answer.
BudgetKept ==
    \A j \in Jobs :
      past[j].posts <= past[j].runs * (MaxRetries + 1) + past[j].lapses

\* What is posted is what was queued: the stored payload of an alert, and for an async job
\* that its result has expired only when it has.
BodyHonest ==
    \A j \in Jobs :
      /\ j \in Alerts => past[j].bodies \subseteq {"alert"}
      /\ j \notin Alerts => "alert" \notin past[j].bodies
      /\ "expired" \in past[j].bodies => j \notin stored

\* The failure streak of the endpoint counts only posts to it (touchCounters).
StreakBacked ==
    endpoint.fails <= MapThenSumSet(LAMBDA j : past[j].posts, Jobs)

\* Every goroutine that ends, on whatever path, returns its slot.
SlotsExact ==
    \A n \in Nodes : slots[n] = Cardinality({i \in Slots : work[n][i] # Idle})

\* A queued job leaves the queue, through crashes, stops and failing statements.
JobRetired ==
    \A j \in Jobs : row[j].in ~> ~row[j].in
=============================================================================

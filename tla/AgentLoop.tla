----------------------------- MODULE AgentLoop -----------------------------
(***************************************************************************)
(* Agent mode (core/mcp/agent.go, executeAgent, with the two adapters of   *)
(* agentadaptors.go): the tool calls of a model's response are split into  *)
(* those that may run by themselves and those that need the caller, the    *)
(* first run in parallel, and their results go back to the model until it  *)
(* asks for nothing, needs the caller, or the depth is used up.            *)
(*                                                                         *)
(* A call has an identity and a target: a tool of a client, one of the     *)
(* read-only code-mode tools, a piece of code with the tools it calls, or  *)
(* something no client knows.  Message texts are left out; usage is one    *)
(* counter, -1 when a response carries none.                               *)
(***************************************************************************)
EXTENDS Integers, Sequences, FiniteSets, SequencesExt

CONSTANTS
    Tools,          \* tools of clients
    Executable,     \* the tools in ToolsToExecute
    Targets,        \* what the model may ask for
    MaxAgentDepth,  \* maxAgentDepth
    MaxCalls,       \* calls in one response
    MaxEdits        \* changes of ToolsToAutoExecute

Builtin == "builtin"  \* an object in code that is no client

AllTargets ==
    {[kind |-> k, of |-> {}] : k \in {"unnamed", "foreign", "read", "unparsed"}}
    \union [kind : {"client"}, of : {{t} : t \in Tools}]
    \union [kind : {"code"}, of : SUBSET (Tools \union {Builtin})]

AgentAssumption ==
    /\ Builtin \notin Tools /\ Executable \subseteq Tools /\ Targets \subseteq AllTargets
    /\ {MaxAgentDepth, MaxCalls, MaxEdits} \subseteq Nat

VARIABLES
    at,         \* the step of executeAgent
    depth,
    response,   \* currentResponse: its calls and usage
    auto,       \* autoExecutableTools
    running,    \* calls whose goroutine has not returned
    channel,    \* channelToolResults: the calls answered, in the order of arrival
    authError,  \* authRequiredErr is set
    history,    \* conversationHistory
    executed,   \* allExecutedToolResults and allExecutedToolCalls
    usage,      \* accumulatedUsage
    out,        \* what executeAgent returned
    approved,   \* the tools in ToolsToAutoExecute
    edits,
    granted,    \* history: approvals under which each started call was classified
    billed      \* history: usage of every response received

vars == <<at, depth, response, auto, running, channel, authError, history, executed, usage, out,
          approved, edits, granted, billed>>

None == [kind |-> "none", calls |-> {}, reported |-> {}, usage |-> -1]

\* A response of the model: calls <<n, i>> of the n-th response.
Responses(n) ==
    {[calls |-> {[id |-> <<n, i>>, target |-> ts[i]] : i \in DOMAIN ts}, usage |-> u] :
        ts \in UNION {[1..k -> Targets] : k \in 0..MaxCalls}, u \in {-1, 1}}

\* The name under which the result of a call is reported.
NameOf(call) == [kind |-> call.target.kind, of |-> IF call.target.kind = "client" THEN call.target.of ELSE {}]

(***************************************************************************)
(* Which calls may run by themselves.                                      *)
(***************************************************************************)

\* Code calls nothing, or some tool is allowed at all and every call is to an
\* allowed tool or to no client.
CodeAllowed(of) ==
    \/ of = {}
    \/ approved # {} /\ \A t \in of : t = Builtin \/ t \in approved

CanAutoExecute(target) ==
    \/ target.kind = "read"
    \/ target.kind = "code" /\ CodeAllowed(target.of)
    \/ target.kind = "client" /\ target.of \subseteq Executable \intersect approved

(***************************************************************************)
(* The loop.                                                               *)
(***************************************************************************)

Init ==
    /\ response \in Responses(0)
    /\ at = "loop" /\ depth = 0 /\ auto = {} /\ running = {} /\ channel = <<>> /\ authError = FALSE
    /\ history = <<>> /\ executed = <<>> /\ usage = response.usage /\ out = None
    /\ approved \in SUBSET Tools /\ edits = 0
    /\ granted = <<>> /\ billed = IF response.usage = -1 THEN 0 ELSE response.usage

Returned(kind, calls, reported, u) ==
    /\ out' = [kind |-> kind, calls |-> calls, reported |-> reported, usage |-> u]
    /\ at' = "done"

\* The loop ends: no calls, or no depth left.  The response gets the usage
\* of the whole loop.
Finish ==
    /\ at = "loop"
    /\ depth = MaxAgentDepth \/ response.calls = {}
    /\ Returned("response", response.calls, {}, usage)
    /\ UNCHANGED <<depth, response, auto, running, channel, authError, history, executed, usage,
                   approved, edits, granted, billed>>

\* One iteration starts: the calls are classified, and the goroutines of
\* those that may run are started.
Classify ==
    /\ at = "loop" /\ depth < MaxAgentDepth /\ response.calls # {}
    /\ depth' = depth + 1
    /\ auto' = {c \in response.calls : CanAutoExecute(c.target)}
    /\ running' = auto' /\ channel' = <<>>
    /\ IF auto' = {} THEN at' = "manual" /\ UNCHANGED <<history, granted>>
       ELSE /\ at' = "run"
            /\ history' = Append(history, [kind |-> "assistant", ids |-> {c.id : c \in response.calls}])
            /\ granted' = [i \in DOMAIN granted \union {c.id : c \in auto'} |->
                              IF i \in DOMAIN granted THEN granted[i] ELSE approved]
    /\ UNCHANGED <<response, authError, executed, usage, out, approved, edits, billed>>

\* A goroutine ends: whatever the outcome, one result is sent.
Execute(c) ==
    /\ at = "run" /\ c \in running
    /\ \E outcome \in {"message", "nothing", "error", "auth"} :
          /\ running' = running \ {c}
          /\ channel' = Append(channel, c)
          /\ authError' = (authError \/ outcome = "auth")
    /\ UNCHANGED <<at, depth, response, auto, history, executed, usage, out, approved, edits, granted, billed>>

\* Mutant: the demand for authorization is treated as any failed tool.
GatherAll ==
    /\ at = "run" /\ running = {}
    /\ executed' = executed \o channel
    /\ history' = history \o [i \in DOMAIN channel |-> [kind |-> "result", ids |-> {channel[i].id}]]
    /\ at' = "manual" /\ UNCHANGED out
    /\ UNCHANGED <<depth, response, auto, running, channel, authError, usage, approved, edits, granted, billed>>

\* wg.Wait: a demand for authorization ends the loop with an error; else the
\* results join the conversation.
Gather ==
    /\ at = "run" /\ running = {}
    /\ IF authError THEN Returned("error", {}, {}, -1) /\ UNCHANGED <<history, executed>>
       ELSE /\ executed' = executed \o channel
            /\ history' = history \o [i \in DOMAIN channel |-> [kind |-> "result", ids |-> {channel[i].id}]]
            /\ at' = "manual" /\ UNCHANGED out
    /\ UNCHANGED <<depth, response, auto, running, channel, authError, usage, approved, edits, granted, billed>>

\* toolResultsMap: the results by tool name, a later one replacing an earlier.
Reported ==
    {executed[i].id : i \in {i \in DOMAIN executed :
        \A j \in i + 1 .. Len(executed) : NameOf(executed[i]) # NameOf(executed[j])}}

\* Calls that need the caller end the loop; the response summarises the
\* results of all iterations.  A first response of which nothing was executed
\* is returned as it is.
Respond ==
    /\ at = "manual" /\ response.calls # auto
    /\ IF depth = 1 /\ executed = <<>>
       THEN Returned("handover", response.calls, {}, response.usage)
       ELSE Returned("handover", response.calls \ auto, Reported, usage)
    /\ UNCHANGED <<depth, response, auto, running, channel, authError, history, executed, usage,
                   approved, edits, granted, billed>>

MergeUsage(base, add) == CASE add = -1 -> base [] base = -1 -> add [] OTHER -> base + add

\* createNewRequest and makeLLMCall with the conversation so far.
CallModel ==
    /\ at = "manual" /\ response.calls = auto
    /\ \/ /\ Returned("error", {}, {}, -1)
          /\ UNCHANGED <<response, usage, billed>>
       \/ \E r \in Responses(depth) :
             /\ response' = r /\ usage' = MergeUsage(usage, r.usage) /\ at' = "loop"
             /\ billed' = billed + (IF r.usage = -1 THEN 0 ELSE r.usage)
             /\ UNCHANGED out
    /\ UNCHANGED <<depth, auto, running, channel, authError, history, executed, approved, edits, granted>>

\* An administrator changes ToolsToAutoExecute of a client.
EditApproval(t) ==
    /\ at # "done" /\ edits < MaxEdits /\ edits' = edits + 1
    /\ approved' = IF t \in approved THEN approved \ {t} ELSE approved \union {t}
    /\ UNCHANGED <<at, depth, response, auto, running, channel, authError, history, executed, usage, out,
                   granted, billed>>

(***************************************************************************)
(* Specification.                                                          *)
(***************************************************************************)

Step == Finish \/ Classify \/ (\E c \in running : Execute(c)) \/ Gather \/ Respond \/ CallModel

Next == Step \/ \E t \in Tools : EditApproval(t)

Spec == Init /\ [][Next]_vars

\* Tool executions and model calls return: each has a timeout.
FairSpec == Spec /\ WF_vars(Step)

(***************************************************************************)
(* Properties.                                                             *)
(***************************************************************************)

\* Types and bounds: the depth never passes the limit and every result in
\* the channel has room (its capacity is the number of goroutines).
TypeOK ==
    /\ at \in {"loop", "run", "manual", "done"} /\ depth \in 0..MaxAgentDepth
    /\ running \subseteq auto /\ auto # {} => Len(channel) <= Cardinality(auto)
    /\ usage \in -1 .. MaxAgentDepth + 1 /\ out.kind \in {"none", "response", "handover", "error"}

\* The results that follow the message at position i, up to the next message
\* of the model.
ResultsAfter(i) ==
    {j \in i + 1 .. Len(history) : \A k \in i + 1 .. j : history[k].kind = "result"}

\* Every conversation sent to the model answers each call of each of its
\* messages exactly once, right after the message (providers reject any
\* other): when the model has been called, or is about to be.
HistoryPaired ==
    (at = "loop" \/ (at = "manual" /\ response.calls = auto)) =>
        \A i \in DOMAIN history : history[i].kind = "assistant" =>
            /\ UNION {history[j].ids : j \in ResultsAfter(i)} = history[i].ids
            /\ Cardinality(ResultsAfter(i)) = Cardinality(history[i].ids)

\* A call runs without the caller only if every tool it reaches was approved
\* when its iteration classified it, whatever is edited meanwhile
\* (isToolCallAllowedForCodeMode, canAutoExecuteTool).
NothingUnapproved ==
    \A c \in auto : c.id \in DOMAIN granted => c.target.of \subseteq granted[c.id] \union {Builtin}

\* A call handed to the caller was not executed: the caller's execution is
\* the only one.
NotBoth ==
    \A c \in out.calls : \A i \in DOMAIN executed : executed[i].id # c.id

\* The usage reported is that of every response of the loop, the last one
\* included (applyUsage, "Accumulate token usage across all LLM calls").
UsageExact ==
    out.kind \in {"response", "handover"} => (IF out.usage = -1 THEN 0 ELSE out.usage) = billed

\* A demand for authorization ends the loop with an error, whatever the
\* other tools answered ("stop the agent loop and return the error").
AuthStops == authError => at = "run" \/ out.kind = "error"

\* When calls need the caller, the response tells the result of every call
\* that was executed ("Create response with all executed tool results from
\* all iterations").
\* Not what the code does (README, disagreements).
ResultsReported ==
    out.kind = "handover" => out.reported = {executed[i].id : i \in DOMAIN executed}

\* The loop returns.
Terminates == <>(out.kind # "none")
=============================================================================

------------------------------ MODULE MCBudget ------------------------------
(***************************************************************************)
(* BudgetUsage for TLC, in scenes: a budget used by requests through a     *)
(* crash and a shutdown, a rate-limit counter and a limit reached by       *)
(* concurrent requests, which share the variables; and operators at work   *)
(* on a budget of their own.                                               *)
(***************************************************************************)
EXTENDS BudgetUsage

CONSTANT Scenes     \* the scenes a run plays
VARIABLES
    scene,
    oClock, oMem, oDb, oCall, oSettle, oHeld, oBilled, oPass, oMarked, oOp, oCalls,
    oEdits, oFaults, oCrashes, oLanded, oSpend, oCharges, oGranted, oForgiven

ovars == <<oClock, oMem, oDb, oCall, oSettle, oHeld, oBilled, oPass, oMarked, oOp, oCalls,
           oEdits, oFaults, oCrashes, oLanded, oSpend, oCharges, oGranted, oForgiven>>
mcvars == <<scene, vars, ovars>>

Rate == INSTANCE BudgetUsage WITH
    Kind <- "rate", MaxWindow <- 1, MaxFaults <- 1, Stops <- FALSE
Full == INSTANCE BudgetUsage WITH
    Limit <- 1, MaxCalls <- 4, MaxWindow <- 1, MaxFaults <- 0, MaxCrashes <- 0,
    Stops <- FALSE
Operated == INSTANCE BudgetUsage WITH
    clock <- oClock, mem <- oMem, db <- oDb, call <- oCall, settle <- oSettle,
    held <- oHeld, billed <- oBilled, pass <- oPass, marked <- oMarked, op <- oOp,
    calls <- oCalls, edits <- oEdits, faults <- oFaults, crashes <- oCrashes,
    landed <- oLanded, spend <- oSpend, charges <- oCharges, granted <- oGranted,
    forgiven <- oForgiven,
    Edits <- {"reset", "grant", "clear", "edit"}, MaxCalls <- 1, MaxEdits <- 1,
    MaxWindow <- 1, MaxFaults <- 1, MaxCrashes <- 0, Stops <- FALSE

ASSUME SceneAssumption ==
    Rate!BudgetAssumption /\ Full!BudgetAssumption /\ Operated!BudgetAssumption

MCInit == scene \in Scenes /\ Init /\ Operated!Init

MCNext ==
    /\ UNCHANGED scene
    /\ \/ scene = "used" /\ Next /\ UNCHANGED ovars
       \/ scene = "rate" /\ Rate!Next /\ UNCHANGED ovars
       \/ scene = "full" /\ Full!Next /\ UNCHANGED ovars
       \/ scene = "operated" /\ Operated!Next /\ UNCHANGED vars

OperatedStep(A) == scene = "operated" /\ A /\ UNCHANGED <<scene, vars>>

MCSpec ==
    /\ MCInit /\ [][MCNext]_mcvars
    /\ \A s \in Settlements : WF_mcvars(OperatedStep(Operated!SettleStep(s)))
    /\ WF_mcvars(OperatedStep(Operated!WorkerStep))
    /\ WF_mcvars(OperatedStep(Operated!DumpStep("worker")))
    /\ WF_mcvars(OperatedStep(Operated!OpStep))
-----------------------------------------------------------------------------
\* The limit is overrun by less than one request per place where no override raises
\* it, and overrides end with their windows (OvershootBounded, NoOverstay); with
\* operators at work too a call is charged once and no window shows the spend of
\* another (BilledOnce, WindowPure).
LimitsKept ==
    /\ scene \in {"used", "rate"} => OvershootBounded
    /\ scene = "full" => Full!OvershootBounded
    /\ NoOverstay /\ Operated!NoOverstay
    /\ Operated!TypeOK /\ Operated!BilledOnce /\ Operated!WindowPure

\* Saved, where requests, operators and faults cease.
EventuallySaved == scene = "operated" => Operated!Saved
-----------------------------------------------------------------------------
\* A budget that operators edit, for UsageExact.
ReloadSpec ==
    scene = "reload" /\ Init /\ Operated!Init /\ [][Next /\ UNCHANGED <<scene, ovars>>]_mcvars
=============================================================================

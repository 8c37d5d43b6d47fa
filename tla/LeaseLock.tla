----------------------------- MODULE LeaseLock -----------------------------
(***************************************************************************)
(* What the distributed lock promises for one key: a lease that one holder *)
(* at a time has, that passes from one holder to the next only by way of   *)
(* nobody, and that runs out unless it is renewed before it does.          *)
(***************************************************************************)
EXTENDS Integers

CONSTANTS Holders, NoHolder, TTL

VARIABLES owner, remains

lockVars == <<owner, remains>>

Init == owner = NoHolder /\ remains = -1

Acquire == owner = NoHolder /\ owner' \in Holders /\ remains' \in 0..TTL

Renew == owner # NoHolder /\ remains > 0 /\ remains' \in 0..TTL /\ UNCHANGED owner

Release == owner # NoHolder /\ owner' = NoHolder /\ remains' = -1

Elapse ==
    /\ owner # NoHolder
    /\ remains' = remains - 1
    /\ owner' = IF remains = 0 THEN NoHolder ELSE owner

Next == Acquire \/ Renew \/ Release \/ Elapse

Spec == Init /\ [][Next]_lockVars
=============================================================================

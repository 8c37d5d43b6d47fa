------------------------- MODULE BudgetUsageProofs -------------------------
(***************************************************************************)
(* Proofs about BudgetUsage, for any slots, limits, edits and bounds: no   *)
(* entry or row shows the spend of another window, and, without operators, *)
(* the live entry counts every settlement exactly and overruns its limit   *)
(* by less than one request per place.                                     *)
(***************************************************************************)
EXTENDS BudgetUsage, FiniteSetTheorems, TLAPS

Settling == [at : {"none", "claim", "load", "reset", "mark", "swap"},
             snap : Entry, to : Window]
Passing == [at : {"idle", "reset", "mark", "persist", "gens", "rows", "keep", "write",
                  "stop", "stopping", "stopped"},
            row : Entry, to : Window, boot : BOOLEAN]
Operating == [at : {"idle", "fetch", "load", "store", "rebase", "mark"},
              kind : {"reset", "grant", "clear", "edit"}, ov : Override, snap : Entry]

\* The shape of what the argument is about.
Shape ==
    /\ clock \in Window /\ mem \in Entry /\ db \in Entry
    /\ settle \in [Settlements -> Settling]
    /\ pass \in [Dumpers -> Passing]
    /\ op \in Operating
    /\ landed \in Nat /\ spend \in [Window -> Nat]

\* An entry that can be swapped for is the live one.
HeldIsLive ==
    \A s \in held : s \in Settlements /\ (settle[s].at = "swap" => settle[s].snap = mem)

\* No copy of the entry, wherever it is, shows more than its window's spend.
Within(b) == b.usage <= spend[b.lr]
CopiesPure ==
    /\ Within(mem) /\ Within(db) /\ Within(op.snap)
    /\ \A s \in Settlements : Within(settle[s].snap)
    /\ \A d \in Dumpers : Within(pass[d].row)

BudgetInv == Shape /\ HeldIsLive /\ CopiesPure
-----------------------------------------------------------------------------
\* Expiring an override changes neither usage nor boundary.
LEMMA RefreshFacts ==
    ASSUME NEW b \in Entry
    PROVE  /\ Refresh(b) \in Entry
           /\ Refresh(b).usage = b.usage /\ Refresh(b).lr = b.lr
<1>1. None \in Override
  BY BudgetAssumption DEF None, Override, Window
<1> QED
  BY <1>1 DEF Refresh, Entry

\* The empty entry, which stands for no copy.
LEMMA FreshFacts ==
    /\ None \in Override /\ Fresh \in Entry /\ Fresh.usage = 0 /\ Fresh.lr = 0
    /\ 0 \in Window
<1>1. None \in Override /\ 0 \in Window
  BY BudgetAssumption DEF None, Override, Window
<1> QED
  BY <1>1 DEF Fresh, Entry

\* The fields of an entry are numbers.
LEMMA EntryFields ==
    ASSUME NEW b \in Entry
    PROVE  b.lr \in Nat /\ b.ov.anchor \in Nat /\ b.ov.total \in Nat
<1>1. b.lr \in Window /\ b.ov \in Override
  BY DEF Entry
<1>2. b.ov.total \in {0, Cycles} /\ b.ov.anchor \in Window
  BY <1>1 DEF Override
<1>3. Window \subseteq Nat /\ Cycles \in Nat /\ 0 \in Nat
  BY BudgetAssumption DEF Window
<1> QED
  BY <1>1, <1>2, <1>3, Zenon

\* A reset empties the entry and moves its boundary.
LEMMA ResetFacts ==
    ASSUME NEW w \in Window, mem \in Entry
    PROVE  /\ ResetToZero(w) \in Entry
           /\ ResetToZero(w).usage = 0 /\ ResetToZero(w).lr = w
<1> DEFINE b == [mem EXCEPT !.usage = 0, !.lr = w]
<1>1. b \in Entry /\ b.usage = 0 /\ b.lr = w
  BY Zenon DEF Entry
<1> HIDE DEF b
<1>2. Refresh(b) \in Entry /\ Refresh(b).usage = 0 /\ Refresh(b).lr = w
  BY <1>1, RefreshFacts
<1> QED
  BY <1>2 DEF ResetToZero, b

\* A row written by a batch keeps its usage and boundary together.
LEMMA WrittenFacts ==
    ASSUME NEW row \in Entry, NEW guard \in BOOLEAN, db \in Entry
    PROVE  /\ Written(row, guard) \in Entry
           /\ \/ Written(row, guard).usage = row.usage /\ Written(row, guard).lr = row.lr
              \/ Written(row, guard).usage = db.usage /\ Written(row, guard).lr = db.lr
BY DEF Written, Entry

\* The first state.
LEMMA InitBudget == Init => BudgetInv
<1> SUFFICES ASSUME Init PROVE BudgetInv
  OBVIOUS
<1>1. Shape
  BY FreshFacts DEF Init, Shape, Settling, Passing, Operating
<1>2. HeldIsLive
  BY DEF Init, HeldIsLive
<1>3. CopiesPure
  BY FreshFacts DEF Init, CopiesPure, Within
<1> QED
  BY <1>1, <1>2, <1>3 DEF BudgetInv

\* Every step keeps the copies of the entry within their windows.
LEMMA NextBudget == BudgetInv /\ [Next]_vars => BudgetInv'
<1> SUFFICES ASSUME BudgetInv, [Next]_vars PROVE BudgetInv'
  OBVIOUS
<1> USE FreshFacts DEF BudgetInv, bookkeeping
<1>1. ASSUME NEW c \in Slots, Admit(c) PROVE BudgetInv'
  <2>1. Shape'
    BY <1>1 DEF Shape, Settling, Passing, Operating, Dumpers, Admit
  <2>2. HeldIsLive'
    BY <1>1 DEF Shape, Settling, HeldIsLive, Admit
  <2>3. CopiesPure'
    BY <1>1 DEF Shape, Settling, Passing, Operating, Dumpers, CopiesPure, Within, Admit
  <2> QED
    BY <2>1, <2>2, <2>3
<1>2. ASSUME NEW c \in Slots, Finish(c) PROVE BudgetInv'
  <2>1. Shape'
    BY <1>2 DEF Shape, Settling, Passing, Operating, Dumpers, Finish
  <2>2. HeldIsLive'
    BY <1>2 DEF Shape, Settling, HeldIsLive, Finish
  <2>3. CopiesPure'
    BY <1>2, Zenon DEF Shape, Settling, Passing, Operating, Dumpers, CopiesPure, Within, Finish
  <2> QED
    BY <2>1, <2>2, <2>3
<1>3. ASSUME NEW s \in Settlements, Claim(s) PROVE BudgetInv'
  <2>1. Shape'
    BY <1>3 DEF Shape, Settling, Passing, Operating, Dumpers, Claim
  <2>2. HeldIsLive'
    BY <1>3 DEF Shape, Settling, HeldIsLive, Claim
  <2>3. CopiesPure'
    BY <1>3 DEF Shape, Settling, Passing, Operating, Dumpers, CopiesPure, Within, Claim
  <2> QED
    BY <2>1, <2>2, <2>3
<1>4. ASSUME NEW s \in Settlements, BumpLoad(s) PROVE BudgetInv'
  <2>1. Shape'
    BY <1>4 DEF Shape, Settling, Passing, Operating, Dumpers, BumpLoad, Due
  <2>2. HeldIsLive'
    BY <1>4 DEF Shape, Settling, HeldIsLive, BumpLoad, Due
  <2>3. CopiesPure'
    BY <1>4 DEF Shape, Settling, Passing, Operating, Dumpers, CopiesPure, Within, BumpLoad, Due
  <2> QED
    BY <2>1, <2>2, <2>3
<1>5. ASSUME NEW s \in Settlements, BumpReset(s) PROVE BudgetInv'
  <2>1. settle[s] \in Settling /\ settle[s].to \in Window
    BY DEF Shape, Settling
  <2>2. /\ settle' \in [Settlements -> Settling]
        /\ \A t \in Settlements : settle'[t].snap = settle[t].snap
    BY <1>5, <2>1 DEF Shape, Settling, BumpReset
  <2>3. /\ mem' \in Entry /\ landed' \in Nat
        /\ mem' = mem \/ mem'.usage = 0
    BY <1>5, <2>1, ResetFacts DEF Shape, BumpReset, ResetBudgetAt, Publish
  <2>4. UNCHANGED <<clock, db, pass, op, spend>>
    BY <1>5 DEF BumpReset
  <2>5. Shape'
    BY <2>2, <2>3, <2>4 DEF Shape
  <2>6. HeldIsLive'
    BY <1>5 DEF Shape, Settling, HeldIsLive, BumpReset, ResetBudgetAt, Publish
  <2>7. CopiesPure'
    <3>1. spend[mem'.lr] \in Nat
      BY <2>3 DEF Shape, Entry
    <3> QED
      BY <2>2, <2>3, <2>4, <3>1 DEF Shape, CopiesPure, Within
  <2> QED
    BY <2>5, <2>6, <2>7
<1>6. ASSUME NEW s \in Settlements, BumpMark(s) PROVE BudgetInv'
  <2>1. Shape'
    BY <1>6 DEF Shape, Settling, Passing, Operating, Dumpers, BumpMark, Mark
  <2>2. HeldIsLive'
    BY <1>6 DEF Shape, Settling, HeldIsLive, BumpMark, Mark
  <2>3. CopiesPure'
    BY <1>6 DEF Shape, Settling, Passing, Operating, Dumpers, CopiesPure, Within, BumpMark, Mark
  <2> QED
    BY <2>1, <2>2, <2>3
<1>7. ASSUME NEW s \in Settlements, Bump(s) PROVE BudgetInv'
  <2>1. settle[s] \in Settling /\ settle[s].snap \in Entry
    BY DEF Shape, Settling
  <2>2. /\ settle' \in [Settlements -> Settling]
        /\ \A t \in Settlements : settle'[t].snap \in {Fresh, settle[t].snap}
    BY <1>7, <2>1 DEF Shape, Settling, Bump
  <2>3. UNCHANGED <<clock, db, pass, op>>
    BY <1>7 DEF Bump
  <2>4. CASE Swappable(s)
    <3> DEFINE b == settle[s].snap
    <3>1. b = mem /\ b.usage \in Nat /\ b.lr \in Window
      BY <1>7, <2>1, <2>4 DEF Bump, Swappable, HeldIsLive, Entry
    <3>2. mem' = [b EXCEPT !.usage = b.usage + 1] /\ landed' = landed + 1
      BY <1>7, <2>4 DEF Bump, Added, Publish
    <3>3. mem' \in Entry /\ mem'.usage = b.usage + 1 /\ mem'.lr = b.lr
      BY <2>1, <3>1, <3>2 DEF Entry
    <3>4. spend' = [spend EXCEPT ![b.lr] = spend[b.lr] + 1]
      BY <1>7, <2>4 DEF Bump
    <3>5. /\ spend' \in [Window -> Nat]
          /\ \A w \in Window : spend[w] \in Nat /\ spend'[w] >= spend[w]
          /\ spend'[b.lr] = spend[b.lr] + 1
      BY <3>1, <3>4 DEF Shape
    <3>6. Shape'
      BY <2>2, <2>3, <3>2, <3>3, <3>5 DEF Shape
    <3>7. HeldIsLive'
      BY <1>7, <2>4 DEF HeldIsLive, Bump, Publish
    <3>8. ASSUME NEW c \in Entry, Within(c) PROVE c.usage <= spend'[c.lr]
      BY <3>5, <3>8 DEF Entry, Within
    <3>9. /\ Within(mem)' /\ Within(db)' /\ Within(op.snap)'
          /\ \A d \in Dumpers : Within(pass[d].row)'
      <4>1. mem'.usage <= spend'[mem'.lr]
        BY <3>1, <3>3, <3>5 DEF CopiesPure, Within
      <4>2. /\ db \in Entry /\ op.snap \in Entry
            /\ \A d \in Dumpers : pass[d].row \in Entry
        BY DEF Shape, Operating, Passing
      <4> QED
        BY <2>3, <3>8, <4>1, <4>2 DEF CopiesPure, Within
    <3>10. \A t \in Settlements : Within(settle[t].snap)'
      <4>1. \A t \in Settlements : settle[t].snap \in Entry
        BY DEF Shape, Settling
      <4>2. Within(Fresh)
        BY DEF Shape, Within
      <4> QED
        BY <2>2, <3>8, <4>1, <4>2, Zenon DEF CopiesPure, Within
    <3> QED
      BY <3>6, <3>7, <3>9, <3>10 DEF CopiesPure
  <2>5. CASE ~Swappable(s)
    <3>1. UNCHANGED <<mem, held, landed, spend>>
      BY <1>7, <2>5 DEF Bump
    <3>2. Shape'
      BY <2>2, <2>3, <3>1 DEF Shape
    <3>3. HeldIsLive'
      BY <1>7, <2>5, <3>1 DEF Shape, Settling, HeldIsLive, Bump
    <3>4. CopiesPure'
      BY <2>2, <2>3, <3>1 DEF Shape, CopiesPure, Within
    <3> QED
      BY <3>2, <3>3, <3>4
  <2> QED
    BY <2>4, <2>5
<1>8. CASE WorkerTick
  <2> DEFINE new == [pass["worker"] EXCEPT !.at = IF Due(mem) THEN "reset" ELSE "gens", !.to = clock]
  <2>1. pass["worker"] \in Passing /\ "worker" \in Dumpers
    BY DEF Shape, Dumpers
  <2>2. new \in Passing /\ new.row \in {Fresh, pass["worker"].row}
    BY <2>1, Zenon DEF Passing, Shape
  <2>3. pass' = [pass EXCEPT !["worker"] = new]
    BY <1>8, Zenon DEF Shape, Passing, WorkerTick
  <2> HIDE DEF new
  <2>4. UNCHANGED <<clock, mem, db, settle, held, op, landed, spend>>
    BY <1>8 DEF WorkerTick
  <2>5. Shape' /\ HeldIsLive'
    BY <2>1, <2>2, <2>3, <2>4 DEF Shape, HeldIsLive
  <2>6. CopiesPure'
    BY <2>1, <2>2, <2>3, <2>4 DEF Shape, CopiesPure, Within
  <2> QED
    BY <2>5, <2>6
<1>9. CASE WorkerReset
  <2>1. Shape'
    BY <1>9, ResetFacts DEF Shape, Settling, Passing, Operating, Dumpers, WorkerReset, ResetBudgetAt, Publish, Go
  <2>2. HeldIsLive'
    BY <1>9, ResetFacts DEF Shape, Settling, HeldIsLive, WorkerReset, ResetBudgetAt, Publish, Go
  <2>3. CopiesPure'
    BY <1>9, ResetFacts DEF Shape, Settling, Passing, Operating, Dumpers, CopiesPure, Within, WorkerReset, ResetBudgetAt, Publish, Go
  <2> QED
    BY <2>1, <2>2, <2>3
<1>10. CASE WorkerMark
  <2>1. Shape'
    BY <1>10 DEF Shape, Settling, Passing, Operating, Dumpers, WorkerMark, Go, Mark
  <2>2. HeldIsLive'
    BY <1>10 DEF Shape, Settling, HeldIsLive, WorkerMark, Go, Mark
  <2>3. CopiesPure'
    BY <1>10 DEF Shape, Settling, Passing, Operating, Dumpers, CopiesPure, Within, WorkerMark, Go, Mark
  <2> QED
    BY <2>1, <2>2, <2>3
<1>11. CASE Persist
  <2>1. /\ pass' \in [Dumpers -> Passing]
        /\ \A e \in Dumpers : pass'[e].row \in {Fresh, pass[e].row}
    <3> DEFINE new == [at |-> IF pass["worker"].boot THEN "idle" ELSE "gens",
                       row |-> Fresh, to |-> 0, boot |-> FALSE]
    <3>1. new \in Passing /\ new.row = Fresh
      BY DEF Passing
    <3>2. pass' = [pass EXCEPT !["worker"] = new] /\ "worker" \in Dumpers
      BY <1>11 DEF Persist, Dumpers
    <3> HIDE DEF new
    <3> QED
      BY <3>1, <3>2 DEF Shape
  <2>2. /\ db' \in Entry
        /\ \/ db' = db
           \/ \E e \in Dumpers : db'.usage = pass[e].row.usage /\ db'.lr = pass[e].row.lr
           \/ db'.usage = db.usage /\ db'.lr = db.lr
    <3> DEFINE row == pass["worker"].row
    <3>1. row \in Entry /\ ResetGuard(row) \in BOOLEAN /\ "worker" \in Dumpers
      BY DEF Shape, Passing, Dumpers, ResetGuard
    <3>2. db' = db \/ db' = Written(row, ResetGuard(row))
      BY <1>11 DEF Persist
    <3>3. /\ Written(row, ResetGuard(row)) \in Entry
          /\ \/ /\ Written(row, ResetGuard(row)).usage = row.usage
                /\ Written(row, ResetGuard(row)).lr = row.lr
             \/ /\ Written(row, ResetGuard(row)).usage = db.usage
                /\ Written(row, ResetGuard(row)).lr = db.lr
      BY <3>1, WrittenFacts DEF Shape
    <3> QED
      BY <3>1, <3>2, <3>3 DEF Shape
  <2>3. UNCHANGED <<clock, mem, settle, held, op, landed, spend>>
    BY <1>11 DEF Persist
  <2>4. Shape'
    BY <2>1, <2>2, <2>3 DEF Shape
  <2>5. HeldIsLive'
    BY <2>3 DEF HeldIsLive
  <2>6. CopiesPure'
    BY <2>1, <2>2, <2>3 DEF Shape, CopiesPure, Within
  <2> QED
    BY <2>4, <2>5, <2>6
<1>12. ASSUME NEW d \in Dumpers, ReadGens(d) PROVE BudgetInv'
  <2>1. Shape'
    BY <1>12 DEF Shape, Settling, Passing, Operating, Dumpers, ReadGens
  <2>2. HeldIsLive'
    BY <1>12 DEF Shape, Settling, HeldIsLive, ReadGens
  <2>3. CopiesPure'
    BY <1>12 DEF Shape, Settling, Passing, Operating, Dumpers, CopiesPure, Within, ReadGens
  <2> QED
    BY <2>1, <2>2, <2>3
<1>13. ASSUME NEW d \in Dumpers, ReadRows(d) PROVE BudgetInv'
  <2>1. Shape'
    BY <1>13 DEF Shape, Settling, Passing, Operating, Dumpers, ReadRows
  <2>2. HeldIsLive'
    BY <1>13 DEF Shape, Settling, HeldIsLive, ReadRows
  <2>3. CopiesPure'
    BY <1>13 DEF Shape, Settling, Passing, Operating, Dumpers, CopiesPure, Within, ReadRows
  <2> QED
    BY <2>1, <2>2, <2>3
<1>14. ASSUME NEW d \in Dumpers, Keep(d) PROVE BudgetInv'
  <2>1. Shape'
    BY <1>14 DEF Shape, Settling, Passing, Operating, Dumpers, Keep, Go, Ended
  <2>2. HeldIsLive'
    BY <1>14 DEF Shape, Settling, HeldIsLive, Keep, Go, Ended
  <2>3. CopiesPure'
    BY <1>14 DEF Shape, Settling, Passing, Operating, Dumpers, CopiesPure, Within, Keep, Go, Ended
  <2> QED
    BY <2>1, <2>2, <2>3
<1>15. ASSUME NEW d \in Dumpers, Write(d) PROVE BudgetInv'
  <2>1. /\ pass' \in [Dumpers -> Passing]
        /\ \A e \in Dumpers : pass'[e].row \in {Fresh, pass[e].row}
    <3> DEFINE new == [pass[d] EXCEPT !.at = Ended(d), !.row = Fresh]
    <3>1. new \in Passing /\ new.row = Fresh
      BY Zenon DEF Shape, Passing, Ended
    <3>2. pass' = [pass EXCEPT ![d] = new]
      BY <1>15, Zenon DEF Shape, Passing, Write
    <3> HIDE DEF new
    <3> QED
      BY <3>1, <3>2 DEF Shape
  <2>2. /\ db' \in Entry
        /\ \/ db' = db
           \/ \E e \in Dumpers : db'.usage = pass[e].row.usage /\ db'.lr = pass[e].row.lr
           \/ db'.usage = db.usage /\ db'.lr = db.lr
    <3> DEFINE row == pass[d].row
    <3>1. row \in Entry /\ DumpGuard(row) \in BOOLEAN
      BY DEF Shape, Passing, DumpGuard
    <3>2. db' = db \/ db' = Written(row, DumpGuard(row))
      BY <1>15 DEF Write
    <3>3. /\ Written(row, DumpGuard(row)) \in Entry
          /\ \/ /\ Written(row, DumpGuard(row)).usage = row.usage
                /\ Written(row, DumpGuard(row)).lr = row.lr
             \/ /\ Written(row, DumpGuard(row)).usage = db.usage
                /\ Written(row, DumpGuard(row)).lr = db.lr
      BY <3>1, WrittenFacts, Zenon DEF Shape
    <3> QED
      BY <3>1, <3>2, <3>3, Zenon DEF Shape
  <2>3. UNCHANGED <<clock, mem, settle, held, op, landed, spend>>
    BY <1>15 DEF Write
  <2>4. Shape'
    BY <2>1, <2>2, <2>3, Zenon DEF Shape
  <2>5. HeldIsLive'
    BY <2>3 DEF HeldIsLive
  <2>6. CopiesPure'
    BY <2>1, <2>2, <2>3 DEF Shape, CopiesPure, Within
  <2> QED
    BY <2>4, <2>5, <2>6
<1>16. CASE Cleanup
  <2>1. Shape'
    BY <1>16 DEF Shape, Settling, Passing, Operating, Dumpers, Cleanup, Go
  <2>2. HeldIsLive'
    BY <1>16 DEF Shape, Settling, HeldIsLive, Cleanup, Go
  <2>3. CopiesPure'
    BY <1>16, Zenon DEF Shape, Settling, Passing, Operating, Dumpers, CopiesPure, Within, Cleanup, Go
  <2> QED
    BY <2>1, <2>2, <2>3
<1>17. CASE Stop
  <2>1. Shape'
    BY <1>17 DEF Shape, Settling, Passing, Operating, Dumpers, Stop
  <2>2. HeldIsLive'
    BY <1>17 DEF Shape, Settling, HeldIsLive, Stop
  <2>3. CopiesPure'
    BY <1>17 DEF Shape, Settling, Passing, Operating, Dumpers, CopiesPure, Within, Stop
  <2> QED
    BY <2>1, <2>2, <2>3
<1>18. CASE Stopped
  <2> DEFINE new == [pass["worker"] EXCEPT !.at = "stopped", !.row = Fresh, !.to = 0]
  <2>1. pass["worker"] \in Passing /\ "worker" \in Dumpers
    BY DEF Shape, Dumpers
  <2>2. new \in Passing /\ new.row \in {Fresh, pass["worker"].row}
    BY <2>1, Zenon DEF Passing, Shape
  <2>3. pass' = [pass EXCEPT !["worker"] = new]
    BY <1>18, Zenon DEF Shape, Passing, Stopped
  <2> HIDE DEF new
  <2>4. UNCHANGED <<clock, mem, db, settle, held, op, landed, spend>>
    BY <1>18 DEF Stopped
  <2>5. Shape' /\ HeldIsLive'
    BY <2>1, <2>2, <2>3, <2>4 DEF Shape, HeldIsLive
  <2>6. CopiesPure'
    BY <2>1, <2>2, <2>3, <2>4 DEF Shape, CopiesPure, Within
  <2> QED
    BY <2>5, <2>6
<1>19. ASSUME NEW k \in Edits, OpCommit(k) PROVE BudgetInv'
  <2>1. op' \in Operating /\ op'.snap = op.snap
    BY <1>19, BudgetAssumption, Zenon DEF Shape, Operating, OpCommit
  <2>2. db' \in Entry /\ db'.lr = db.lr /\ (db'.usage = 0 \/ db'.usage = db.usage)
    <3>1. GrantNow \in Override
      BY BudgetAssumption DEF GrantNow, Override, Shape
    <3>2. db \in Entry /\ db' = Committed(k)
      BY <1>19 DEF OpCommit, Shape
    <3>3. k \in {"reset", "grant", "clear", "edit"}
      BY BudgetAssumption
    <3>4. CASE k = "reset"
      BY <3>2, <3>4 DEF Committed, Entry
    <3>5. CASE k = "grant"
      BY <3>1, <3>2, <3>5 DEF Committed, Entry
    <3>6. CASE k = "clear"
      BY <3>2, <3>6 DEF Committed, Entry
    <3>7. CASE k = "edit"
      BY <3>2, <3>7 DEF Committed
    <3> QED
      BY <3>3, <3>4, <3>5, <3>6, <3>7
  <2>3. UNCHANGED <<clock, mem, settle, held, pass, landed, spend>>
    BY <1>19 DEF OpCommit
  <2>4. Shape' /\ HeldIsLive'
    BY <2>1, <2>2, <2>3 DEF Shape, HeldIsLive
  <2>5. CopiesPure'
    <3>1. spend[db.lr] \in Nat
      BY DEF Shape, Entry
    <3> QED
      BY <2>1, <2>2, <2>3, <3>1 DEF CopiesPure, Within
  <2> QED
    BY <2>4, <2>5
<1>20. CASE OpFetch
  <2>1. op' \in Operating /\ op'.snap = op.snap
    <3>1. op \in Operating /\ db.ov \in Override
      BY DEF Shape, Entry
    <3>2. op' = [op EXCEPT !.at = "load", !.ov = db.ov]
      BY <1>20 DEF OpFetch
    <3> QED
      BY <3>1, <3>2, Zenon DEF Operating
  <2>2. UNCHANGED <<clock, mem, db, settle, held, pass, landed, spend>>
    BY <1>20 DEF OpFetch
  <2> QED
    BY <2>1, <2>2, Zenon DEF Shape, HeldIsLive, CopiesPure, Within
<1>21. CASE OpLoad
  <2> DEFINE b == [mem EXCEPT !.ov = op.ov]
  <2>1. b \in Entry /\ b.usage = mem.usage /\ b.lr = mem.lr
    BY DEF Shape, Operating, Entry
  <2> HIDE DEF b
  <2>2. op' = [op EXCEPT !.at = "store", !.snap = b, !.ov = None]
    BY <1>21 DEF OpLoad, b
  <2>3. op' \in Operating /\ op'.snap = b
    BY <2>1, <2>2, Zenon DEF Shape, Operating
  <2>4. UNCHANGED <<clock, mem, db, settle, held, pass, landed, spend>>
    BY <1>21 DEF OpLoad
  <2> QED
    BY <2>1, <2>3, <2>4, Zenon DEF Shape, HeldIsLive, CopiesPure, Within
<1>22. CASE OpStore
  <2>1. Shape'
    BY <1>22, RefreshFacts, Zenon DEF Shape, Settling, Passing, Operating, Dumpers, OpStore, Publish
  <2>2. HeldIsLive'
    BY <1>22, RefreshFacts DEF Shape, Settling, HeldIsLive, OpStore, Publish
  <2>3. CopiesPure'
    BY <1>22, RefreshFacts DEF Shape, Settling, Passing, Operating, Dumpers, CopiesPure, Within, OpStore, Publish
  <2> QED
    BY <2>1, <2>2, <2>3
<1>23. CASE OpRebase
  <2> DEFINE b == [mem EXCEPT !.usage = 0]
  <2>1. b \in Entry /\ b.usage = 0 /\ b.lr = mem.lr
    BY DEF Shape, Entry
  <2> HIDE DEF b
  <2>2. mem' = Refresh(b) /\ held' = {} /\ landed' = 0
    BY <1>23 DEF OpRebase, Publish, b
  <2>3. mem' \in Entry /\ mem'.usage = 0 /\ mem'.lr = mem.lr
    BY <2>1, <2>2, RefreshFacts
  <2>4. op' \in Operating /\ op'.snap = op.snap
    BY <1>23 DEF Shape, Operating, OpRebase
  <2>5. UNCHANGED <<clock, db, settle, pass, spend>>
    BY <1>23 DEF OpRebase
  <2>6. spend[mem.lr] \in Nat
    BY DEF Shape, Entry
  <2> QED
    BY <2>2, <2>3, <2>4, <2>5, <2>6 DEF Shape, HeldIsLive, CopiesPure, Within
<1>24. CASE OpMark
  <2>1. Shape'
    BY <1>24 DEF Shape, Settling, Passing, Operating, Dumpers, OpMark, Mark
  <2>2. HeldIsLive'
    BY <1>24 DEF Shape, Settling, HeldIsLive, OpMark, Mark
  <2>3. CopiesPure'
    BY <1>24 DEF Shape, Settling, Passing, Operating, Dumpers, CopiesPure, Within, OpMark, Mark
  <2> QED
    BY <2>1, <2>2, <2>3
<1>25. CASE Tick
  <2>1. clock' \in Window
    BY <1>25, BudgetAssumption DEF Tick, Shape, Window
  <2>2. UNCHANGED <<mem, db, settle, held, pass, op, landed, spend>>
    BY <1>25 DEF Tick
  <2> QED
    BY <2>1, <2>2, Zenon DEF Shape, HeldIsLive, CopiesPure, Within
<1>26. CASE Crash
  <2>1. mem' \in Entry /\ mem'.usage = db.usage /\ mem'.lr = db.lr
    BY <1>26, RefreshFacts, Zenon DEF Crash, Publish, Shape
  <2>2. /\ settle' \in [Settlements -> Settling]
        /\ \A s \in Settlements : settle'[s].snap = Fresh
    BY <1>26, Zenon DEF Crash, Settling
  <2>3. /\ pass' \in [Dumpers -> Passing]
        /\ \A d \in Dumpers : pass'[d].row = Fresh
    <3> DEFINE P(d) == [at |-> IF d = "worker" /\ db.lr < clock THEN "reset" ELSE "idle",
                        row |-> Fresh,
                        to |-> IF d = "worker" /\ db.lr < clock THEN clock ELSE 0,
                        boot |-> d = "worker" /\ db.lr < clock]
    <3>1. \A d \in Dumpers : P(d) \in Passing /\ P(d).row = Fresh
      BY Zenon DEF Passing, Shape
    <3>2. pass' = [d \in Dumpers |-> P(d)]
      BY <1>26, Zenon DEF Crash
    <3> HIDE DEF P
    <3> QED
      BY <3>1, <3>2
  <2>4. op' \in Operating /\ op'.snap = Fresh
    BY <1>26, Zenon DEF Crash, Operating
  <2>5. UNCHANGED <<clock, db, spend>> /\ held' = {} /\ landed' = db.usage
    BY <1>26, Zenon DEF Crash, Publish
  <2>6. Shape'
    BY <2>1, <2>2, <2>3, <2>4, <2>5, Zenon DEF Shape, Entry
  <2>7. Within(Fresh)
    BY DEF Shape, Within
  <2> QED
    BY <2>1, <2>2, <2>3, <2>4, <2>5, <2>6, <2>7, Zenon DEF HeldIsLive, CopiesPure, Within
<1>27. CASE UNCHANGED vars
  BY <1>27, Zenon DEF vars, Shape, HeldIsLive, CopiesPure, Within
<1> QED
  BY <1>1, <1>2, <1>3, <1>4, <1>5, <1>6, <1>7, <1>8, <1>9, <1>10, <1>11, <1>12, <1>13, <1>14, <1>15, <1>16, <1>17, <1>18, <1>19, <1>20, <1>21, <1>22, <1>23, <1>24, <1>25, <1>26, <1>27, Zenon
     DEF Next, SettleStep, WorkerStep, DumpStep, OpStep

\* Neither the live entry nor the row shows under one window the spend of
\* another (BumpBudgetUsage, writeBudgetBatch, loadFromDatabase), whatever
\* requests, dumps, operators, faults and crashes happen, for budgets and for
\* rate limits.
THEOREM WindowsStayPure == Spec => []WindowPure
<1>1. BudgetInv => WindowPure
  BY DEF BudgetInv, CopiesPure, Within, WindowPure
<1> QED
  BY <1>1, InitBudget, NextBudget, PTL DEF Spec
-----------------------------------------------------------------------------
\* Without operators there is no plain store, and the count is exact.
Counted == op.at = "idle" /\ mem.usage = landed

\* A swap adds one to the entry and to the count; a reset and a restart set both.
LEMMA NextCounted ==
    Edits = {} /\ BudgetInv /\ Counted /\ [Next]_vars => Counted'
<1> SUFFICES ASSUME Edits = {}, BudgetInv, Counted, [Next]_vars PROVE Counted'
  OBVIOUS
<1> USE DEF Counted
<1>1. ASSUME NEW s \in Settlements, BumpReset(s) PROVE Counted'
  <2>1. settle[s].to \in Window /\ mem \in Entry
    BY DEF BudgetInv, Shape, Settling
  <2> QED
    BY <1>1, <2>1, ResetFacts DEF BumpReset, ResetBudgetAt, Publish
<1>2. ASSUME NEW s \in Settlements, Bump(s) PROVE Counted'
  <2>1. CASE Swappable(s)
    <3>1. settle[s].snap = mem /\ mem \in Entry
      BY <1>2, <2>1 DEF Bump, Swappable, BudgetInv, HeldIsLive, Shape
    <3>2. mem' = [mem EXCEPT !.usage = mem.usage + 1] /\ landed' = landed + 1
      BY <1>2, <2>1, <3>1 DEF Bump, Added, Publish
    <3> QED
      BY <1>2, <3>1, <3>2 DEF Bump, Entry
  <2>2. CASE ~Swappable(s)
    BY <1>2, <2>2 DEF Bump
  <2> QED
    BY <2>1, <2>2
<1>3. ASSUME NEW s \in Settlements, Claim(s) \/ BumpLoad(s) \/ BumpMark(s) PROVE Counted'
  BY <1>3 DEF Claim, BumpLoad, BumpMark
<1>4. CASE WorkerReset
  <2>1. pass["worker"].to \in Window /\ mem \in Entry
    BY DEF BudgetInv, Shape, Passing, Dumpers
  <2> QED
    BY <1>4, <2>1, ResetFacts DEF WorkerReset, ResetBudgetAt, Publish
<1>5. CASE WorkerTick \/ WorkerMark \/ Persist
  BY <1>5 DEF WorkerTick, WorkerMark, Persist
<1>6. ASSUME NEW d \in Dumpers, DumpStep(d) PROVE Counted'
  BY <1>6 DEF DumpStep, ReadGens, ReadRows, Keep, Write
<1>7. CASE Cleanup \/ Stop \/ Stopped \/ Tick
  BY <1>7 DEF Cleanup, Stop, Stopped, Tick
<1>8. ASSUME NEW c \in Slots, Admit(c) \/ Finish(c) PROVE Counted'
  BY <1>8 DEF Admit, Finish
<1>9. CASE OpStep
  BY <1>9 DEF OpStep, OpFetch, OpLoad, OpStore, OpRebase, OpMark
<1>10. CASE Crash
  <2>1. db \in Entry
    BY DEF BudgetInv, Shape
  <2> QED
    BY <1>10, <2>1, RefreshFacts, Zenon DEF Crash, Publish
<1>11. CASE UNCHANGED vars
  BY <1>11 DEF vars
<1> QED
  BY <1>1, <1>2, <1>3, <1>4, <1>5, <1>6, <1>7, <1>8, <1>9, <1>10, <1>11, Zenon
     DEF Next, SettleStep, WorkerStep

\* No settlement is lost or counted twice by the swaps (BumpBudgetUsage,
\* ResetBudgetAt), as long as no operator reloads the entry.
THEOREM NoUsageLost == Edits = {} => (Spec => []UsageExact)
<1> SUFFICES ASSUME Edits = {} PROVE Spec => []UsageExact
  OBVIOUS
<1>1. Init => BudgetInv /\ Counted
  BY InitBudget, FreshFacts DEF Init, Counted
<1>2. BudgetInv /\ Counted /\ [Next]_vars => (BudgetInv /\ Counted)'
  BY NextBudget, NextCounted
<1>3. Counted => UsageExact
  BY DEF Counted, UsageExact
<1> QED
  BY <1>1, <1>2, <1>3, PTL DEF Spec
-----------------------------------------------------------------------------
\* A settlement that has claimed its request.
Active(s) == settle[s].at \in {"load", "reset", "mark", "swap"}

\* Of the settlements of a request at most one has claimed it, and none any more once the
\* request is charged; the claim is remembered as long as the request lasts.
Once ==
    /\ call \in [Slots -> {"idle", "sent"}] /\ billed \subseteq Slots
    /\ charges \in [Slots -> {0, 1}]
    /\ marked \subseteq Dumpers /\ crashes \in Nat
    /\ \A s \in Settlements :
         /\ settle[s].at # "none" => call[s[1]] = "sent"
         /\ Active(s) => s[1] \in billed /\ charges[s[1]] = 0
    /\ \A s, t \in Settlements : Active(s) /\ Active(t) /\ s[1] = t[1] => s = t
    /\ \A c \in Slots : call[c] = "sent" /\ c \notin billed => charges[c] = 0

\* No request is in flight at the start.
LEMMA InitOnce == Init => Once
BY DEF Init, Once, Active, Settlements, Dumpers

\* Only Claim makes a settlement active, and only for a request nobody has claimed.
LEMMA NextOnce == BudgetInv /\ Once /\ [Next]_vars => Once'
<1> SUFFICES ASSUME BudgetInv, Once, [Next]_vars PROVE Once'
  OBVIOUS
<1>0. /\ settle \in [Settlements -> Settling] /\ \A s \in Settlements : s[1] \in Slots
      /\ call \in [Slots -> {"idle", "sent"}] /\ billed \subseteq Slots
      /\ charges \in [Slots -> {0, 1}] /\ marked \subseteq Dumpers /\ crashes \in Nat
  BY DEF BudgetInv, Shape, Once, Settlements
<1>1. ASSUME NEW c \in Slots, Admit(c) PROVE Once'
  <2>1. \A s \in Settlements : settle'[s].at = IF s[1] = c THEN "claim" ELSE settle[s].at
    BY <1>0, <1>1 DEF Admit, Settling
  <2>2. /\ call[c] = "idle" /\ call' = [call EXCEPT ![c] = "sent"]
        /\ charges' = [charges EXCEPT ![c] = 0] /\ UNCHANGED <<billed, marked, crashes>>
    BY <1>1 DEF Admit
  <2> QED
    BY <1>0, <2>1, <2>2 DEF Once, Active
<1>2. ASSUME NEW c \in Slots, Finish(c) PROVE Once'
  <2>1. \A s \in Settlements : s[1] = c => settle[s].at = "none"
    BY <1>2 DEF Finish, Settlements
  <2>2. /\ call' = [call EXCEPT ![c] = "idle"] /\ billed' = billed \ {c}
        /\ UNCHANGED <<settle, charges, marked, crashes>>
    BY <1>2 DEF Finish, bookkeeping
  <2> QED
    BY <1>0, <2>1, <2>2, Zenon DEF Once, Active
<1>3. ASSUME NEW s \in Settlements, Claim(s) PROVE Once'
  <2>1. /\ settle[s].at = "claim" /\ billed' = billed \union {s[1]}
        /\ settle'[s].at = IF s[1] \in billed THEN "none" ELSE "load"
        /\ \A t \in Settlements \ {s} : settle'[t] = settle[t]
        /\ UNCHANGED <<call, charges, marked, crashes>>
    BY <1>0, <1>3 DEF Claim, Settling
  <2> QED
    BY <1>0, <2>1 DEF Once, Active
<1>4. ASSUME NEW s \in Settlements, BumpLoad(s) \/ BumpReset(s) \/ BumpMark(s) PROVE Once'
  <2>1. /\ Active(s) /\ settle'[s].at \in {"load", "reset", "mark", "swap"}
        /\ \A t \in Settlements \ {s} : settle'[t] = settle[t]
    BY <1>0, <1>4 DEF BumpLoad, BumpReset, BumpMark, Active, Settling
  <2>2. UNCHANGED <<call, billed, charges, crashes>> /\ marked' \subseteq Dumpers
    BY <1>0, <1>4 DEF BumpLoad, BumpReset, BumpMark, Mark, bookkeeping
  <2> QED
    BY <1>0, <2>1, <2>2 DEF Once, Active
<1>5. ASSUME NEW s \in Settlements, Bump(s) PROVE Once'
  <2>1. /\ Active(s) /\ \A t \in Settlements \ {s} : settle'[t] = settle[t]
        /\ UNCHANGED <<call, billed, marked, crashes>>
    BY <1>0, <1>5 DEF Bump, Active
  <2>2. CASE Swappable(s)
    <3>1. settle'[s].at = "none" /\ charges' = [charges EXCEPT ![s[1]] = charges[s[1]] + 1]
      BY <1>0, <1>5, <2>2 DEF Bump, Settling
    <3> QED
      BY <1>0, <2>1, <3>1 DEF Once, Active
  <2>3. CASE ~Swappable(s)
    <3>1. settle'[s].at = "load" /\ charges' = charges
      BY <1>0, <1>5, <2>3 DEF Bump, Settling, bookkeeping
    <3> QED
      BY <1>0, <2>1, <3>1 DEF Once, Active
  <2> QED
    BY <2>2, <2>3
<1>6. CASE Crash
  <2>1. /\ call' = [c \in Slots |-> "idle"] /\ billed' = {} /\ marked' = {}
        /\ crashes' = crashes + 1 /\ charges' = charges
        /\ \A s \in Settlements : settle'[s].at = "none"
    BY <1>6, Zenon DEF Crash, bookkeeping
  <2> QED
    BY <1>0, <2>1 DEF Once, Active
<1>7. CASE \/ WorkerStep \/ (\E d \in Dumpers : DumpStep(d)) \/ Cleanup \/ Stop \/ Stopped
           \/ (\E k \in Edits : OpCommit(k)) \/ OpStep \/ Tick \/ UNCHANGED vars
  <2>1. UNCHANGED <<call, settle, billed, charges, crashes>>
    BY <1>7, Zenon DEF WorkerStep, WorkerTick, WorkerReset, WorkerMark, Persist, DumpStep, ReadGens,
       ReadRows, Keep, Write, Cleanup, Stop, Stopped, OpCommit, OpStep, OpFetch, OpLoad, OpStore,
       OpRebase, OpMark, Tick, vars, bookkeeping
  <2>2. marked' \subseteq Dumpers
    BY <1>0, <1>7, Zenon DEF WorkerStep, WorkerTick, WorkerReset, WorkerMark, Persist, DumpStep, ReadGens,
       ReadRows, Keep, Write, Cleanup, Stop, Stopped, OpCommit, OpStep, OpFetch, OpLoad, OpStore,
       OpRebase, OpMark, Tick, vars, Mark
  <2> QED
    BY <2>1, <2>2, Zenon DEF Once, Active
<1> QED
  BY <1>1, <1>2, <1>3, <1>4, <1>5, <1>6, <1>7 DEF Next, SettleStep

\* The reply of a request and its cancellation charge it once between them, however they
\* interleave (tryClaimBilling).
THEOREM ChargedOnce == Spec => []BilledOnce
<1>1. Once => BilledOnce
  BY DEF Once, BilledOnce
<1>2. Init => BudgetInv /\ Once
  BY InitBudget, InitOnce
<1>3. BudgetInv /\ Once /\ [Next]_vars => (BudgetInv /\ Once)'
  BY NextBudget, NextOnce
<1> QED
  BY <1>1, <1>2, <1>3, PTL DEF Spec

\* As long as no operator reloads the entry, it counts every settlement exactly and each
\* request is charged once (UpdateUsage, BumpBudgetUsage).
THEOREM UsageIsSound == Edits = {} => (Spec => []UsageSound)
<1> SUFFICES ASSUME Edits = {} PROVE Spec => []UsageSound
  OBVIOUS
<1>1. BudgetInv /\ Once /\ Counted => UsageSound
  <2> SUFFICES ASSUME BudgetInv, Once, Counted PROVE UsageSound
    OBVIOUS
  <2>1. TypeOK
    BY Zenon DEF BudgetInv, Once, Shape, HeldIsLive, Settling, Passing, TypeOK
  <2> QED
    BY <2>1 DEF Once, Counted, UsageSound, UsageExact, BilledOnce
<1>2. Init => BudgetInv /\ Once /\ Counted
  BY InitBudget, InitOnce, FreshFacts DEF Init, Counted
<1>3. BudgetInv /\ Once /\ Counted /\ [Next]_vars => (BudgetInv /\ Once /\ Counted)'
  BY NextBudget, NextOnce, NextCounted
<1> QED
  BY <1>1, <1>2, <1>3, PTL DEF Spec
-----------------------------------------------------------------------------
\* What a batch writes does not move the boundary of the row back.
LEMMA WrittenForward ==
    ASSUME NEW row \in Entry, NEW guard \in BOOLEAN, db \in Entry, guard => db.lr <= row.lr
    PROVE  Written(row, guard).lr >= db.lr
<1>1. db.lr \in Nat /\ row.lr \in Nat
  BY DEF Entry, Window
<1>2. Written(row, guard).lr = IF guard THEN row.lr ELSE db.lr
  BY DEF Written
<1> QED
  BY <1>1, <1>2

\* Without operators every step keeps the boundaries or moves them on, but for a crash.
LEMMA NextForward ==
    /\ Kind = "budget" /\ Edits = {} /\ BudgetInv /\ Once /\ Counted /\ [Next]_vars
    => /\ db'.lr >= db.lr
       /\ mem'.lr >= mem.lr \/ crashes' # crashes
<1> SUFFICES ASSUME Kind = "budget", Edits = {}, BudgetInv, Once, Counted, [Next]_vars
             PROVE  db'.lr >= db.lr /\ (mem'.lr >= mem.lr \/ crashes' # crashes)
  OBVIOUS
<1>0. /\ mem \in Entry /\ db \in Entry /\ mem.lr \in Nat /\ db.lr \in Nat /\ crashes \in Nat
      /\ db.lr >= db.lr /\ mem.lr >= mem.lr
      /\ \A w \in Window : w \in Nat
  BY DEF BudgetInv, Shape, Entry, Window, Once
<1>1. ASSUME NEW w \in Window, ResetBudgetAt(w) PROVE mem'.lr >= mem.lr
  BY <1>0, <1>1, ResetFacts DEF ResetBudgetAt, Publish
<1>2. ASSUME NEW s \in Settlements, BumpReset(s)
      PROVE  db'.lr >= db.lr /\ mem'.lr >= mem.lr
  <2>1. settle[s].to \in Window
    BY DEF BudgetInv, Shape, Settling
  <2> QED
    BY <1>0, <1>1, <1>2, <2>1 DEF BumpReset
<1>3. ASSUME NEW s \in Settlements, Bump(s)
      PROVE  db'.lr >= db.lr /\ mem'.lr >= mem.lr
  <2>1. CASE Swappable(s)
    <3>1. settle[s].snap = mem
      BY <1>3, <2>1 DEF Bump, Swappable, BudgetInv, HeldIsLive
    <3>2. mem' = [mem EXCEPT !.usage = mem.usage + 1] /\ db' = db
      BY <1>3, <2>1, <3>1 DEF Bump, Added, Publish
    <3>3. mem'.lr = mem.lr
      BY <1>0, <3>2 DEF Entry
    <3> QED
      BY <1>0, <3>2, <3>3
  <2>2. CASE ~Swappable(s)
    BY <1>0, <1>3, <2>2 DEF Bump
  <2> QED
    BY <2>1, <2>2
<1>4. CASE WorkerReset
  <2>1. pass["worker"].to \in Window
    BY DEF BudgetInv, Shape, Passing, Dumpers
  <2> QED
    BY <1>0, <1>1, <1>4, <2>1 DEF WorkerReset
<1>5. CASE Persist
  <2> DEFINE row == pass["worker"].row
  <2>1. row \in Entry /\ ResetGuard(row) \in BOOLEAN /\ (ResetGuard(row) => db.lr <= row.lr)
    <3>1. row \in Entry
      BY DEF BudgetInv, Shape, Passing, Dumpers
    <3>2. row.lr \in Nat
      BY <3>1 DEF Entry, Window
    <3> QED
      BY <1>0, <3>1, <3>2 DEF ResetGuard
  <2>2. (db' = Written(row, ResetGuard(row)) \/ db' = db) /\ mem' = mem
    BY <1>5, Zenon DEF Persist
  <2> HIDE DEF row
  <2> QED
    BY <1>0, <2>1, <2>2, WrittenForward
<1>6. ASSUME NEW d \in Dumpers, Write(d) PROVE db'.lr >= db.lr /\ mem'.lr >= mem.lr
  <2> DEFINE row == pass[d].row
  <2>1. row \in Entry /\ DumpGuard(row) \in BOOLEAN /\ (DumpGuard(row) => db.lr <= row.lr)
    <3>1. row \in Entry
      BY DEF BudgetInv, Shape, Passing
    <3> QED
      BY <3>1 DEF DumpGuard
  <2>2. (db' = Written(row, DumpGuard(row)) \/ db' = db) /\ mem' = mem
    BY <1>6 DEF Write
  <2> HIDE DEF row
  <2> QED
    BY <1>0, <2>1, <2>2, WrittenForward
<1>7. CASE Crash
  BY <1>0, <1>7 DEF Crash
<1>8. CASE UNCHANGED <<mem, db>>
  BY <1>0, <1>8
<1>9. ASSUME NEW s \in Settlements, Claim(s) \/ BumpLoad(s) \/ BumpMark(s)
      PROVE  UNCHANGED <<mem, db>>
  BY <1>9 DEF Claim, BumpLoad, BumpMark
<1>10. ASSUME NEW c \in Slots, Admit(c) \/ Finish(c) PROVE UNCHANGED <<mem, db>>
  BY <1>10 DEF Admit, Finish
<1>11. ASSUME NEW d \in Dumpers, ReadGens(d) \/ ReadRows(d) \/ Keep(d) PROVE UNCHANGED <<mem, db>>
  BY <1>11 DEF ReadGens, ReadRows, Keep
<1>12. WorkerTick \/ WorkerMark \/ Cleanup \/ Stop \/ Stopped \/ Tick \/ UNCHANGED vars
       => UNCHANGED <<mem, db>>
  BY Zenon DEF WorkerTick, WorkerMark, Cleanup, Stop, Stopped, Tick, vars
<1>13. ~OpStep
  BY DEF Counted, OpStep, OpFetch, OpLoad, OpStore, OpRebase, OpMark
<1> QED
  BY <1>2, <1>3, <1>4, <1>5, <1>6, <1>7, <1>8, <1>9, <1>10, <1>11, <1>12, <1>13, Zenon
     DEF Next, SettleStep, WorkerStep, DumpStep

\* As long as no operator reloads the entry, a window once closed is not reopened: the
\* boundary of a budget's row never moves back, and that of the live entry only when a crash
\* falls back on the row (ResetBudgetAt, writeBudgetBatch).
THEOREM BoundariesMoveForward == Kind = "budget" /\ Edits = {} => (Spec => BoundaryForward)
<1> SUFFICES ASSUME Kind = "budget", Edits = {} PROVE Spec => BoundaryForward
  OBVIOUS
<1>2. Init => BudgetInv /\ Once /\ Counted
  BY InitBudget, InitOnce, FreshFacts DEF Init, Counted
<1>3. BudgetInv /\ Once /\ Counted /\ [Next]_vars => (BudgetInv /\ Once /\ Counted)'
  BY NextBudget, NextOnce, NextCounted
<1>4. BudgetInv /\ Once /\ Counted /\ [Next]_vars
      => [db'.lr >= db.lr /\ (mem'.lr >= mem.lr \/ crashes' # crashes)]_vars
  BY NextForward
<1> QED
  BY <1>2, <1>3, <1>4, PTL DEF Spec, BoundaryForward
-----------------------------------------------------------------------------
\* An override past its windows is cleared.
LEMMA RefreshClears ==
    ASSUME NEW b \in Entry, b.ov.total > 0 /\ b.lr - b.ov.anchor >= b.ov.total
    PROVE  Refresh(b).ov.total = 0
<1>1. Refresh(b).ov = None
  BY DEF Refresh, Entry
<1> QED
  BY <1>1 DEF None

\* What is published after RefreshOverrideCyclesRemaining holds no override past its windows.
LEMMA RefreshEnds ==
    ASSUME NEW b \in Entry
    PROVE  Refresh(b).ov.total > 0 => Refresh(b).lr < Refresh(b).ov.anchor + Refresh(b).ov.total
<1>1. CASE b.ov.total > 0 /\ b.lr - b.ov.anchor >= b.ov.total
  BY <1>1, RefreshClears
<1>2. CASE ~(b.ov.total > 0 /\ b.lr - b.ov.anchor >= b.ov.total)
  <2>1. Refresh(b) = b
    BY <1>2, Zenon DEF Refresh
  <2>2. b.ov.total > 0 => b.lr < b.ov.anchor + b.ov.total
    BY <1>2, EntryFields
  <2> QED
    BY <2>1, <2>2, Zenon
<1> QED
  BY <1>1, <1>2, Zenon

\* Whatever reloads, resets and restarts happen, an override is in force only in the windows
\* it was granted for (RefreshOverrideCyclesRemaining before every publication).
THEOREM OverridesEnd == Spec => []NoOverstay
<1>1. Init => BudgetInv /\ NoOverstay
  BY InitBudget DEF Init, NoOverstay, Fresh, None
<1>2. BudgetInv /\ NoOverstay /\ [Next]_vars => (BudgetInv /\ NoOverstay)'
  <2> SUFFICES ASSUME BudgetInv, NoOverstay, [Next]_vars PROVE NoOverstay'
    BY NextBudget
  <2>0. mem \in Entry /\ db \in Entry /\ op.snap \in Entry
    BY DEF BudgetInv, Shape, Operating
  <2>1. ASSUME NEW b \in Entry, mem' = Refresh(b) PROVE NoOverstay'
    BY <2>1, RefreshEnds, Zenon DEF NoOverstay
  <2>2. CASE mem' = mem
    BY <2>2, Zenon DEF NoOverstay
  <2>3. ASSUME NEW w \in Window, ResetBudgetAt(w) PROVE NoOverstay'
    <3>1. [mem EXCEPT !.usage = 0, !.lr = w] \in Entry
      BY <2>0, Zenon DEF Entry
    <3> QED
      BY <2>1, <2>3, <3>1 DEF ResetBudgetAt, Publish, ResetToZero
  <2>4. ASSUME NEW s \in Settlements, BumpReset(s) PROVE NoOverstay'
    <3>1. settle[s].to \in Window
      BY DEF BudgetInv, Shape, Settling
    <3> QED
      BY <2>2, <2>3, <2>4, <3>1 DEF BumpReset
  <2>5. ASSUME NEW s \in Settlements, Bump(s) PROVE NoOverstay'
    <3>1. CASE Swappable(s)
      <4>1. settle[s].snap = mem
        BY <2>5, <3>1 DEF Bump, Swappable, BudgetInv, HeldIsLive
      <4>2. mem' = [mem EXCEPT !.usage = mem.usage + 1]
        BY <2>5, <3>1, <4>1 DEF Bump, Added, Publish
      <4>3. mem'.lr = mem.lr /\ mem'.ov = mem.ov
        BY <2>0, <4>2 DEF Entry
      <4> QED
        BY <4>3 DEF NoOverstay
    <3>2. CASE ~Swappable(s)
      BY <2>2, <2>5, <3>2 DEF Bump
    <3> QED
      BY <3>1, <3>2
  <2>6. CASE WorkerReset
    <3>1. pass["worker"].to \in Window
      BY DEF BudgetInv, Shape, Passing, Dumpers
    <3> QED
      BY <2>2, <2>3, <2>6, <3>1 DEF WorkerReset
  <2>7. CASE OpStore
    BY <2>0, <2>1, <2>7 DEF OpStore, Publish
  <2>8. CASE OpRebase
    <3>1. [mem EXCEPT !.usage = 0] \in Entry
      BY <2>0 DEF Entry
    <3> QED
      BY <2>1, <2>8, <3>1 DEF OpRebase, Publish
  <2>9. CASE Crash
    BY <2>0, <2>1, <2>9, Zenon DEF Crash, Publish
  <2>10. ASSUME NEW s \in Settlements, Claim(s) \/ BumpLoad(s) \/ BumpMark(s) PROVE NoOverstay'
    BY <2>2, <2>10 DEF Claim, BumpLoad, BumpMark
  <2>11. ASSUME NEW c \in Slots, Admit(c) \/ Finish(c) PROVE NoOverstay'
    BY <2>2, <2>11 DEF Admit, Finish
  <2>12. ASSUME NEW d \in Dumpers, DumpStep(d) PROVE NoOverstay'
    BY <2>2, <2>12 DEF DumpStep, ReadGens, ReadRows, Keep, Write
  <2>13. ASSUME NEW k \in Edits, OpCommit(k) PROVE NoOverstay'
    BY <2>2, <2>13 DEF OpCommit
  <2>14. CASE \/ WorkerTick \/ WorkerMark \/ Persist \/ Cleanup \/ Stop \/ Stopped \/ Tick
              \/ OpFetch \/ OpLoad \/ OpMark \/ UNCHANGED vars
    BY <2>2, <2>14, Zenon DEF WorkerTick, WorkerMark, Persist, Cleanup, Stop, Stopped, Tick, OpFetch,
       OpLoad, OpMark, vars
  <2> QED
    BY <2>4, <2>5, <2>6, <2>7, <2>8, <2>9, <2>10, <2>11, <2>12, <2>13, <2>14, Zenon
       DEF Next, SettleStep, WorkerStep, OpStep
<1> QED
  BY <1>1, <1>2, PTL DEF Spec
-----------------------------------------------------------------------------
(* How far the requests in flight may carry the usage past its limit.       *)

\* The slots that may still add to the live entry: those whose request is not charged yet,
\* and, once its window is over, only those about to swap it.
Uncharged == {c \in Slots : call[c] = "sent" /\ charges[c] = 0}
Swapping == {c \in Slots : \E p \in Paths : <<c, p>> \in held /\ settle[<<c, p>>].at = "swap"}
Ahead == IF Due(mem) THEN Swapping ELSE Uncharged

\* What a budget without override can reach.
Ceiling == Limit + Cardinality(Slots) - 1

Room == mem.usage + Cardinality(Ahead) <= Ceiling

\* No entry or row shows more, and none has an override.
Low(b) == b.usage <= Ceiling /\ b.ov = None
CopiesLow == Low(mem) /\ Low(db) /\ \A d \in Dumpers : Low(pass[d].row)

\* Sets of slots have a size.
LEMMA SlotSets ==
    /\ Cardinality(Slots) \in Nat /\ Cardinality(Slots) >= 1 /\ Cardinality({}) = 0
    /\ \A T \in SUBSET Slots : Cardinality(T) \in Nat /\ Cardinality(T) <= Cardinality(Slots)
    /\ \A T \in SUBSET Slots : \A U \in SUBSET T : Cardinality(U) <= Cardinality(T)
    /\ \A T \in SUBSET Slots : \A c \in T : Cardinality(T \ {c}) = Cardinality(T) - 1
<1>1. IsFiniteSet(Slots) /\ Slots # {}
  BY BudgetAssumption
<1>2. Cardinality(Slots) \in Nat /\ Cardinality({}) = 0 /\ Cardinality(Slots) # 0
  BY <1>1, FS_CardinalityType, FS_EmptySet, Zenon
<1>3. \A T \in SUBSET Slots :
        IsFiniteSet(T) /\ Cardinality(T) \in Nat /\ Cardinality(T) <= Cardinality(Slots)
  BY <1>1, FS_Subset, FS_CardinalityType, Zenon
<1>4. \A T \in SUBSET Slots : \A U \in SUBSET T : Cardinality(U) <= Cardinality(T)
  BY <1>3, FS_Subset, Zenon
<1>5. \A T \in SUBSET Slots : \A c \in T : Cardinality(T \ {c}) = Cardinality(T) - 1
  BY <1>3, FS_RemoveElement, Zenon
<1>6. Cardinality(Slots) >= 1
  BY <1>2
<1> QED
  BY <1>2, <1>3, <1>4, <1>5, <1>6, Zenon

\* A swap adds for a request that is not charged.
LEMMA SwappingUncharged ==
    ASSUME Once PROVE Swapping \subseteq Uncharged /\ Ahead \subseteq Slots
<1>1. \A c \in Slots, p \in Paths : <<c, p>> \in Settlements /\ <<c, p>>[1] = c
  BY DEF Settlements
<1>2. ASSUME NEW c \in Slots, NEW p \in Paths, settle[<<c, p>>].at = "swap"
      PROVE  call[c] = "sent" /\ charges[c] = 0
  <2>1. settle[<<c, p>>].at # "none" /\ Active(<<c, p>>)
    BY <1>2, Zenon DEF Active
  <2> QED
    BY <1>1, <2>1 DEF Once
<1> QED
  BY <1>2, Zenon DEF Swapping, Uncharged, Ahead

\* The entry is as it was, and nobody else may add to it.
LEMMA RoomKept ==
    ASSUME Once, Shape, Room, mem'.usage = mem.usage, Ahead' \subseteq Ahead
    PROVE  Room'
<1>1. Cardinality(Ahead') <= Cardinality(Ahead) /\ Cardinality(Ahead) \in Nat
  BY SwappingUncharged, SlotSets, Zenon
<1>2. Cardinality(Ahead') \in Nat
  <2>1. Ahead' \in SUBSET Slots
    BY SwappingUncharged, Zenon
  <2> QED
    BY <2>1, SlotSets, Zenon
<1>3. mem.usage \in Nat /\ Ceiling \in Int
  BY BudgetAssumption, SlotSets DEF Shape, Entry, Ceiling
<1>4. Ceiling' = Ceiling
  BY DEF Ceiling
<1> QED
  BY <1>1, <1>2, <1>3, <1>4 DEF Room

\* The entry was emptied, or was checked against the limit.
LEMMA RoomBelow ==
    ASSUME Limit > 0, NEW u \in Nat, u < Limit, mem'.usage = u, Ahead' \subseteq Slots
    PROVE  Room'
<1>1. Cardinality(Ahead') \in Nat /\ Cardinality(Ahead') <= Cardinality(Slots)
  BY SlotSets, Zenon
<1>2. Ceiling' = Ceiling /\ Limit \in Nat /\ Cardinality(Slots) \in Nat
  BY BudgetAssumption, SlotSets, Zenon DEF Ceiling
<1> QED
  BY <1>1, <1>2 DEF Room, Ceiling

\* The same, seen from the two sets the ones ahead are taken from.
LEMMA SameAhead ==
    ASSUME Once, Shape, Room, UNCHANGED <<mem, clock>>, Uncharged' \subseteq Uncharged,
           Swapping' \subseteq Swapping
    PROVE  Room'
<1>1. Ahead' \subseteq Ahead
  BY Zenon DEF Ahead, Due
<1> QED
  BY <1>1, RoomKept, Zenon

\* Once an entry is published no pending swap can succeed.
LEMMA NoAhead == ASSUME held' = {} PROVE Swapping' = {}
BY Zenon DEF Swapping

\* A reset leaves room for all.
LEMMA ResetRoom ==
    ASSUME Limit > 0, Shape, Once', NEW w \in Window, ResetBudgetAt(w)
    PROVE  Room'
<1>1. mem'.usage = 0
  BY ResetFacts DEF ResetBudgetAt, Publish, Shape
<1>2. Ahead' \subseteq Slots
  BY Zenon DEF Ahead, Uncharged, Swapping
<1> QED
  BY <1>1, <1>2, RoomBelow, BudgetAssumption

\* An admission leaves room for every slot, a swap uses up the room of its own, and the
\* end of a window shuts out the requests that have not read the entry yet.
LEMMA NextRoom ==
    /\ Edits = {} /\ Limit > 0 /\ BudgetInv /\ Once /\ Counted /\ CopiesLow /\ Room
    /\ [Next]_vars
    => Room'
<1> SUFFICES ASSUME Edits = {}, Limit > 0, BudgetInv, Once, Counted, CopiesLow, Room,
                    [Next]_vars
             PROVE  Room'
  BY Zenon
<1>0. /\ Shape /\ HeldIsLive /\ Once' /\ settle \in [Settlements -> Settling]
      /\ \A c \in Slots, p \in Paths : <<c, p>> \in Settlements /\ <<c, p>>[1] = c
      /\ call \in [Slots -> {"idle", "sent"}] /\ charges \in [Slots -> {0, 1}]
  BY NextOnce, Zenon DEF BudgetInv, Shape, Settlements, Once
<1>1. ASSUME NEW c \in Slots, Admit(c) PROVE Room'
  <2>1. /\ UNCHANGED <<mem, clock, held>> /\ Allowed /\ call[c] = "idle"
        /\ settle' = [s \in Settlements |->
                       IF s[1] = c THEN [settle[s] EXCEPT !.at = "claim"] ELSE settle[s]]
    BY <1>1, Zenon DEF Admit
  <2>2. CASE Due(mem)
    <3>1. \A s \in Settlements : settle'[s].at \in {"claim", settle[s].at}
      BY <1>0, <2>1 DEF Settling
    <3>2. Swapping' \subseteq Swapping
      BY <1>0, <2>1, <3>1, Zenon DEF Swapping
    <3>3. Ahead' = Swapping' /\ Ahead = Swapping
      BY <2>1, <2>2, Zenon DEF Ahead, Due
    <3> QED
      BY <1>0, <2>1, <3>2, <3>3, RoomKept, Zenon
  <2>3. CASE ~Due(mem)
    <3>1. mem.usage < Limit /\ mem.usage \in Nat
      BY <2>1, <2>3 DEF Allowed, EffectiveMaxLimit, CopiesLow, Low, None, Shape, Entry,
                        BudgetInv
    <3>2. Ahead' \subseteq Slots
      BY Zenon DEF Ahead, Uncharged, Swapping
    <3> QED
      BY <2>1, <3>1, <3>2, RoomBelow
  <2> QED
    BY <2>2, <2>3, Zenon
<1>2. ASSUME NEW c \in Slots, Finish(c) PROVE Room'
  <2>1. UNCHANGED <<mem, clock, held, settle, charges>> /\ call' = [call EXCEPT ![c] = "idle"]
    BY <1>2, Zenon DEF Finish, bookkeeping
  <2>2. Uncharged' \subseteq Uncharged /\ Swapping' \subseteq Swapping
    BY <1>0, <2>1 DEF Uncharged, Swapping
  <2> QED
    BY <1>0, <2>1, <2>2, SameAhead, Zenon
<1>3. ASSUME NEW s \in Settlements, Claim(s) \/ BumpMark(s) PROVE Room'
  <2>1. UNCHANGED <<mem, clock, held, call, charges>>
    BY <1>3, Zenon DEF Claim, BumpMark, bookkeeping
  <2>2. \A t \in Settlements : settle'[t].at \in {"none", "load", settle[t].at}
    BY <1>0, <1>3 DEF Claim, BumpMark, Settling
  <2>3. Uncharged' \subseteq Uncharged /\ Swapping' \subseteq Swapping
    BY <1>0, <2>1, <2>2, Zenon DEF Uncharged, Swapping
  <2> QED
    BY <1>0, <2>1, <2>3, SameAhead, Zenon
<1>4. ASSUME NEW s \in Settlements, BumpLoad(s) PROVE Room'
  <2>1. UNCHANGED <<mem, clock, call, charges>>
    BY <1>4, Zenon DEF BumpLoad, bookkeeping
  <2>2. Uncharged' = Uncharged
    BY <2>1, Zenon DEF Uncharged
  <2>3. CASE Due(mem)
    <3>1. held' = held /\ \A t \in Settlements : settle'[t].at \in {"reset", settle[t].at}
      BY <1>0, <1>4, <2>3, Zenon DEF BumpLoad
    <3>2. Swapping' \subseteq Swapping
      BY <1>0, <3>1, Zenon DEF Swapping
    <3> QED
      BY <1>0, <2>1, <2>2, <3>2, SameAhead, Zenon
  <2>4. CASE ~Due(mem)
    <3>1. Ahead' = Ahead
      BY <2>1, <2>2, <2>4, Zenon DEF Ahead, Due
    <3> QED
      BY <1>0, <2>1, <3>1, RoomKept, Zenon
  <2> QED
    BY <2>3, <2>4, Zenon
<1>5. ASSUME NEW s \in Settlements, BumpReset(s) PROVE Room'
  <2>1. settle[s].to \in Window
    BY <1>0 DEF Settling
  <2>2. CASE ResetBudgetAt(settle[s].to)
    BY <1>0, <2>1, <2>2, ResetRoom, Zenon
  <2>3. CASE ~ResetBudgetAt(settle[s].to)
    <3>1. UNCHANGED <<mem, clock, held, call, charges>>
      BY <1>5, <2>3, Zenon DEF BumpReset, bookkeeping
    <3>2. \A t \in Settlements : settle'[t].at \in {"load", settle[t].at}
      BY <1>0, <1>5, <2>3 DEF BumpReset, Settling
    <3>3. Uncharged' \subseteq Uncharged /\ Swapping' \subseteq Swapping
      BY <1>0, <3>1, <3>2, Zenon DEF Uncharged, Swapping
    <3> QED
      BY <1>0, <3>1, <3>3, SameAhead, Zenon
  <2> QED
    BY <2>2, <2>3, Zenon
<1>6. ASSUME NEW s \in Settlements, Bump(s) PROVE Room'
  <2>1. CASE Swappable(s)
    <3> DEFINE c == s[1]
    <3>1. settle[s].at = "swap" /\ s \in held /\ settle[s].snap = mem
      BY <1>0, <1>6, <2>1 DEF Bump, Swappable, HeldIsLive
    <3>2. PICK p \in Paths : s = <<c, p>> /\ c \in Slots
      BY DEF Settlements
    <3>3. c \in Swapping
      BY <3>1, <3>2, Zenon DEF Swapping
    <3>4. c \in Ahead /\ Ahead \in SUBSET Slots
      BY <3>3, SwappingUncharged, Zenon DEF Ahead
    <3>5. /\ mem' = [mem EXCEPT !.usage = mem.usage + 1] /\ held' = {}
          /\ UNCHANGED <<clock, call>> /\ charges' = [charges EXCEPT ![c] = charges[c] + 1]
      BY <1>6, <2>1, <3>1 DEF Bump, Added, Publish
    <3>6. mem'.usage = mem.usage + 1 /\ mem'.lr = mem.lr /\ mem.usage \in Nat
      BY <1>0, <3>5 DEF Shape, Entry
    <3>7. Ahead' \subseteq Ahead \ {c}
      <4>1. CASE Due(mem)
        BY <3>5, <3>6, <4>1, NoAhead, Zenon DEF Ahead, Due
      <4>2. CASE ~Due(mem)
        <5>1. charges[c] = 0
          BY <3>3, SwappingUncharged, Zenon DEF Uncharged
        <5>2. \A d \in Slots : charges'[d] = IF d = c THEN 1 ELSE charges[d]
          BY <1>0, <3>5, <5>1
        <5>3. Uncharged' \subseteq Uncharged \ {c}
          BY <3>5, <5>2 DEF Uncharged
        <5> QED
          BY <3>5, <3>6, <4>2, <5>3, Zenon DEF Ahead, Due
      <4> QED
        BY <4>1, <4>2, Zenon
    <3>8. Cardinality(Ahead \ {c}) = Cardinality(Ahead) - 1 /\ Cardinality(Ahead) \in Nat
      BY <3>4, SlotSets, Zenon
    <3>9. Cardinality(Ahead') <= Cardinality(Ahead \ {c}) /\ Cardinality(Ahead') \in Nat
      <4>1. Ahead \ {c} \in SUBSET Slots /\ Ahead' \in SUBSET (Ahead \ {c})
            /\ Ahead' \in SUBSET Slots
        BY <3>4, <3>7, Zenon
      <4> QED
        BY <4>1, SlotSets, Zenon
    <3>10. Ceiling' = Ceiling /\ Ceiling \in Int
      BY BudgetAssumption, SlotSets DEF Ceiling
    <3> HIDE DEF c
    <3> QED
      BY <3>6, <3>8, <3>9, <3>10 DEF Room
  <2>2. CASE ~Swappable(s)
    <3>1. UNCHANGED <<mem, clock, held, call, charges>>
      BY <1>6, <2>2, Zenon DEF Bump, bookkeeping
    <3>2. \A t \in Settlements : settle'[t].at \in {"load", settle[t].at}
      BY <1>0, <1>6, <2>2 DEF Bump, Settling
    <3>3. Uncharged' \subseteq Uncharged /\ Swapping' \subseteq Swapping
      BY <1>0, <3>1, <3>2 DEF Uncharged, Swapping
    <3> QED
      BY <1>0, <3>1, <3>3, SameAhead, Zenon
  <2> QED
    BY <2>1, <2>2, Zenon
<1>7. CASE WorkerReset
  <2>1. pass["worker"].to \in Window
    BY <1>0 DEF Shape, Passing, Dumpers
  <2>2. CASE ResetBudgetAt(pass["worker"].to)
    BY <1>0, <2>1, <2>2, ResetRoom, Zenon
  <2>3. CASE ~ResetBudgetAt(pass["worker"].to)
    <3>1. UNCHANGED <<mem, clock, held, call, charges, settle>>
      BY <1>7, <2>3, Zenon DEF WorkerReset, bookkeeping
    <3>2. Uncharged' \subseteq Uncharged /\ Swapping' \subseteq Swapping
      BY <3>1, Zenon DEF Uncharged, Swapping
    <3> QED
      BY <1>0, <3>1, <3>2, SameAhead, Zenon
  <2> QED
    BY <2>2, <2>3, Zenon
<1>8. CASE \/ WorkerTick \/ WorkerMark \/ Persist \/ (\E d \in Dumpers : DumpStep(d))
           \/ Cleanup \/ Stop \/ Stopped \/ UNCHANGED vars
  <2>1. UNCHANGED <<mem, clock, held, call, charges, settle>>
    BY <1>8, Zenon DEF WorkerTick, WorkerMark, Persist, DumpStep, ReadGens, ReadRows, Keep,
           Write, Cleanup, Stop, Stopped, vars, bookkeeping
  <2>2. Uncharged' \subseteq Uncharged /\ Swapping' \subseteq Swapping
    BY <2>1, Zenon DEF Uncharged, Swapping
  <2> QED
    BY <1>0, <2>1, <2>2, SameAhead, Zenon
<1>9. CASE Tick
  <2>1. UNCHANGED <<mem, held, call, charges, settle>> /\ clock' = clock + 1
    BY <1>9, Zenon DEF Tick, bookkeeping
  <2>2. Uncharged' = Uncharged /\ Swapping' = Swapping
    BY <2>1, Zenon DEF Uncharged, Swapping
  <2>3. Due(mem) => Due(mem)'
    <3>1. mem.lr \in Nat /\ clock \in Nat
      BY <1>0, BudgetAssumption DEF Shape, Entry, Window
    <3> QED
      BY <2>1, <3>1 DEF Due
  <2>4. Ahead' \subseteq Ahead
    BY <2>2, <2>3, SwappingUncharged, Zenon DEF Ahead
  <2> QED
    BY <1>0, <2>1, <2>4, RoomKept, Zenon
<1>10. CASE Crash
  <2>1. mem'.usage = db.usage
    BY <1>0, <1>10, RefreshFacts, Zenon DEF Crash, Publish, Shape
  <2>2. held' = {} /\ call' = [c \in Slots |-> "idle"]
    BY <1>10, Zenon DEF Crash, Publish
  <2>3. Uncharged' = {}
    BY <2>2 DEF Uncharged
  <2>4. Ahead' = {}
    BY <2>2, <2>3, NoAhead, Zenon DEF Ahead
  <2>5. Cardinality(Ahead') = 0 /\ db.usage \in Nat /\ Ceiling' = Ceiling
    BY <1>0, <2>4, SlotSets DEF Shape, Entry, Ceiling
  <2> QED
    BY <2>1, <2>5 DEF Room, CopiesLow, Low
<1>11. CASE (\E k \in Edits : OpCommit(k)) \/ OpStep
  BY <1>11 DEF Counted, OpStep, OpFetch, OpLoad, OpStore, OpRebase, OpMark
<1> QED
  BY <1>1, <1>2, <1>3, <1>4, <1>5, <1>6, <1>7, <1>8, <1>9, <1>10, <1>11, Zenon
     DEF Next, SettleStep, WorkerStep

\* A fresh entry is low.
LEMMA FreshLow == ASSUME Limit > 0 PROVE Low(Fresh) /\ None.total = 0 /\ Ceiling \in Nat
BY SlotSets, BudgetAssumption DEF Low, Fresh, None, Ceiling

\* An entry without override is refreshed to itself.
LEMMA RefreshNone == ASSUME NEW b \in Entry, b.ov = None PROVE Refresh(b) = b
BY DEF Refresh, None

\* A batch writes the row, or leaves what is there.
LEMMA WrittenLow ==
    ASSUME NEW row, NEW guard \in BOOLEAN, Low(row), Low(db) PROVE Low(Written(row, guard))
BY Zenon DEF Low, Written

\* A reset leaves no override where there was none.
LEMMA ResetNone ==
    ASSUME mem \in Entry, mem.ov = None, NEW w \in Window, ResetBudgetAt(w)
    PROVE  mem'.ov = None
<1> DEFINE b == [mem EXCEPT !.usage = 0, !.lr = w]
<1>1. b \in Entry /\ b.ov = None
  BY Zenon DEF Entry
<1> HIDE DEF b
<1>2. Refresh(b) = b
  BY <1>1, RefreshNone, Zenon
<1> QED
  BY <1>1, <1>2, Zenon DEF ResetBudgetAt, ResetToZero, Publish, b

\* Only the operators' edits set an override.
LEMMA NextNone ==
    ASSUME Edits = {}, BudgetInv, Counted, CopiesLow, [Next]_vars PROVE mem'.ov = None
<1>0. /\ Shape /\ HeldIsLive /\ mem \in Entry /\ db \in Entry
      /\ mem.ov = None /\ db.ov = None
  BY Zenon DEF BudgetInv, Shape, CopiesLow, Low
<1>1. ASSUME NEW s \in Settlements, BumpReset(s) PROVE mem'.ov = None
  <2>1. settle[s].to \in Window
    BY <1>0 DEF Shape, Settling
  <2> QED
    BY <1>0, <1>1, <2>1, ResetNone, Zenon DEF BumpReset
<1>2. ASSUME NEW s \in Settlements, Bump(s) PROVE mem'.ov = None
  <2>1. CASE Swappable(s)
    <3>1. settle[s].snap = mem
      BY <1>0, <1>2, <2>1 DEF Bump, Swappable, HeldIsLive
    <3>2. mem' = [mem EXCEPT !.usage = mem.usage + 1]
      BY <1>2, <2>1, <3>1 DEF Bump, Added, Publish
    <3> QED
      BY <1>0, <3>2 DEF Entry
  <2>2. CASE ~Swappable(s)
    BY <1>0, <1>2, <2>2, Zenon DEF Bump
  <2> QED
    BY <2>1, <2>2, Zenon
<1>3. CASE WorkerReset
  <2>1. pass["worker"].to \in Window
    BY <1>0 DEF Shape, Passing, Dumpers
  <2> QED
    BY <1>0, <1>3, <2>1, ResetNone, Zenon DEF WorkerReset
<1>4. CASE Crash
  BY <1>0, <1>4, RefreshNone, Zenon DEF Crash, Publish
<1>5. CASE (\E k \in Edits : OpCommit(k)) \/ OpStep
  BY <1>5 DEF Counted, OpStep, OpFetch, OpLoad, OpStore, OpRebase, OpMark
<1>6. ASSUME mem' = mem PROVE mem'.ov = None
  BY <1>0, <1>6, Zenon
<1>7. ASSUME NEW s \in Settlements, Claim(s) \/ BumpLoad(s) \/ BumpMark(s) PROVE mem' = mem
  BY <1>7, Zenon DEF Claim, BumpLoad, BumpMark
<1>8. ASSUME NEW c \in Slots, Admit(c) \/ Finish(c) PROVE mem' = mem
  BY <1>8, Zenon DEF Admit, Finish
<1>9. CASE WorkerTick \/ WorkerMark \/ Persist \/ Cleanup \/ Stop \/ Stopped \/ Tick
  BY <1>6, <1>9, Zenon DEF WorkerTick, WorkerMark, Persist, Cleanup, Stop, Stopped, Tick
<1>10. ASSUME NEW d \in Dumpers, DumpStep(d) PROVE mem' = mem
  BY <1>10, Zenon DEF DumpStep, ReadGens, ReadRows, Keep, Write
<1>11. CASE UNCHANGED vars
  BY <1>6, <1>11, Zenon DEF vars
<1> QED
  BY <1>1, <1>2, <1>3, <1>4, <1>5, <1>6, <1>7, <1>8, <1>9, <1>10, <1>11, Zenon
     DEF Next, SettleStep, WorkerStep

\* The rows are read from the entry, and the batches write them.
LEMMA NextRowsLow ==
    ASSUME Edits = {}, Limit > 0, BudgetInv, Counted, CopiesLow, Low(mem'), [Next]_vars
    PROVE  Low(db') /\ \A d \in Dumpers : Low(pass'[d].row)
<1>0. /\ Low(mem) /\ Low(mem') /\ Low(db) /\ Low(Fresh) /\ \A d \in Dumpers : Low(pass[d].row)
      /\ pass \in [Dumpers -> Passing] /\ "worker" \in Dumpers /\ "final" \in Dumpers
  BY FreshLow DEF BudgetInv, Shape, CopiesLow, Dumpers
<1> DEFINE Goal == Low(db') /\ \A d \in Dumpers : Low(pass'[d].row)
           Rows == \A d \in Dumpers : pass'[d].row \in {pass[d].row, mem, mem', Fresh}
<1>1. ASSUME Rows, db' = db PROVE Goal
  BY <1>0, <1>1, Zenon
<1>2. ASSUME Rows, NEW d \in Dumpers, NEW guard \in BOOLEAN,
             db' = Written(pass[d].row, guard)
      PROVE  Goal
  <2>1. Low(Written(pass[d].row, guard))
    BY <1>0, WrittenLow, Zenon
  <2> QED
    BY <1>0, <1>2, <2>1, Zenon
<1>3. ASSUME pass' = pass PROVE Rows
  BY <1>3, Zenon
<1> SUFFICES Goal
  BY Zenon
<1> HIDE DEF Goal
<1>4. ASSUME NEW s \in Settlements, SettleStep(s) PROVE Goal
  BY <1>1, <1>3, <1>4, Zenon
     DEF SettleStep, Claim, BumpLoad, BumpReset, BumpMark, Bump
<1>5. ASSUME NEW c \in Slots, Admit(c) \/ Finish(c) PROVE Goal
  BY <1>1, <1>3, <1>5, Zenon DEF Admit, Finish
<1>6. CASE Tick \/ UNCHANGED vars
  BY <1>1, <1>3, <1>6, Zenon DEF Tick, vars
<1>7. CASE WorkerTick \/ WorkerReset \/ WorkerMark \/ Cleanup \/ Stop \/ Stopped
  <2>1. db' = db
    BY <1>7, Zenon DEF WorkerTick, WorkerReset, WorkerMark, Cleanup, Stop, Stopped
  <2>2. Rows
    <3>1. CASE WorkerTick
      BY <1>0, <3>1 DEF WorkerTick, Passing
    <3>2. CASE WorkerReset
      BY <1>0, <3>2 DEF WorkerReset, Go, Passing
    <3>3. CASE WorkerMark \/ Cleanup \/ Stop \/ Stopped
      BY <1>0, <3>3 DEF WorkerMark, Cleanup, Stop, Stopped, Go, Passing
    <3> QED
      BY <1>7, <3>1, <3>2, <3>3, Zenon
  <2> HIDE DEF Rows
  <2> QED
    BY <1>1, <2>1, <2>2, Zenon
<1>8. CASE Persist
  <2>1. Rows
    BY <1>0, <1>8, Zenon DEF Persist, Passing
  <2>2. ResetGuard(pass["worker"].row) \in BOOLEAN
    BY DEF ResetGuard
  <2>3. db' = db \/ db' = Written(pass["worker"].row, ResetGuard(pass["worker"].row))
    BY <1>8, Zenon DEF Persist
  <2> HIDE DEF Rows
  <2> QED
    BY <1>0, <1>1, <1>2, <2>1, <2>2, <2>3, Zenon
<1>9. ASSUME NEW d \in Dumpers, DumpStep(d) PROVE Goal
  <2>1. Rows
    <3>1. CASE ReadGens(d) \/ ReadRows(d)
      BY <1>0, <3>1 DEF ReadGens, ReadRows, Passing
    <3>2. CASE Keep(d)
      BY <1>0, <3>2 DEF Keep, Go, Passing
    <3>3. CASE Write(d)
      BY <1>0, <3>3 DEF Write, Passing
    <3> QED
      BY <1>9, <3>1, <3>2, <3>3, Zenon DEF DumpStep
  <2>2. DumpGuard(pass[d].row) \in BOOLEAN
    BY DEF DumpGuard
  <2>3. db' = db \/ db' = Written(pass[d].row, DumpGuard(pass[d].row))
    BY <1>9, Zenon DEF DumpStep, ReadGens, ReadRows, Keep, Write
  <2> HIDE DEF Rows
  <2> QED
    BY <1>1, <1>2, <2>1, <2>2, <2>3, Zenon
<1>10. CASE Crash
  <2>1. Rows
    BY <1>0, <1>10, Zenon DEF Crash
  <2>2. db' = db
    BY <1>10, Zenon DEF Crash
  <2> HIDE DEF Rows
  <2> QED
    BY <1>1, <2>1, <2>2, Zenon
<1>11. CASE (\E k \in Edits : OpCommit(k)) \/ OpStep
  BY <1>11 DEF Counted, OpStep, OpFetch, OpLoad, OpStore, OpRebase, OpMark
<1> QED
  BY <1>4, <1>5, <1>6, <1>7, <1>8, <1>9, <1>10, <1>11, Zenon DEF Next, WorkerStep

\* Without operators, every copy stays below the ceiling.
LEMMA NextLow ==
    ASSUME Edits = {}, Limit > 0, BudgetInv, Once, Counted, CopiesLow, Room, [Next]_vars
    PROVE  CopiesLow'
<1>1. Room' /\ Shape' /\ Once'
  BY NextRoom, NextOnce, NextBudget, Zenon DEF BudgetInv
<1>2. mem'.usage <= Ceiling'
  <2>1. Ahead' \in SUBSET Slots
    BY Zenon DEF Ahead, Uncharged, Swapping
  <2>2. Cardinality(Ahead') \in Nat
    BY <2>1, SlotSets, Zenon
  <2>3. mem'.usage \in Nat /\ Ceiling' \in Int
    BY <1>1, BudgetAssumption, SlotSets DEF Shape, Entry, Ceiling
  <2> QED
    BY <1>1, <2>2, <2>3 DEF Room
<1>3. Low(mem')
  BY <1>2, NextNone, Zenon DEF Low
<1>4. Low(db') /\ \A d \in Dumpers : Low(pass'[d].row)
  BY <1>3, NextRowsLow, Zenon
<1> QED
  BY <1>3, <1>4, Zenon DEF CopiesLow, Low

\* The overrun of a limit by the requests already admitted is bounded by their number less
\* one, as CheckBudget and BumpBudgetUsage promise together, as long as the limit is
\* positive and no operator edits the entry.
THEOREM OverrunIsBounded ==
    ASSUME Edits = {}, Limit > 0 PROVE Spec => []OvershootBounded
<1> DEFINE Inv == BudgetInv /\ Once /\ Counted /\ CopiesLow /\ Room
<1>1. Init => Inv
  <2> SUFFICES ASSUME Init PROVE Inv
    OBVIOUS
  <2>1. BudgetInv /\ Once /\ Counted
    BY InitBudget, InitOnce, FreshFacts, Zenon DEF Init, Counted
  <2>2. CopiesLow
    BY FreshLow, Zenon DEF Init, CopiesLow
  <2>3. Room
    <3>1. Uncharged = {} /\ Swapping = {}
      BY Zenon DEF Init, Uncharged, Swapping
    <3>2. Ahead = {}
      BY <3>1, Zenon DEF Ahead
    <3>3. mem.usage = 0 /\ Cardinality(Ahead) = 0
      BY <3>2, SlotSets, FreshFacts, Zenon DEF Init
    <3> QED
      BY <3>3, FreshLow DEF Room
  <2> QED
    BY <2>1, <2>2, <2>3, Zenon
<1>2. Inv /\ [Next]_vars => Inv'
  BY NextBudget, NextOnce, NextCounted, NextRoom, NextLow, Zenon
<1>3. Inv => OvershootBounded
  BY DEF CopiesLow, Low, Ceiling, OvershootBounded
<1> QED
  BY <1>1, <1>2, <1>3, PTL DEF Spec
=============================================================================

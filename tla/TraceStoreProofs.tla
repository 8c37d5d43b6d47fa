-------------------------- MODULE TraceStoreProofs --------------------------
(***************************************************************************)
(* Proofs about TraceStore, for any number of requests, objects and        *)
(* connectors: a pooled object has one owner, and, when writers are done   *)
(* at the completion and requests end within the TTL, what is exported for *)
(* a request was written by that request.                                  *)
(***************************************************************************)
EXTENDS TraceStore, TLAPS

\* A flush goroutine that is past EndTrace has an object.
Working ==
    \A f \in Flushes : flush[f].at \in {"snap", "fan"} => flush[f].obj # None

Owned == TypeOK /\ OneOwner /\ Working

\* A writer's pointer is the one in the map, while its request is open.
PtrLive ==
    \A r \in Requests : ptr[r] # None => ptr[r] = traces[r] /\ req[r] = "open"

\* Only dead requests are old, and only completed ones are flushed.
Ended ==
    /\ \A r \in old : req[r] = "dead"
    /\ \A f \in Flushes : flush[f].at # "none" => req[f[1]] = "done"

\* No object that is in use has another request's data.
MapPure == \A r \in Requests : traces[r] # None => data[traces[r]] \subseteq {r}
FlushPure ==
    \A f \in Flushes : flush[f].obj # None => data[flush[f].obj] \subseteq {f[1]}

Pure == PtrLive /\ Ended /\ MapPure /\ FlushPure /\ OwnDataOnly
-----------------------------------------------------------------------------
\* A flush goroutine belongs to a request (CompleteAndFlushTrace).
LEMMA FlushFacts ==
    /\ \A f \in Flushes : f[1] \in Requests
    /\ \A r \in Requests : <<r, 1>> \in Flushes /\ <<r, 1>>[1] = r
    /\ Twice => \A r \in Requests : <<r, 2>> \in Flushes /\ <<r, 2>>[1] = r
BY DEF Flushes

\* Init is a state of the inductive invariant.
LEMMA InitOwned == Init => Owned
<1> SUFFICES ASSUME Init PROVE Owned
  OBVIOUS
<1>1. TypeOK
  BY DEF Init, TypeOK, Places
<1>2. OneOwner /\ Working
  BY TraceAssumption DEF Init, OneOwner, Working
<1> QED
  BY <1>1, <1>2 DEF Owned

\* Every step keeps an object with one owner: ownership moves from the pool to
\* the map, from there to the goroutine whose EndTrace found it or back to the
\* pool by the sweep, and from the goroutine to the pool.
LEMMA NextOwned == Owned /\ [Next]_vars => Owned'
<1> SUFFICES ASSUME Owned, [Next]_vars PROVE Owned'
  OBVIOUS
<1> USE FlushFacts, TraceAssumption DEF Owned
<1>1. ASSUME NEW r \in Requests, Create(r) PROVE Owned'
  <2>1. TypeOK'
    BY <1>1 DEF TypeOK, Create, exports
  <2>2. OneOwner' /\ Working'
    BY <1>1 DEF TypeOK, OneOwner, Working, Create, exports
  <2> QED
    BY <2>1, <2>2
<1>2. ASSUME NEW r \in Requests, Defer(r) PROVE Owned'
  <2>1. TypeOK'
    BY <1>2 DEF TypeOK, Defer, exports
  <2>2. OneOwner' /\ Working'
    BY <1>2 DEF TypeOK, OneOwner, Working, Defer, exports
  <2> QED
    BY <2>1, <2>2
<1>3. ASSUME NEW r \in Requests, Lookup(r) PROVE Owned'
  <2>1. TypeOK'
    BY <1>3 DEF TypeOK, Lookup, exports
  <2>2. OneOwner' /\ Working'
    BY <1>3 DEF TypeOK, OneOwner, Working, Lookup, exports
  <2> QED
    BY <2>1, <2>2
<1>4. ASSUME NEW r \in Requests, Write(r) PROVE Owned'
  <2>1. TypeOK'
    BY <1>4 DEF TypeOK, Write, exports
  <2>2. OneOwner' /\ Working'
    BY <1>4 DEF TypeOK, OneOwner, Working, Write, exports
  <2> QED
    BY <2>1, <2>2
<1>5. ASSUME NEW r \in Requests, Complete(r) PROVE Owned'
  <2> DEFINE new == [flush[<<r, 1>>] EXCEPT !.at = "end"]
  <2>1. TypeOK'
    <3>1. <<r, 1>> \in Flushes /\ flush[<<r, 1>>] \in Places
      BY <1>5 DEF TypeOK, Complete
    <3>2. new \in Places
      BY <3>1, Zenon DEF TypeOK, Places
    <3>3. flush' = [flush EXCEPT ![<<r, 1>>] = new]
      BY <1>5 DEF Complete
    <3> HIDE DEF new
    <3>4. flush' \in [Flushes -> Places]
      BY <3>1, <3>2, <3>3 DEF TypeOK
    <3> QED
      BY <1>5, <3>4 DEF TypeOK, Complete, exports
  <2>2. \A g \in Flushes :
           /\ flush'[g].obj = flush[g].obj
           /\ flush'[g].at \in {flush[g].at, "end"}
    <3> DEFINE k == <<r, 1>>
    <3>1. k \in Flushes /\ flush \in [Flushes -> Places]
      BY <1>5 DEF TypeOK
    <3>2. flush' = [flush EXCEPT ![k] = [flush[k] EXCEPT !.at = "end"]]
      BY <1>5 DEF Complete
    <3> HIDE DEF k
    <3> QED
      BY <3>1, <3>2 DEF Places
  <2>3. OneOwner' /\ Working'
    BY <1>5, <2>2 DEF TypeOK, OneOwner, Working, Complete
  <2> QED
    BY <2>1, <2>3
<1>6. ASSUME NEW r \in Requests, CompleteAgain(r) PROVE Owned'
  <2> DEFINE new == [flush[<<r, 2>>] EXCEPT !.at = "end"]
  <2>1. TypeOK'
    <3>1. <<r, 2>> \in Flushes /\ flush[<<r, 2>>] \in Places
      BY <1>6 DEF TypeOK, CompleteAgain
    <3>2. new \in Places
      BY <3>1, Zenon DEF TypeOK, Places
    <3>3. flush' = [flush EXCEPT ![<<r, 2>>] = new]
      BY <1>6 DEF CompleteAgain
    <3> HIDE DEF new
    <3>4. flush' \in [Flushes -> Places]
      BY <3>1, <3>2, <3>3 DEF TypeOK
    <3> QED
      BY <1>6, <3>4 DEF TypeOK, CompleteAgain, exports
  <2>2. OneOwner' /\ Working'
    BY <1>6 DEF TypeOK, Places, OneOwner, Working, CompleteAgain, exports
  <2> QED
    BY <2>1, <2>2
<1>7. ASSUME NEW r \in Requests, Die(r) PROVE Owned'
  <2>1. TypeOK'
    BY <1>7 DEF TypeOK, Die, exports
  <2>2. OneOwner' /\ Working'
    BY <1>7 DEF TypeOK, OneOwner, Working, Die, exports
  <2> QED
    BY <2>1, <2>2
<1>8. ASSUME NEW r \in Requests, Age(r) PROVE Owned'
  <2>1. TypeOK'
    BY <1>8 DEF TypeOK, Age, exports
  <2>2. OneOwner' /\ Working'
    BY <1>8 DEF TypeOK, OneOwner, Working, Age, exports
  <2> QED
    BY <2>1, <2>2
<1>9. ASSUME NEW r \in Requests, SweepTrace(r) PROVE Owned'
  <2>1. TypeOK'
    BY <1>9 DEF TypeOK, SweepTrace, exports
  <2>2. OneOwner' /\ Working'
    BY <1>9 DEF TypeOK, OneOwner, Working, SweepTrace, exports
  <2> QED
    BY <2>1, <2>2
<1>10. ASSUME NEW r \in Requests, SweepDeferred(r) PROVE Owned'
  <2>1. TypeOK'
    BY <1>10 DEF TypeOK, SweepDeferred, exports
  <2>2. OneOwner' /\ Working'
    BY <1>10 DEF TypeOK, OneOwner, Working, SweepDeferred, exports
  <2> QED
    BY <2>1, <2>2
<1>11. ASSUME NEW f \in Flushes, EndTrace(f) PROVE Owned'
  <2> DEFINE new == [flush[f] EXCEPT !.at = IF traces[f[1]] = None THEN "over" ELSE "snap",
                             !.obj = traces[f[1]]]
  <2>1. TypeOK'
    <3>1. f \in Flushes /\ flush[f] \in Places
      BY <1>11 DEF TypeOK, EndTrace
    <3>2. new \in Places
      BY <3>1, Zenon DEF TypeOK, Places
    <3>3. flush' = [flush EXCEPT ![f] = new]
      BY <1>11 DEF EndTrace
    <3> HIDE DEF new
    <3>4. flush' \in [Flushes -> Places]
      BY <3>1, <3>2, <3>3 DEF TypeOK
    <3> QED
      BY <1>11, <3>4 DEF TypeOK, EndTrace, exports
  <2>2. OneOwner' /\ Working'
    BY <1>11 DEF TypeOK, Places, OneOwner, Working, EndTrace, exports
  <2> QED
    BY <2>1, <2>2
<1>12. ASSUME NEW f \in Flushes, Snapshot(f) PROVE Owned'
  <2> DEFINE new == [flush[f] EXCEPT !.at = "fan", !.todo = Connectors]
  <2>1. TypeOK'
    <3>1. f \in Flushes /\ flush[f] \in Places
      BY <1>12 DEF TypeOK, Snapshot
    <3>2. new \in Places
      BY <3>1, Zenon DEF TypeOK, Places
    <3>3. flush' = [flush EXCEPT ![f] = new]
      BY <1>12 DEF Snapshot
    <3> HIDE DEF new
    <3>4. flush' \in [Flushes -> Places]
      BY <3>1, <3>2, <3>3 DEF TypeOK
    <3>5. flush[f].obj \in Objects
      BY <1>12, <3>1 DEF Working, Places, Snapshot
    <3> QED
      BY <1>12, <3>4, <3>5 DEF TypeOK, Snapshot, exports
  <2>2. OneOwner' /\ Working'
    BY <1>12 DEF TypeOK, Places, OneOwner, Working, Snapshot, exports
  <2> QED
    BY <2>1, <2>2
<1>13. ASSUME NEW f \in Flushes, Release(f) PROVE Owned'
  <2> DEFINE new == [flush[f] EXCEPT !.at = "over", !.obj = None]
  <2>1. TypeOK'
    <3>1. f \in Flushes /\ flush[f] \in Places
      BY <1>13 DEF TypeOK, Release
    <3>2. new \in Places
      BY <3>1, Zenon DEF TypeOK, Places
    <3>3. flush' = [flush EXCEPT ![f] = new]
      BY <1>13 DEF Release
    <3> HIDE DEF new
    <3>4. flush' \in [Flushes -> Places]
      BY <3>1, <3>2, <3>3 DEF TypeOK
    <3>5. flush[f].obj \in Objects
      BY <1>13, <3>1 DEF Working, Places, Release
    <3> QED
      BY <1>13, <3>4, <3>5 DEF TypeOK, Release, exports
  <2>2. OneOwner' /\ Working'
    BY <1>13 DEF TypeOK, Places, OneOwner, Working, Release, exports
  <2> QED
    BY <2>1, <2>2
<1>14. ASSUME NEW f \in Flushes, NEW p \in Connectors, Offer(f, p) PROVE Owned'
  <2> DEFINE new == [flush[f] EXCEPT !.todo = flush[f].todo \ {p},
                             !.busy = flush[f].busy \union (IF Room(p) THEN {p} ELSE {})]
  <2>1. TypeOK'
    <3>1. f \in Flushes /\ flush[f] \in Places
      BY <1>14 DEF TypeOK, Offer
    <3>2. new \in Places
      BY <3>1, Zenon DEF TypeOK, Places
    <3>3. flush' = [flush EXCEPT ![f] = new]
      BY <1>14 DEF Offer
    <3> HIDE DEF new
    <3>4. flush' \in [Flushes -> Places]
      BY <3>1, <3>2, <3>3 DEF TypeOK
    <3> QED
      BY <1>14, <3>4 DEF TypeOK, Offer, exports
  <2>2. OneOwner' /\ Working'
    BY <1>14 DEF TypeOK, Places, OneOwner, Working, Offer, exports
  <2> QED
    BY <2>1, <2>2
<1>15. ASSUME NEW f \in Flushes, NEW p \in Connectors, Injected(f, p) PROVE Owned'
  <2> DEFINE new == [flush[f] EXCEPT !.busy = flush[f].busy \ {p}]
  <2>1. TypeOK'
    <3>1. f \in Flushes /\ flush[f] \in Places
      BY <1>15 DEF TypeOK, Injected
    <3>2. new \in Places
      BY <3>1 DEF TypeOK, Places
    <3>3. flush' = [flush EXCEPT ![f] = new]
      BY <1>15 DEF Injected
    <3> HIDE DEF new
    <3>4. flush' \in [Flushes -> Places]
      BY <3>1, <3>2, <3>3 DEF TypeOK
    <3> QED
      BY <1>15, <3>4 DEF TypeOK, Injected, exports
  <2>2. OneOwner' /\ Working'
    BY <1>15 DEF TypeOK, Places, OneOwner, Working, Injected, exports
  <2> QED
    BY <2>1, <2>2
<1>16. CASE UNCHANGED vars
  BY <1>16 DEF vars, TypeOK, OneOwner, Working
<1> QED
  BY <1>1, <1>2, <1>3, <1>4, <1>5, <1>6, <1>7, <1>8, <1>9, <1>10, <1>11, <1>12, <1>13, <1>14, <1>15, <1>16 DEF Next, FlushStep

\* A trace object is never in two hands: the pool, the map and the flush
\* goroutines (CompleteTrace, ReleaseTrace, cleanupOldTraces), whoever asks for
\* the completion and however late.
THEOREM ObjectHasOneOwner == Spec => []OneOwner
<1>1. Init => Owned
  BY InitOwned
<1>2. Owned /\ [Next]_vars => Owned'
  BY NextOwned
<1>3. Owned => OneOwner
  BY DEF Owned
<1> QED
  BY <1>1, <1>2, <1>3, PTL DEF Spec
-----------------------------------------------------------------------------
\* Nothing has been written at the start.
LEMMA InitPure == Init => Pure
BY FlushFacts DEF Init, Pure, PtrLive, Ended, MapPure, FlushPure, OwnDataOnly

\* When no writer outlives the completion and only dead requests age, every
\* step leaves each object in use with its own request's data alone.
LEMMA NextPure == ~Late /\ ~Long /\ Owned /\ Pure /\ [Next]_vars => Pure'
<1> SUFFICES ASSUME ~Late, ~Long, Owned, Pure, [Next]_vars PROVE Pure'
  OBVIOUS
<1> USE FlushFacts, TraceAssumption DEF Owned, TypeOK, OneOwner
<1>1. ASSUME NEW r \in Requests, Create(r) PROVE Pure'
  <2>1. PtrLive'
    BY <1>1 DEF Pure, PtrLive, Ended, Create, exports
  <2>2. Ended'
    BY <1>1 DEF Pure, PtrLive, Ended, Create, exports
  <2>3. MapPure'
    BY <1>1 DEF Pure, PtrLive, Ended, MapPure, Create, exports
  <2>4. FlushPure'
    <3>1. PICK o \in pool : data' = [data EXCEPT ![o] = {}]
      BY <1>1, Zenon DEF Create
    <3>2. \A f \in Flushes : flush[f].obj \in Objects \union {None} /\ flush[f].obj # o
      BY <3>1 DEF Places
    <3> QED
      BY <1>1, <3>1, <3>2, Zenon DEF Pure, FlushPure, Create
  <2>5. OwnDataOnly'
    BY <1>1 DEF Pure, PtrLive, Ended, OwnDataOnly, Create, exports
  <2> QED
    BY <2>1, <2>2, <2>3, <2>4, <2>5 DEF Pure
<1>2. ASSUME NEW r \in Requests, Defer(r) PROVE Pure'
  BY <1>2, Zenon DEF Pure, PtrLive, Ended, MapPure, FlushPure, OwnDataOnly, Defer, exports
<1>3. ASSUME NEW r \in Requests, Lookup(r) PROVE Pure'
  BY <1>3 DEF Pure, PtrLive, Ended, MapPure, FlushPure, OwnDataOnly, Lookup, exports
<1>4. ASSUME NEW r \in Requests, Write(r) PROVE Pure'
  <2>1. PtrLive'
    BY <1>4 DEF Pure, PtrLive, Ended, Write, exports
  <2>2. Ended'
    BY <1>4, Zenon DEF Pure, PtrLive, Ended, Write, exports
  <2>3. MapPure'
    BY <1>4 DEF Pure, PtrLive, Ended, MapPure, Write, exports
  <2>4. FlushPure'
    BY <1>4 DEF Pure, PtrLive, Ended, FlushPure, Write, exports
  <2>5. OwnDataOnly'
    BY <1>4, Zenon DEF Pure, PtrLive, Ended, OwnDataOnly, Write, exports
  <2> QED
    BY <2>1, <2>2, <2>3, <2>4, <2>5 DEF Pure
<1>5. ASSUME NEW r \in Requests, Complete(r) PROVE Pure'
  <2>1. \A g \in Flushes :
           /\ flush'[g].obj = flush[g].obj
           /\ flush'[g].at # "none" => flush[g].at # "none" \/ g = <<r, 1>>
    <3> DEFINE k == <<r, 1>>
    <3>1. k \in Flushes /\ flush \in [Flushes -> Places]
      BY <1>5 DEF Complete
    <3>2. flush' = [flush EXCEPT ![k] = [flush[k] EXCEPT !.at = "end"]]
      BY <1>5 DEF Complete
    <3> HIDE DEF k
    <3>3. \A g \in Flushes :
             /\ flush'[g].obj = flush[g].obj
             /\ flush'[g].at # "none" => flush[g].at # "none" \/ g = k
      BY <3>1, <3>2 DEF Places
    <3> QED
      BY <3>3, Zenon DEF k
  <2>2. PtrLive'
    BY <1>5, <2>1 DEF Pure, PtrLive, Ended, Complete, exports
  <2>3. Ended'
    BY <1>5, <2>1 DEF Pure, PtrLive, Ended, Complete, exports
  <2>4. MapPure'
    BY <1>5, <2>1 DEF Pure, PtrLive, Ended, MapPure, Complete, exports
  <2>5. FlushPure'
    BY <1>5, <2>1 DEF Pure, PtrLive, Ended, FlushPure, Complete, exports
  <2>6. OwnDataOnly'
    BY <1>5, <2>1 DEF Pure, PtrLive, Ended, OwnDataOnly, Complete, exports
  <2> QED
    BY <2>2, <2>3, <2>4, <2>5, <2>6 DEF Pure
<1>6. ASSUME NEW r \in Requests, CompleteAgain(r) PROVE Pure'
  <2>1. \A g \in Flushes :
           /\ flush'[g].obj = flush[g].obj
           /\ flush'[g].at # "none" => flush[g].at # "none" \/ g = <<r, 2>>
    <3> DEFINE k == <<r, 2>>
    <3>1. k \in Flushes /\ flush \in [Flushes -> Places]
      BY <1>6 DEF CompleteAgain
    <3>2. flush' = [flush EXCEPT ![k] = [flush[k] EXCEPT !.at = "end"]]
      BY <1>6 DEF CompleteAgain
    <3> HIDE DEF k
    <3>3. \A g \in Flushes :
             /\ flush'[g].obj = flush[g].obj
             /\ flush'[g].at # "none" => flush[g].at # "none" \/ g = k
      BY <3>1, <3>2 DEF Places
    <3> QED
      BY <3>3 DEF k
  <2>2. PtrLive'
    BY <1>6, <2>1 DEF Pure, PtrLive, Ended, CompleteAgain, exports
  <2>3. Ended'
    BY <1>6, <2>1 DEF Pure, PtrLive, Ended, CompleteAgain, exports
  <2>4. MapPure'
    BY <1>6, <2>1 DEF Pure, PtrLive, Ended, MapPure, CompleteAgain, exports
  <2>5. FlushPure'
    BY <1>6, <2>1 DEF Pure, PtrLive, Ended, FlushPure, CompleteAgain, exports
  <2>6. OwnDataOnly'
    BY <1>6, <2>1 DEF Pure, PtrLive, Ended, OwnDataOnly, CompleteAgain, exports
  <2> QED
    BY <2>2, <2>3, <2>4, <2>5, <2>6 DEF Pure
<1>7. ASSUME NEW r \in Requests, Die(r) PROVE Pure'
  <2>1. PtrLive'
    BY <1>7 DEF Pure, PtrLive, Ended, Die, exports
  <2>2. Ended'
    BY <1>7 DEF Pure, PtrLive, Ended, Die, exports
  <2>3. MapPure'
    BY <1>7, Zenon DEF Pure, PtrLive, Ended, MapPure, Die, exports
  <2>4. FlushPure'
    BY <1>7, Zenon DEF Pure, PtrLive, Ended, FlushPure, Die, exports
  <2>5. OwnDataOnly'
    BY <1>7, Zenon DEF Pure, PtrLive, Ended, OwnDataOnly, Die, exports
  <2> QED
    BY <2>1, <2>2, <2>3, <2>4, <2>5 DEF Pure
<1>8. ASSUME NEW r \in Requests, Age(r) PROVE Pure'
  BY <1>8, Zenon DEF Pure, PtrLive, Ended, MapPure, FlushPure, OwnDataOnly, Age, exports
<1>9. ASSUME NEW r \in Requests, SweepTrace(r) PROVE Pure'
  BY <1>9 DEF Pure, PtrLive, Ended, MapPure, FlushPure, OwnDataOnly, SweepTrace, exports
<1>10. ASSUME NEW r \in Requests, SweepDeferred(r) PROVE Pure'
  BY <1>10, Zenon DEF Pure, PtrLive, Ended, MapPure, FlushPure, OwnDataOnly, SweepDeferred, exports
<1>11. ASSUME NEW f \in Flushes, EndTrace(f) PROVE Pure'
  BY <1>11 DEF Pure, PtrLive, Ended, MapPure, FlushPure, OwnDataOnly, Places, EndTrace, exports
<1>12. ASSUME NEW f \in Flushes, Snapshot(f) PROVE Pure'
  BY <1>12 DEF Pure, PtrLive, Ended, MapPure, FlushPure, OwnDataOnly, Places, Working, Snapshot, exports
<1>13. ASSUME NEW f \in Flushes, Release(f) PROVE Pure'
  BY <1>13 DEF Pure, PtrLive, Ended, MapPure, FlushPure, OwnDataOnly, Places, Working, Release, exports
<1>14. ASSUME NEW f \in Flushes, NEW p \in Connectors, Offer(f, p) PROVE Pure'
  BY <1>14 DEF Pure, PtrLive, Ended, MapPure, FlushPure, OwnDataOnly, Places, Offer, exports
<1>15. ASSUME NEW f \in Flushes, NEW p \in Connectors, Injected(f, p) PROVE Pure'
  BY <1>15 DEF Pure, PtrLive, Ended, MapPure, FlushPure, OwnDataOnly, Places, Injected, exports
<1>16. CASE UNCHANGED vars
  BY <1>16, Zenon DEF vars, Pure, PtrLive, Ended, MapPure, FlushPure, OwnDataOnly
<1> QED
  BY <1>1, <1>2, <1>3, <1>4, <1>5, <1>6, <1>7, <1>8, <1>9, <1>10, <1>11, <1>12, <1>13, <1>14, <1>15, <1>16, Zenon DEF Next, FlushStep

\* A connector is given only what the request wrote whose trace it is, however
\* often the objects are used again (SnapshotForExport, ReleaseTrace), provided
\* its writers are done at the completion and it ends within the TTL.
THEOREM ExportsAreOwn == ~Late /\ ~Long => (Spec => []OwnDataOnly)
<1> SUFFICES ASSUME ~Late, ~Long PROVE Spec => []OwnDataOnly
  OBVIOUS
<1>1. Init => Owned /\ Pure
  BY InitOwned, InitPure
<1>2. Owned /\ Pure /\ [Next]_vars => (Owned /\ Pure)'
  BY NextOwned, NextPure
<1>3. Pure => OwnDataOnly
  BY DEF Pure
<1> QED
  BY <1>1, <1>2, <1>3, PTL DEF Spec
=============================================================================

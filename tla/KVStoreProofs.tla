--------------------------- MODULE KVStoreProofs ---------------------------
(***************************************************************************)
(* KVStore for any number of nodes, goroutines and messages on their way:  *)
(* replicas of concurrent writes converge to the write with the latest     *)
(* time, and what GetAndDelete hands out it hands out once.                *)
(***************************************************************************)
EXTENDS KVStore, TLAPS

\* Goroutines that only set, without expiration, and are not overtaken between reading
\* the clock and their update.
OnlySets == Serialized /\ TTLs = {0} /\ \A p \in Procs : Op[p] = "set"

Steps == {"idle", "stamped", "tell", "done"}
Goroutine == [at : Steps, now : Nat, exp : Nat, got : Procs \cup {"none", "ok", "no"}, when : Nat]

Stored == [val : Procs \cup {"none"}, at : Nat, exp : Nat]

\* The clock is ahead of every time that was read, and no two readings are equal.
Times ==
    /\ clock \in Nat \ {0} /\ proc \in [Procs -> Goroutine]
    /\ \A p \in Procs : proc[p].at # "idle" => 0 < proc[p].now /\ proc[p].now < clock
    /\ \A p, q \in Procs : proc[p].at # "idle" /\ proc[q].at # "idle" /\ p # q
                           => proc[p].now # proc[q].now

\* An entry, on a node or on its way, is what a goroutine that updated its node wrote.
Written(e) == \E p \in Procs : proc[p].at \in {"tell", "done"} /\ e = Entry(p)

Entries ==
    /\ data \in [Nodes -> Stored]
    /\ \A n \in Nodes : data[n] = Nothing \/ Written(data[n])
    /\ \A m \in net : m.to \in Nodes /\ m.set /\ Written(m.e)

\* A goroutine between reading the clock and its update is alone on its node, and newer
\* than what the node holds; after the update its node holds nothing older; once it has
\* told, so does every other node, or its message is still on the way.
Reached ==
    /\ \A p \in Procs : proc[p].exp = 0
    /\ \A p \in Procs : proc[p].at = "stamped" =>
         /\ data[Home[p]].at < proc[p].now
         /\ \A q \in Procs : proc[q].at = "stamped" /\ Home[q] = Home[p] => q = p
    /\ \A p \in Procs : proc[p].at \in {"tell", "done"} => data[Home[p]].at >= proc[p].now
    /\ \A p \in Procs, n \in Nodes :
         proc[p].at = "done" /\ n # Home[p] =>
            \/ data[n].at >= proc[p].now
            \/ \E m \in net : m.to = n /\ m.e = Entry(p)

WritesInv == Times /\ Entries /\ Reached

\* What a node holds has a time.
LEMMA EntryTimes ==
    ASSUME Times, Entries, NEW n \in Nodes
    PROVE  /\ data[n].at \in Nat /\ data[n].at < clock
           /\ data[n] # Nothing => data[n].at > 0
           /\ Nothing.at = 0
<1>1. CASE data[n] = Nothing
  BY <1>1 DEF Nothing, Times
<1>2. CASE Written(data[n])
  <2>1. PICK p \in Procs : proc[p].at \in {"tell", "done"} /\ data[n] = Entry(p)
    BY <1>2 DEF Written
  <2>2. data[n].at = proc[p].now
    BY <2>1 DEF Entry
  <2> QED
    BY <2>1, <2>2 DEF Times, Goroutine, Nothing
<1> QED
  BY <1>1, <1>2 DEF Entries

\* Goroutines that updated stay so, with their entries.
Onward ==
    \A p \in Procs : proc[p].at \in {"tell", "done"} =>
        proc'[p].at \in {"tell", "done"} /\ Entry(p)' = Entry(p)

\* Written, of the state after the step.
WrittenThen(e) == \E p \in Procs : proc'[p].at \in {"tell", "done"} /\ e = Entry(p)'

LEMMA WrittenKept == ASSUME Onward PROVE \A e : Written(e) => WrittenThen(e)
BY DEF Onward, Written, WrittenThen

LEMMA EntriesThen ==
    ASSUME data' \in [Nodes -> Stored],
           \A n \in Nodes : data'[n] = Nothing \/ WrittenThen(data'[n]),
           \A m \in net' : m.to \in Nodes /\ m.set /\ WrittenThen(m.e)
    PROVE  Entries'
BY DEF Entries, WrittenThen, Written, Nothing

\* The goroutines but p are as they were.
LEMMA OneGoroutine ==
    ASSUME Times, NEW p \in Procs, NEW g \in Goroutine, proc' = [proc EXCEPT ![p] = g]
    PROVE  /\ proc' \in [Procs -> Goroutine] /\ proc'[p] = g
           /\ \A q \in Procs \ {p} : proc'[q] = proc[q] /\ Entry(q)' = Entry(q)
BY DEF Times, Entry

\* The initial state.
LEMMA InitWrites == Init => WritesInv
BY DEF Init, WritesInv, Times, Goroutine, Steps, Entries, Stored, Reached, Nothing

\* Reading the clock.
LEMMA StampWrites ==
    ASSUME KVAssumption, OnlySets, WritesInv, NEW p \in Procs, Stamp(p)
    PROVE  WritesInv' /\ OnlyNewer
<1> DEFINE g == [at |-> "stamped", now |-> clock, got |-> "none", when |-> 0, exp |-> 0]
<1>1. /\ proc[p].at = "idle" /\ proc' = [proc EXCEPT ![p] = g] /\ clock' = clock + 1
      /\ \A q \in Procs : Home[q] = Home[p] => proc[q].at # "stamped"
      /\ UNCHANGED <<data, net>>
  BY DEF Stamp, OnlySets
<1>2. g \in Goroutine /\ g.at = "stamped" /\ g.now = clock /\ g.exp = 0
  BY DEF Goroutine, Steps, WritesInv, Times
<1> HIDE DEF g
<1>3. /\ proc' \in [Procs -> Goroutine] /\ proc'[p] = g
      /\ \A q \in Procs \ {p} : proc'[q] = proc[q] /\ Entry(q)' = Entry(q)
  BY <1>1, <1>2, OneGoroutine, Zenon DEF WritesInv
<1>4. Times'
  BY <1>1, <1>2, <1>3 DEF WritesInv, Times, Goroutine
<1>5. Onward
  BY <1>1, <1>3 DEF Onward
<1>6. Entries'
  BY <1>1, <1>5, WrittenKept, EntriesThen DEF WritesInv, Entries
<1>7. data[Home[p]].at < clock
  BY EntryTimes DEF WritesInv, KVAssumption
<1>8. Reached'
  BY <1>1, <1>2, <1>3, <1>7 DEF WritesInv, Reached
<1> QED
  BY <1>1, <1>4, <1>6, <1>8, EntryTimes DEF WritesInv, OnlyNewer

\* The update: it replaces something older.
LEMMA SetWrites ==
    ASSUME KVAssumption, OnlySets, WritesInv, NEW p \in Procs, SetWithTTL(p)
    PROVE  WritesInv' /\ OnlyNewer
<1> DEFINE g == [proc[p] EXCEPT !.at = "tell", !.got = "ok", !.when = clock]
           h == Home[p]
           e == Entry(p)
<1>1. /\ proc[p].at = "stamped" /\ proc' = [proc EXCEPT ![p] = g]
      /\ data' = [data EXCEPT ![h] = e] /\ UNCHANGED <<clock, net>>
  BY Zenon DEF SetWithTTL, Update, WritesInv, Times
<1>2. g \in Goroutine /\ g.at = "tell" /\ g.now = proc[p].now /\ g.exp = proc[p].exp
  BY Zenon DEF Goroutine, Steps, WritesInv, Times
<1> HIDE DEF g
<1>3. /\ proc' \in [Procs -> Goroutine] /\ proc'[p] = g
      /\ \A q \in Procs \ {p} : proc'[q] = proc[q] /\ Entry(q)' = Entry(q)
  BY <1>1, <1>2, OneGoroutine, Zenon DEF WritesInv
<1>4. Times'
  BY <1>1, <1>2, <1>3 DEF WritesInv, Times, Goroutine
<1>5. Onward
  BY <1>1, <1>3 DEF Onward
<1>6. e \in Stored /\ e.at = proc[p].now /\ e = Entry(p)' /\ h \in Nodes
  BY <1>2, <1>3 DEF Entry, Stored, WritesInv, Times, Goroutine, KVAssumption
<1> HIDE DEF e, h
<1>7. /\ data' \in [Nodes -> Stored] /\ data'[h] = e
      /\ \A n \in Nodes \ {h} : data'[n] = data[n]
  BY <1>1, <1>6 DEF WritesInv, Entries
<1>8. WrittenThen(e)
  BY <1>2, <1>3, <1>6 DEF WrittenThen
<1>9. Entries'
  BY <1>1, <1>5, <1>7, <1>8, WrittenKept, EntriesThen DEF WritesInv, Entries
<1>10. \A n \in Nodes : data'[n].at >= data[n].at
  <2>1. data[h].at < e.at
    BY <1>1, <1>6 DEF WritesInv, Reached, h
  <2> QED
    BY <1>6, <1>7, <2>1, EntryTimes DEF WritesInv, Stored
<1>11. Reached'
  BY <1>1, <1>2, <1>3, <1>6, <1>7, <1>10, EntryTimes
     DEF WritesInv, Reached, h, Times, Goroutine, KVAssumption
<1> QED
  BY <1>4, <1>9, <1>10, <1>11 DEF WritesInv, OnlyNewer

\* The delegate is told: a message to every other node.
LEMMA TellWrites ==
    ASSUME KVAssumption, OnlySets, WritesInv, NEW p \in Procs, Tell(p)
    PROVE  WritesInv' /\ OnlyNewer
<1> DEFINE g == [proc[p] EXCEPT !.at = "done"]
           e == Entry(p)
<1>1. /\ proc[p].at = "tell" /\ proc' = [proc EXCEPT ![p] = g] /\ UNCHANGED <<clock, data>>
      /\ net' = net \cup {[to |-> n, set |-> TRUE, e |-> e] : n \in Nodes \ {Home[p]}}
  BY Zenon DEF Tell, OnlySets, WritesInv, Times
<1>2. /\ g \in Goroutine /\ g.at = "done" /\ g.now = proc[p].now /\ g.exp = proc[p].exp
  BY DEF Goroutine, Steps, WritesInv, Times
<1> HIDE DEF g
<1>3. /\ proc' \in [Procs -> Goroutine] /\ proc'[p] = g
      /\ \A q \in Procs \ {p} : proc'[q] = proc[q] /\ Entry(q)' = Entry(q)
  BY <1>1, <1>2, OneGoroutine, Zenon DEF WritesInv
<1>4. Times'
  BY <1>1, <1>2, <1>3 DEF WritesInv, Times, Goroutine
<1>5. e = Entry(p)'
  BY <1>2, <1>3 DEF Entry
<1>6. Onward
  BY <1>1, <1>2, <1>3, <1>5 DEF Onward
<1>7. WrittenThen(e)
  BY <1>2, <1>3, <1>5 DEF WrittenThen
<1> HIDE DEF e
<1>8. \A m \in net' : m \in net \/ (m.to \in Nodes /\ m.set /\ m.e = e)
  BY <1>1
<1>9. Entries'
  <2>1. \A n \in Nodes : data'[n] = Nothing \/ WrittenThen(data'[n])
    BY <1>1, <1>6, WrittenKept DEF WritesInv, Entries
  <2>2. \A m \in net' : m.to \in Nodes /\ m.set /\ WrittenThen(m.e)
    BY <1>6, <1>7, <1>8, WrittenKept DEF WritesInv, Entries
  <2> QED
    BY <1>1, <2>1, <2>2, EntriesThen DEF WritesInv, Entries
<1>10. ASSUME NEW n \in Nodes, n # Home[p] PROVE \E m \in net' : m.to = n /\ m.e = e
  <2> DEFINE m == [to |-> n, set |-> TRUE, e |-> e]
  <2>1. m \in net'
    BY <1>1, <1>10, Zenon
  <2> QED
    BY <2>1
<1>11. Reached'
  <2>1. \A q \in Procs, n \in Nodes :
          proc'[q].at = "done" /\ n # Home[q] =>
            data'[n].at >= proc'[q].now \/ \E m \in net' : m.to = n /\ m.e = Entry(q)'
    <3>1. net \subseteq net' /\ data' = data
      BY <1>1
    <3>2. ASSUME NEW q \in Procs \ {p}, NEW n \in Nodes, proc'[q].at = "done", n # Home[q]
          PROVE  data'[n].at >= proc'[q].now \/ \E m \in net' : m.to = n /\ m.e = Entry(q)'
      BY <1>3, <3>1, <3>2 DEF WritesInv, Reached
    <3> QED
      BY <1>5, <1>10, <3>2
  <2> QED
    BY <1>1, <1>2, <1>3, <2>1 DEF WritesInv, Reached
<1> QED
  BY <1>1, <1>4, <1>9, <1>11, EntryTimes DEF WritesInv, OnlyNewer

\* A message arrives, perhaps again: it replaces something older, or nothing.
LEMMA DeliverWrites ==
    ASSUME KVAssumption, OnlySets, WritesInv, NEW m \in net, Deliver(m)
    PROVE  WritesInv' /\ OnlyNewer
<1> DEFINE t == m.to
           e == m.e
<1>0. t \in Nodes /\ m.set /\ Written(e)
  BY DEF WritesInv, Entries
<1>1. PICK p \in Procs : proc[p].at \in {"tell", "done"} /\ e = Entry(p)
  BY <1>0 DEF Written
<1>2. e \in Stored /\ e.at = proc[p].now /\ e.at \in Nat
  BY <1>1 DEF Entry, Stored, WritesInv, Times, Goroutine
<1>3. /\ UNCHANGED <<clock, proc>> /\ net \ {m} \subseteq net' /\ net' \subseteq net
      /\ \A q \in Procs : Home[q] = t => proc[q].at # "stamped"
  BY DEF Deliver, OnlySets
<1>4. \/ data' = data /\ data[t].at > e.at
      \/ data' = [data EXCEPT ![t] = e] /\ (data[t] = Nothing \/ ~(data[t].at > e.at))
  BY <1>0 DEF Deliver, Newer
<1> HIDE DEF e, t
<1>5. /\ data' \in [Nodes -> Stored] /\ data'[t].at >= e.at /\ data'[t] \in {data[t], e}
      /\ \A n \in Nodes \ {t} : data'[n] = data[n]
  BY <1>0, <1>2, <1>4, EntryTimes DEF WritesInv, Entries
<1>6. \A n \in Nodes : data'[n].at >= data[n].at
  BY <1>0, <1>2, <1>4, <1>5, EntryTimes DEF WritesInv, Nothing
<1>7. Times' /\ Onward /\ \A q \in Procs : Entry(q)' = Entry(q)
  BY <1>3 DEF WritesInv, Times, Onward, Entry
<1>8. Entries'
  <2>1. \A n \in Nodes : data'[n] = Nothing \/ Written(data'[n])
    BY <1>0, <1>5 DEF WritesInv, Entries
  <2> QED
    BY <1>3, <1>5, <1>7, <2>1, WrittenKept, EntriesThen DEF WritesInv, Entries
<1>9. Reached'
  <2>1. ASSUME NEW q \in Procs, NEW n \in Nodes, proc[q].at = "done", n # Home[q]
        PROVE  data'[n].at >= proc[q].now \/ \E k \in net' : k.to = n /\ k.e = Entry(q)
    <3>0. data[n].at \in Nat /\ data'[n].at \in Nat /\ proc[q].now \in Nat
      BY <1>5, EntryTimes DEF WritesInv, Stored, Times, Goroutine
    <3>1. CASE data[n].at >= proc[q].now
      BY <1>6, <3>0, <3>1
    <3>2. CASE \E k \in net : k.to = n /\ k.e = Entry(q)
      <4>1. PICK k \in net : k.to = n /\ k.e = Entry(q)
        BY <3>2
      <4>2. CASE k = m
        <5>1. n = t /\ e = Entry(q)
          BY <4>1, <4>2 DEF t, e
        <5>2. e.at = proc[q].now
          BY <5>1 DEF Entry
        <5> QED
          BY <1>5, <5>1, <5>2
      <4>3. CASE k # m
        BY <1>3, <4>1, <4>3
      <4> QED
        BY <4>2, <4>3
    <3> QED
      BY <2>1, <3>1, <3>2 DEF WritesInv, Reached
  <2>2. \A q \in Procs : proc[q].at = "stamped" => Home[q] # t
    BY <1>3
  <2>3. \A q \in Procs : /\ Home[q] \in Nodes /\ data[Home[q]].at \in Nat
                         /\ data'[Home[q]].at \in Nat /\ proc[q].now \in Nat
    BY <1>5, EntryTimes DEF KVAssumption, WritesInv, Stored, Times, Goroutine
  <2>4. \A q \in Procs : proc'[q].at = "stamped" =>
          /\ data'[Home[q]].at < proc'[q].now
          /\ \A r \in Procs : proc'[r].at = "stamped" /\ Home[r] = Home[q] => r = q
    BY <1>3, <1>5, <2>2, <2>3 DEF WritesInv, Reached
  <2>5. \A q \in Procs : proc'[q].at \in {"tell", "done"} => data'[Home[q]].at >= proc'[q].now
    BY <1>3, <1>6, <2>3 DEF WritesInv, Reached
  <2> QED
    BY <1>3, <1>7, <2>1, <2>4, <2>5 DEF WritesInv, Reached
<1> QED
  BY <1>6, <1>7, <1>8, <1>9 DEF WritesInv, OnlyNewer

\* Every step keeps the invariant and replaces no entry by an older one.
LEMMA NextWrites ==
    ASSUME KVAssumption, OnlySets, WritesInv, [Next]_vars
    PROVE  WritesInv' /\ OnlyNewer
<1>1. ASSUME NEW p \in Procs, Stamp(p) PROVE WritesInv' /\ OnlyNewer
  BY <1>1, StampWrites
<1>2. ASSUME NEW p \in Procs, Operate(p) PROVE WritesInv' /\ OnlyNewer
  BY <1>2, SetWrites, TellWrites, Zenon
     DEF Operate, OnlySets, SetNXWithTTL, GetAndDelete, Delete
<1>3. ASSUME NEW m \in net, Deliver(m) PROVE WritesInv' /\ OnlyNewer
  BY <1>3, DeliverWrites
<1>4. ASSUME NEW n \in Nodes, CleanupExpired(n) PROVE FALSE
  <2>1. data[n] # Nothing /\ data[n].exp # 0
    BY <1>4 DEF CleanupExpired, IsExpired
  <2>2. PICK p \in Procs : data[n] = Entry(p)
    BY <2>1 DEF WritesInv, Entries, Written
  <2> QED
    BY <2>1, <2>2 DEF Entry, WritesInv, Reached
<1>5. CASE UNCHANGED <<data, proc, net>> /\ clock' \in {clock, clock + 1}
  <2>1. Times' /\ Onward
    BY <1>5 DEF WritesInv, Times, Onward, Entry, Goroutine
  <2>2. Entries'
    BY <1>5, <2>1, WrittenKept, EntriesThen DEF WritesInv, Entries
  <2>3. Reached'
    BY <1>5 DEF WritesInv, Reached, Entry
  <2> QED
    BY <1>5, <2>1, <2>2, <2>3, EntryTimes DEF WritesInv, OnlyNewer
<1> QED
  BY <1>1, <1>2, <1>3, <1>4, <1>5 DEF Next, Tick, vars

\* In every behaviour of goroutines that only set.
LEMMA WritesInvariant == KVAssumption /\ OnlySets => (Spec => []WritesInv)
<1> SUFFICES ASSUME KVAssumption, OnlySets PROVE Spec => []WritesInv
  OBVIOUS
<1>1. WritesInv /\ [Next]_vars => WritesInv'
  BY NextWrites
<1> QED
  BY <1>1, InitWrites, PTL DEF Spec

\* Last write wins, for any number of nodes and writers and any order and number of
\* deliveries: when every message has arrived all nodes hold the same entry, and it is
\* the one with the latest time (SetWithTTL, SetRemote).
THEOREM WritesConverge ==
    KVAssumption /\ OnlySets => (Spec => [](Converged /\ NewestWins))
<1> SUFFICES ASSUME KVAssumption, OnlySets PROVE Spec => [](Converged /\ NewestWins)
  OBVIOUS
<1>1. WritesInv => Converged /\ NewestWins
  <2> SUFFICES ASSUME WritesInv, Quiet
               PROVE  /\ \A m, n \in Nodes : Visible(m) = Visible(n)
                      /\ \A n \in Nodes, p \in Procs : proc[p].at = "done" =>
                            data[n].at >= proc[p].now
    BY DEF Converged, NewestWins
  <2>1. \A n \in Nodes, p \in Procs : proc[p].at = "done" => data[n].at >= proc[p].now
    BY DEF WritesInv, Reached, Quiet
  <2>2. ASSUME NEW n \in Nodes PROVE Visible(n) = data[n]
    <3>1. CASE data[n] = Nothing
      BY <3>1 DEF Visible, IsExpired
    <3>2. CASE Written(data[n])
      <4>1. data[n].exp = 0
        BY <3>2 DEF Written, Entry, WritesInv, Reached
      <4> QED
        BY <4>1 DEF Visible, IsExpired
    <3> QED
      BY <3>1, <3>2 DEF WritesInv, Entries
  <2>3. ASSUME NEW m \in Nodes, NEW n \in Nodes, data[m] # Nothing PROVE data[n] = data[m]
    <3>1. PICK p \in Procs : proc[p].at = "done" /\ data[m] = Entry(p)
      BY <2>3 DEF WritesInv, Entries, Written, Quiet
    <3>2. data[n].at >= proc[p].now /\ proc[p].now > 0 /\ proc[p].now \in Nat
      BY <2>1, <3>1 DEF WritesInv, Times, Goroutine
    <3>3. PICK q \in Procs : proc[q].at = "done" /\ data[n] = Entry(q)
      BY <3>2, EntryTimes DEF WritesInv, Entries, Written, Quiet, Nothing
    <3>4. data[m].at = proc[p].now /\ data[n].at = proc[q].now
      BY <3>1, <3>3 DEF Entry
    <3>5. proc[p].now >= proc[q].now /\ proc[q].now \in Nat
      BY <2>1, <3>3, <3>4 DEF WritesInv, Times, Goroutine
    <3>6. p = q
      BY <3>1, <3>2, <3>3, <3>4, <3>5 DEF WritesInv, Times
    <3> QED
      BY <3>1, <3>3, <3>6
  <2> QED
    BY <2>1, <2>2, <2>3
<1> QED
  BY <1>1, WritesInvariant, PTL

\* No node replaces an entry by an older one (SetRemote's comparison).
THEOREM EntriesNeverOlder == KVAssumption /\ OnlySets => (Spec => NeverOlder)
<1> SUFFICES ASSUME KVAssumption, OnlySets PROVE Spec => NeverOlder
  OBVIOUS
<1>1. WritesInv /\ [Next]_vars => [OnlyNewer]_vars
  BY NextWrites
<1> QED
  BY <1>1, WritesInvariant, PTL DEF Spec, NeverOlder
-----------------------------------------------------------------------------
(* Goroutines of one node, with any operations. *)

OneHome == \A p, q \in Procs : Home[p] = Home[q]

\* Messages go to other nodes, and the entry of the node, like a value taken from it, was
\* written by a goroutine that updated; what is taken is not there any more.
Claimed(v) == v \in Procs /\ proc[v].at \in {"tell", "done"}

ClaimsInv ==
    /\ Times
    /\ data \in [Nodes -> Stored]
    /\ \A m \in net : m.to \in Nodes /\ m.e \in Stored
    /\ \A m \in net, p \in Procs : m.to # Home[p]
    /\ \A p \in Procs :
         /\ data[Home[p]] = Nothing
            \/ (Claimed(data[Home[p]].val) /\ data[Home[p]] = Entry(data[Home[p]].val))
         /\ proc[p].at \in {"idle", "stamped"} => proc[p].got = "none"
         /\ proc[p].got \in Procs => Claimed(proc[p].got) /\ data[Home[p]].val # proc[p].got

\* Everything about the goroutines of one node.
TakeInv == ClaimsInv /\ \A p, q \in Procs : p # q /\ proc[p].got \in Procs => proc[p].got # proc[q].got

LEMMA InitTakes == KVAssumption /\ Init => TakeInv
<1> SUFFICES ASSUME KVAssumption, Init PROVE TakeInv
  OBVIOUS
<1>1. Times
  BY DEF Init, Times, Goroutine, Steps
<1>2. \A p \in Procs : /\ Home[p] \in Nodes /\ data[Home[p]] = Nothing
                       /\ proc[p].got = "none" /\ proc[p].got \notin Procs
  BY DEF Init, KVAssumption
<1>3. data \in [Nodes -> Stored] /\ net = {}
  BY DEF Init, Stored, Nothing
<1>4. ClaimsInv
  BY <1>1, <1>2, <1>3 DEF ClaimsInv
<1> QED
  BY <1>2, <1>4 DEF TakeInv

\* The same of the state after the step.
ClaimedThen(v) == v \in Procs /\ proc'[v].at \in {"tell", "done"}
EntryThen(v) == [val |-> v, at |-> proc'[v].now, exp |-> proc'[v].exp]

LEMMA ClaimsThen ==
    ASSUME Times', data' \in [Nodes -> Stored],
           \A m \in net' : m.to \in Nodes /\ m.e \in Stored,
           \A m \in net', p \in Procs : m.to # Home[p],
           \A p \in Procs :
             /\ data'[Home[p]] = Nothing
                \/ (ClaimedThen(data'[Home[p]].val) /\ data'[Home[p]] = EntryThen(data'[Home[p]].val))
             /\ proc'[p].at \in {"idle", "stamped"} => proc'[p].got = "none"
             /\ proc'[p].got \in Procs =>
                  ClaimedThen(proc'[p].got) /\ data'[Home[p]].val # proc'[p].got
    PROVE  ClaimsInv'
BY Zenon DEF ClaimsInv, Claimed, ClaimedThen, Entry, EntryThen, Nothing

\* An update under the lock, in whatever operation: e is what is stored, got the result.
LEMMA UpdateTakes ==
    ASSUME KVAssumption, OneHome, TakeInv, NEW p \in Procs, proc[p].at = "stamped",
           NEW e, NEW got, NEW tell \in BOOLEAN, Update(p, e, got, tell),
           \/ got \in {"ok", "no"} /\ e \in {Nothing, data[Home[p]], Entry(p)}
           \/ e = Nothing /\ data[Home[p]] # Nothing /\ got = data[Home[p]].val
    PROVE  TakeInv'
<1> DEFINE g == [proc[p] EXCEPT !.at = IF tell THEN "tell" ELSE "done", !.got = got, !.when = clock]
           h == Home[p]
<1>1. h \in Nodes /\ \A q \in Procs : Home[q] = h
  BY DEF KVAssumption, OneHome
<1>2. /\ proc' = [proc EXCEPT ![p] = g] /\ data' = [data EXCEPT ![h] = e]
      /\ UNCHANGED <<clock, net>>
  BY Zenon DEF Update, TakeInv, ClaimsInv, Times
<1>3. got \in Procs \cup {"ok", "no"}
  BY Zenon DEF TakeInv, ClaimsInv, Claimed
<1>4. /\ g \in Goroutine /\ g.at \in {"tell", "done"} /\ g.now = proc[p].now
      /\ g.exp = proc[p].exp /\ g.got = got
  BY <1>3, Zenon DEF Goroutine, Steps, TakeInv, ClaimsInv, Times
<1> HIDE DEF g, h
<1>5. /\ proc' \in [Procs -> Goroutine] /\ proc'[p] = g
      /\ \A q \in Procs \ {p} : proc'[q] = proc[q] /\ Entry(q)' = Entry(q)
  BY <1>2, <1>4, OneGoroutine, Zenon DEF TakeInv, ClaimsInv
<1>7. Times'
  BY <1>2, <1>4, <1>5 DEF TakeInv, ClaimsInv, Times, Goroutine
<1>8. \A v : Claimed(v) => ClaimedThen(v) /\ EntryThen(v) = Entry(v)
  BY <1>4, <1>5, Zenon DEF Claimed, ClaimedThen, Entry, EntryThen
<1>9. /\ ClaimedThen(p) /\ Entry(p).val = p /\ Entry(p) \in Stored /\ ~Claimed(p)
      /\ EntryThen(p) = Entry(p)
  BY <1>4, <1>5, Zenon DEF Claimed, ClaimedThen, Entry, EntryThen, Stored, TakeInv, ClaimsInv, Times, Goroutine
<1>10. e \in Stored /\ (e = Nothing \/ (ClaimedThen(e.val) /\ e = EntryThen(e.val)))
  BY <1>1, <1>8, <1>9 DEF h, TakeInv, ClaimsInv, Stored, Nothing
<1>11. data' \in [Nodes -> Stored] /\ data'[h] = e
  BY <1>1, <1>2, <1>10, Zenon DEF TakeInv, ClaimsInv
<1>12. e.val \in {"none", data[h].val, p} /\ "none" \notin Procs
       /\ "ok" \notin Procs /\ "no" \notin Procs
  BY <1>9 DEF Nothing, h, KVAssumption
<1>13. \A q \in Procs \ {p} : proc[q].got \in Procs =>
         Claimed(proc[q].got) /\ proc[q].got # data[h].val /\ proc[q].got # p
  BY <1>1, <1>9 DEF TakeInv, ClaimsInv
<1>14. got \in Procs => e = Nothing /\ got = data[h].val /\ Claimed(got)
  BY <1>12, Zenon DEF h, TakeInv, ClaimsInv
<1>15. \A q \in Procs :
         /\ proc'[q].at \in {"idle", "stamped"} => proc'[q].got = "none"
         /\ proc'[q].got \in Procs => Claimed(proc'[q].got) /\ e.val # proc'[q].got
  <2>1. CASE got \in Procs
    BY <1>4, <1>5, <1>12, <1>13, <1>14, <2>1 DEF TakeInv, ClaimsInv, Nothing
  <2>2. CASE got \notin Procs
    BY <1>4, <1>5, <1>12, <1>13, <2>2 DEF TakeInv, ClaimsInv
  <2> QED
    BY <2>1, <2>2, Zenon
<1>16. \A q, r \in Procs : q # r /\ proc'[q].got \in Procs => proc'[q].got # proc'[r].got
  BY <1>4, <1>5, <1>13, <1>14 DEF TakeInv
<1>17. \A q \in Procs : data'[Home[q]] = e
  BY <1>1, <1>11
<1>18. ClaimsInv'
  <2>1. /\ \A m \in net' : m.to \in Nodes /\ m.e \in Stored
        /\ \A m \in net', q \in Procs : m.to # Home[q]
    BY <1>2, Zenon DEF TakeInv, ClaimsInv
  <2> QED
    BY <1>7, <1>8, <1>10, <1>11, <1>15, <1>17, <2>1, ClaimsThen, Zenon
<1> QED
  BY <1>16, <1>18 DEF TakeInv

\* A step that changes no result and leaves the node's entry or removes it.
LEMMA AsideTakes ==
    ASSUME KVAssumption, TakeInv, Times', data' \in [Nodes -> Stored],
           \A m \in net' : m \in net \/
              (m.to \in Nodes /\ m.e \in Stored /\ \A p \in Procs : m.to # Home[p]),
           \A p \in Procs : data'[Home[p]] \in {data[Home[p]], Nothing},
           \A p \in Procs : /\ proc'[p].got = proc[p].got
                            /\ proc'[p].at \in {"idle", "stamped"}
                               <=> proc[p].at \in {"idle", "stamped"},
           \A p \in Procs : proc[p].at \in {"tell", "done"} =>
                               proc'[p].now = proc[p].now /\ proc'[p].exp = proc[p].exp
    PROVE  TakeInv'
<1>1. \A p \in Procs : proc[p].at \in Steps /\ proc'[p].at \in Steps
  BY Zenon DEF TakeInv, ClaimsInv, Times, Goroutine
<1>2. \A v : Claimed(v) => ClaimedThen(v) /\ EntryThen(v) = Entry(v)
  BY <1>1, Zenon DEF Claimed, ClaimedThen, Entry, EntryThen, Steps
<1>3. Nothing.val \notin Procs
  BY DEF Nothing, KVAssumption
<1>4. ClaimsInv'
  BY <1>2, <1>3, ClaimsThen DEF TakeInv, ClaimsInv
<1> QED
  BY <1>4 DEF TakeInv

\* Every step of goroutines of one node.
LEMMA NextTakes ==
    ASSUME KVAssumption, OneHome, TakeInv, [Next]_vars
    PROVE  TakeInv'
<1>0. Times /\ data \in [Nodes -> Stored] /\ proc \in [Procs -> Goroutine]
      /\ \A p \in Procs : Home[p] \in Nodes
  BY Zenon DEF TakeInv, ClaimsInv, Times, KVAssumption
<1>1. ASSUME NEW p \in Procs, Stamp(p) PROVE TakeInv'
  <2>1. PICK ttl \in Nat :
          proc' = [proc EXCEPT ![p] = [at |-> "stamped", now |-> clock, got |-> "none",
                                       when |-> 0, exp |-> IF ttl > 0 THEN clock + ttl ELSE 0]]
    BY <1>1, Zenon DEF Stamp, KVAssumption
  <2> DEFINE g == [at |-> "stamped", now |-> clock, got |-> "none", when |-> 0,
                   exp |-> IF ttl > 0 THEN clock + ttl ELSE 0]
  <2>2. g \in Goroutine /\ g.at = "stamped" /\ g.now = clock /\ g.got = "none"
    BY <1>0 DEF Goroutine, Steps, Times
  <2>3. proc' = [proc EXCEPT ![p] = g]
    BY <2>1
  <2> HIDE DEF g
  <2>4. /\ proc' \in [Procs -> Goroutine] /\ proc'[p] = g
        /\ \A q \in Procs \ {p} : proc'[q] = proc[q]
    BY <1>0, <2>2, <2>3, OneGoroutine
  <2>5. proc[p].at = "idle" /\ clock' = clock + 1 /\ UNCHANGED <<data, net>>
    BY <1>1, Zenon DEF Stamp
  <2>6. Times'
    BY <1>0, <2>2, <2>4, <2>5 DEF Times, Goroutine
  <2>7. proc[p].got = "none"
    BY <2>5, Zenon DEF TakeInv, ClaimsInv
  <2> QED
    BY <1>0, <2>2, <2>4, <2>5, <2>6, <2>7, AsideTakes, Zenon
<1>2. ASSUME NEW p \in Procs, SetWithTTL(p) PROVE TakeInv'
  BY <1>2, UpdateTakes, Zenon DEF SetWithTTL
<1>3. ASSUME NEW p \in Procs, SetNXWithTTL(p) PROVE TakeInv'
  BY <1>3, UpdateTakes, Zenon DEF SetNXWithTTL
<1>4. ASSUME NEW p \in Procs, GetAndDelete(p) PROVE TakeInv'
  BY <1>4, UpdateTakes, Zenon DEF GetAndDelete
<1>5. ASSUME NEW p \in Procs, Delete(p) PROVE TakeInv'
  BY <1>5, UpdateTakes, Zenon DEF Delete
<1>6. ASSUME NEW p \in Procs, Tell(p) PROVE TakeInv'
  <2> DEFINE g == [proc[p] EXCEPT !.at = "done"]
             e == IF Op[p] \in {"set", "setnx"} THEN Entry(p)
                  ELSE [Nothing EXCEPT !.at = proc[p].now]
  <2>1. /\ proc[p].at = "tell" /\ proc' = [proc EXCEPT ![p] = g] /\ UNCHANGED <<clock, data>>
        /\ net' = net \cup {[to |-> n, set |-> Op[p] \in {"set", "setnx"}, e |-> e]
                              : n \in Nodes \ {Home[p]}}
    BY <1>0, <1>6 DEF Tell
  <2>2. /\ g \in Goroutine /\ g.at = "done" /\ g.now = proc[p].now /\ g.exp = proc[p].exp
        /\ g.got = proc[p].got
    BY <1>0 DEF Goroutine, Steps
  <2>3. e \in Stored
    BY <1>0 DEF Entry, Nothing, Stored, Goroutine
  <2> HIDE DEF e, g
  <2>4. \A m \in net' : m \in net \/ (m.to \in Nodes \ {Home[p]} /\ m.e = e)
    BY <2>1
  <2>5. /\ proc' \in [Procs -> Goroutine] /\ proc'[p] = g
        /\ \A q \in Procs \ {p} : proc'[q] = proc[q]
    BY <1>0, <2>1, <2>2, OneGoroutine, Zenon
  <2>6. Times'
    BY <1>0, <2>1, <2>2, <2>5 DEF Times, Goroutine
  <2>7. \A m \in net' : m \in net \/
          (m.to \in Nodes /\ m.e \in Stored /\ \A q \in Procs : m.to # Home[q])
    BY <2>3, <2>4 DEF OneHome
  <2> QED
    BY <1>0, <2>1, <2>2, <2>5, <2>6, <2>7, AsideTakes, Zenon
<1>7. ASSUME NEW m \in net, Deliver(m) PROVE TakeInv'
  <2>1. /\ UNCHANGED <<clock, proc>> /\ net' \subseteq net
        /\ data' = data \/ (\E e \in {m.e, Nothing} : data' = [data EXCEPT ![m.to] = e])
    BY <1>7, Zenon DEF Deliver
  <2>2. m.to \in Nodes /\ m.e \in Stored /\ Nothing \in Stored /\ \A p \in Procs : m.to # Home[p]
    BY Zenon DEF TakeInv, ClaimsInv, Nothing, Stored
  <2>3. data' \in [Nodes -> Stored] /\ \A p \in Procs : data'[Home[p]] = data[Home[p]]
    BY <1>0, <2>1, <2>2
  <2>4. Times'
    BY <1>0, <2>1, Zenon DEF Times
  <2> QED
    BY <2>1, <2>3, <2>4, AsideTakes
<1>8. ASSUME NEW n \in Nodes, CleanupExpired(n) PROVE TakeInv'
  <2>1. UNCHANGED <<clock, proc, net>> /\ data' = [data EXCEPT ![n] = Nothing]
    BY <1>8 DEF CleanupExpired
  <2>2. data' \in [Nodes -> Stored] /\ \A p \in Procs : data'[Home[p]] \in {data[Home[p]], Nothing}
    BY <1>0, <2>1 DEF Nothing, Stored
  <2>3. Times'
    BY <1>0, <2>1 DEF Times
  <2> QED
    BY <2>1, <2>2, <2>3, AsideTakes
<1>9. CASE UNCHANGED <<data, proc, net>> /\ clock' \in {clock, clock + 1}
  <2>1. Times'
    BY <1>0, <1>9 DEF Times, Goroutine
  <2> QED
    BY <1>0, <1>9, <2>1, AsideTakes
<1> QED
  BY <1>1, <1>2, <1>3, <1>4, <1>5, <1>6, <1>7, <1>8, <1>9 DEF Next, Operate, Tick, vars

\* A value that was stored is handed out by GetAndDelete at most once, for any number of
\* goroutines of a node that set, take, delete and find entries expired.
THEOREM TakenByOne == KVAssumption /\ OneHome => (Spec => []TakenOnce)
<1> SUFFICES ASSUME KVAssumption, OneHome PROVE Spec => []TakenOnce
  OBVIOUS
<1>1. Init => TakeInv
  BY InitTakes
<1>2. TakeInv /\ [Next]_vars => TakeInv'
  BY NextTakes
<1>3. TakeInv => TakenOnce
  BY DEF TakeInv, TakenOnce
<1> QED
  BY <1>1, <1>2, <1>3, PTL DEF Spec

-----------------------------------------------------------------------------
\* On one node that is written with SetNX only, the winner's entry is there until it has
\* expired, was taken, or was deleted.
NoPlainSets == \A p \in Procs : Op[p] # "set"

Won(p) == Op[p] = "setnx" /\ proc[p].got = "ok"
Expired(p) == proc[p].exp # 0 /\ clock >= proc[p].exp
Removed(p) ==
    \E t \in Procs : proc[t].got = p \/ (Op[t] = "delete" /\ proc[t].got = "ok")

NXInv ==
    /\ TakeInv
    /\ NXExclusive
    /\ \A p \in Procs : Won(p) => /\ data[Home[p]] = Entry(p) \/ Expired(p) \/ Removed(p)
                                  /\ proc[p].when <= clock

\* No one has won at the start.
LEMMA InitNX == KVAssumption /\ Init => NXInv
<1> SUFFICES ASSUME KVAssumption, Init PROVE NXInv
  OBVIOUS
<1>1. \A p \in Procs : proc[p].got = "none"
  BY DEF Init
<1> QED
  BY <1>1, InitTakes, Zenon DEF NXInv, NXExclusive, Won

\* Two winners are apart: one came when the other had expired, or one was removed.
Apart(q, r) ==
    \/ proc[q].exp # 0 /\ proc[r].when >= proc[q].exp
    \/ proc[r].exp # 0 /\ proc[q].when >= proc[r].exp
    \/ Removed(q) \/ Removed(r)

\* Two winners now are apart, by the exclusion that holds now.
LEMMA ApartNow ==
    ASSUME OneHome, NXExclusive, NEW q \in Procs, NEW r \in Procs, q # r, Won(q), Won(r)
    PROVE  Apart(q, r)
<1>1. Home[q] = Home[r]
  BY Zenon DEF OneHome
<1>2. \/ proc[q].exp # 0 /\ proc[r].when >= proc[q].exp
      \/ proc[r].exp # 0 /\ proc[q].when >= proc[r].exp
      \/ \E t \in Procs : proc[t].got \in {q, r} \/ (Op[t] = "delete" /\ proc[t].got = "ok")
  BY <1>1, Zenon DEF NXExclusive, Won
<1> QED
  BY <1>2, Zenon DEF Apart, Removed

\* Exclusion after a step, from winners that are apart after it.
LEMMA ApartThen ==
    ASSUME \A q, r \in Procs : q # r /\ Won(q)' /\ Won(r)' => Apart(q, r)'
    PROVE  NXExclusive'
<1> SUFFICES ASSUME NEW q \in Procs, NEW r \in Procs, q # r, Won(q)', Won(r)'
             PROVE  \/ proc'[q].exp # 0 /\ proc'[r].when >= proc'[q].exp
                    \/ proc'[r].exp # 0 /\ proc'[q].when >= proc'[r].exp
                    \/ \E t \in Procs : \/ proc'[t].got \in {q, r}
                                        \/ Op[t] = "delete" /\ proc'[t].got = "ok"
  BY Zenon DEF NXExclusive, Won
<1>1. Apart(q, r)'
  BY Zenon
<1> QED
  BY <1>1, Zenon DEF Apart, Removed

\* The fields of the entry a goroutine writes.
LEMMA EntryShape ==
    ASSUME KVAssumption, NEW q \in Procs
    PROVE  Entry(q).val = q /\ Entry(q).exp = proc[q].exp /\ Entry(q) # Nothing
BY DEF Entry, Nothing, KVAssumption

\* A step in which no result changes, and an entry goes only when it has expired.
StandsAside ==
    /\ clock' \in Nat /\ clock' >= clock
    /\ \A p \in Procs : \/ data'[Home[p]] = data[Home[p]]
                        \/ IsExpired(data[Home[p]], clock)
    /\ \A p \in Procs : proc'[p].got = proc[p].got
    /\ \A p \in Procs : proc[p].at \in {"tell", "done"} =>
         /\ proc'[p].now = proc[p].now /\ proc'[p].exp = proc[p].exp
         /\ proc'[p].when = proc[p].when

\* What such a step leaves of a winner.
LEMMA AsideWinner ==
    ASSUME KVAssumption, NXInv, StandsAside, NEW p \in Procs, Won(p)
    PROVE  /\ Entry(p)' = Entry(p)
           /\ proc'[p].exp = proc[p].exp /\ proc'[p].when = proc[p].when
           /\ proc[p].exp \in Nat /\ proc[p].when \in Nat
<1>1. TakeInv /\ ClaimsInv /\ Times
  BY Zenon DEF NXInv, TakeInv, ClaimsInv
<1>2. proc[p] \in Goroutine
  BY <1>1 DEF Times
<1>3. proc[p].at \in Steps /\ proc[p].exp \in Nat /\ proc[p].when \in Nat
  BY <1>2 DEF Goroutine
<1>4. proc[p].at \notin {"idle", "stamped"}
  BY <1>1, Zenon DEF ClaimsInv, Won
<1>5. proc[p].at \in {"tell", "done"}
  BY <1>3, <1>4 DEF Steps
<1>6. proc'[p].now = proc[p].now /\ proc'[p].exp = proc[p].exp /\ proc'[p].when = proc[p].when
  BY <1>5, Zenon DEF StandsAside
<1>7. Entry(p)' = Entry(p)
  BY <1>6, Zenon DEF Entry
<1> QED
  BY <1>3, <1>6, <1>7, Zenon

\* Such a step keeps everything.
LEMMA AsideNX ==
    ASSUME KVAssumption, OneHome, NXInv, TakeInv', StandsAside
    PROVE  NXInv'
<1>1. \A p \in Procs : (Won(p)' <=> Won(p)) /\ (Removed(p)' <=> Removed(p))
  BY Zenon DEF StandsAside, Won, Removed
<1>2. clock \in Nat
  BY Zenon DEF NXInv, TakeInv, ClaimsInv, Times
<1>3. ASSUME NEW p \in Procs, Won(p)
      PROVE  /\ data'[Home[p]] = Entry(p)' \/ Expired(p)' \/ Removed(p)'
             /\ proc'[p].when <= clock'
  <2>1. (data[Home[p]] = Entry(p) \/ Expired(p) \/ Removed(p)) /\ proc[p].when <= clock
    BY <1>3, Zenon DEF NXInv
  <2>2. clock' \in Nat /\ clock' >= clock
    BY Zenon DEF StandsAside
  <2>3. proc'[p].when <= clock'
    BY <1>2, <1>3, <2>1, <2>2, AsideWinner
  <2>4. Expired(p) => Expired(p)'
    BY <1>2, <1>3, <2>2, AsideWinner DEF Expired
  <2>5. data[Home[p]] = Entry(p) => data'[Home[p]] = Entry(p) \/ Expired(p)
    <3> SUFFICES ASSUME data[Home[p]] = Entry(p), IsExpired(Entry(p), clock) PROVE Expired(p)
      BY Zenon DEF StandsAside
    <3> QED
      BY EntryShape DEF IsExpired, Expired
  <2> QED
    BY <1>1, <1>3, <2>1, <2>3, <2>4, <2>5, AsideWinner, Zenon
<1>4. ASSUME NEW q \in Procs, NEW r \in Procs, q # r, Won(q), Won(r)
      PROVE  Apart(q, r)'
  <2>1. Apart(q, r)
    BY <1>4, ApartNow, Zenon DEF NXInv
  <2> QED
    BY <1>1, <1>4, <2>1, AsideWinner, Zenon DEF Apart
<1>5. NXExclusive'
  BY <1>1, <1>4, ApartThen, Zenon
<1> QED
  BY <1>1, <1>3, <1>5, Zenon DEF NXInv

\* What an update under the lock leaves behind: p's result and time, and the node's entry.
After(p, e, got) ==
    /\ data'[Home[p]] = e /\ clock' = clock
    /\ proc'[p].now = proc[p].now /\ proc'[p].exp = proc[p].exp
    /\ proc'[p].got = got /\ proc'[p].when = clock
    /\ \A q \in Procs \ {p} : proc'[q] = proc[q]

\* What it may do to the entry: it finds the entry gone or expired when it succeeds to SetNX;
\* it removes an entry when that has expired, by taking it, or by deleting it.
Replaces(p, e, got) ==
    /\ Op[p] = "setnx" /\ got = "ok" => Vacant(data[Home[p]], proc[p].now) /\ e = Entry(p)
    /\ \/ e = data[Home[p]]
       \/ Vacant(data[Home[p]], proc[p].now)
       \/ data[Home[p]] # Nothing /\ got = data[Home[p]].val
       \/ Op[p] = "delete" /\ got = "ok"

\* The goroutine p holds the lock, with its stamp taken and no result yet.
Holding(p) ==
    /\ clock \in Nat /\ proc[p].now \in Nat /\ proc[p].now < clock /\ proc[p].got = "none"
    /\ \A q \in Procs : proc[q].exp \in Nat /\ proc[q].when \in Nat

\* Every update under the lock does that.
LEMMA AfterUpdate ==
    ASSUME KVAssumption, proc \in [Procs -> Goroutine], data \in [Nodes -> Stored],
           NEW p \in Procs, NEW e, NEW got, NEW tell \in BOOLEAN, Update(p, e, got, tell)
    PROVE  After(p, e, got)
<1> DEFINE g == [proc[p] EXCEPT !.at = IF tell THEN "tell" ELSE "done", !.got = got, !.when = clock]
<1>1. Home[p] \in Nodes
  BY DEF KVAssumption
<1>2. proc' = [proc EXCEPT ![p] = g] /\ data'[Home[p]] = e /\ clock' = clock
  BY <1>1, Zenon DEF Update
<1>3. g.now = proc[p].now /\ g.exp = proc[p].exp /\ g.got = got /\ g.when = clock
  BY DEF Goroutine
<1> HIDE DEF g
<1>4. proc'[p] = g /\ \A q \in Procs \ {p} : proc'[q] = proc[q]
  BY <1>2
<1> QED
  BY <1>2, <1>3, <1>4 DEF After

\* Who was removed before the update is removed after it.
LEMMA RemovedStays ==
    ASSUME KVAssumption, NEW p \in Procs, NEW e, NEW got, After(p, e, got), Holding(p),
           NEW q \in Procs, Removed(q)
    PROVE  Removed(q)'
<1>1. PICK t \in Procs : proc[t].got = q \/ (Op[t] = "delete" /\ proc[t].got = "ok")
  BY Zenon DEF Removed
<1>2. t # p
  BY <1>1, Zenon DEF Holding, KVAssumption
<1>3. proc'[t] = proc[t]
  BY <1>2, Zenon DEF After
<1> QED
  BY <1>1, <1>3, Zenon DEF Removed

\* An entry that SetNX finds vacant has expired.
LEMMA VacantExpired ==
    ASSUME KVAssumption, NEW p \in Procs, Holding(p), NEW q \in Procs,
           Vacant(Entry(q), proc[p].now)
    PROVE  Expired(q)
<1>1. Entry(q).exp # 0 /\ proc[p].now >= Entry(q).exp
  BY EntryShape, Zenon DEF Vacant, IsExpired
<1> QED
  BY <1>1, EntryShape DEF Holding, Expired

\* A winner whose entry was stored, and is not any longer, has expired or is removed now.
LEMMA WinnerLeft ==
    ASSUME KVAssumption, NEW p \in Procs, NEW e, NEW got, After(p, e, got), Holding(p),
           Replaces(p, e, got), NEW q \in Procs, data[Home[p]] = Entry(q)
    PROVE  e = Entry(q) \/ Expired(q) \/ Removed(q)'
<1>1. \/ e = Entry(q) \/ Vacant(Entry(q), proc[p].now)
      \/ got = q \/ (Op[p] = "delete" /\ got = "ok")
  BY EntryShape, Zenon DEF Replaces
<1>2. proc'[p].got = got
  BY Zenon DEF After
<1> QED
  BY <1>1, <1>2, VacantExpired, Zenon DEF Removed

\* Who wins now comes after every earlier winner has expired or was removed.
LEMMA WinnerAfter ==
    ASSUME KVAssumption, OneHome, NXInv, NEW p \in Procs, NEW e, NEW got, After(p, e, got),
           Holding(p), Replaces(p, e, got), Won(p)', NEW q \in Procs \ {p}, Won(q)
    PROVE  Expired(q) \/ Removed(q)
<1>1. Home[q] = Home[p]
  BY Zenon DEF OneHome
<1>2. data[Home[p]] = Entry(q) \/ Expired(q) \/ Removed(q)
  BY <1>1, Zenon DEF NXInv
<1>3. Vacant(data[Home[p]], proc[p].now)
  BY Zenon DEF After, Won, Replaces
<1> QED
  BY <1>2, <1>3, VacantExpired, Zenon

\* An update under the lock.
LEMMA UpdateNX ==
    ASSUME KVAssumption, OneHome, NXInv, TakeInv', NEW p \in Procs, proc[p].at = "stamped",
           NEW e, NEW got, NEW tell \in BOOLEAN, Update(p, e, got, tell), Replaces(p, e, got)
    PROVE  NXInv'
<1>1. /\ proc \in [Procs -> Goroutine] /\ data \in [Nodes -> Stored] /\ clock \in Nat
      /\ proc[p].now < clock /\ proc[p].now \in Nat /\ proc[p].got = "none"
  BY Zenon DEF NXInv, TakeInv, ClaimsInv, Times, Goroutine
<1>2. Holding(p)
  BY <1>1 DEF Holding, Goroutine
<1>3. After(p, e, got)
  BY <1>1, AfterUpdate
<1>4. \A q \in Procs : Home[q] = Home[p]
  BY Zenon DEF OneHome
<1>5. \A q \in Procs : Entry(q)' = Entry(q)
  BY <1>3, Zenon DEF After, Entry
<1>6. \A q \in Procs \ {p} : (Won(q)' <=> Won(q)) /\ (Expired(q)' <=> Expired(q))
  BY <1>3, Zenon DEF After, Won, Expired
<1>7. \A q \in Procs : Won(q)' => /\ data'[Home[q]] = Entry(q)' \/ Expired(q)' \/ Removed(q)'
                                  /\ proc'[q].when <= clock'
  <2>1. Won(p)' => data'[Home[p]] = Entry(p)'
    BY <1>3, <1>5, Zenon DEF After, Won, Replaces
  <2>2. proc'[p].when <= clock'
    BY <1>1, <1>3 DEF After
  <2>3. ASSUME NEW q \in Procs \ {p}, Won(q)'
        PROVE  /\ data'[Home[q]] = Entry(q)' \/ Expired(q)' \/ Removed(q)'
               /\ proc'[q].when <= clock'
    <3>1. Won(q)
      BY <1>6, <2>3, Zenon
    <3>2. (data[Home[q]] = Entry(q) \/ Expired(q) \/ Removed(q)) /\ proc[q].when <= clock
      BY <3>1, Zenon DEF NXInv
    <3>3. proc'[q].when <= clock'
      BY <1>3, <3>2, Zenon DEF After
    <3>4. data'[Home[q]] = e
      BY <1>3, <1>4, Zenon DEF After
    <3> QED
      BY <1>2, <1>3, <1>4, <1>5, <1>6, <3>2, <3>3, <3>4, WinnerLeft, RemovedStays, Zenon
  <2> QED
    BY <2>1, <2>2, <2>3, Zenon
<1>8. ASSUME NEW q \in Procs \ {p}, Won(p)', Won(q)' PROVE Apart(q, p)' /\ Apart(p, q)'
  <2>1. Expired(q) \/ Removed(q)
    BY <1>2, <1>3, <1>6, <1>8, WinnerAfter, Zenon
  <2>2. CASE Removed(q)
    BY <1>2, <1>3, <2>2, RemovedStays, Zenon DEF Apart
  <2>3. CASE Expired(q)
    BY <1>3, <2>3, Zenon DEF Expired, After, Apart
  <2> QED
    BY <2>1, <2>2, <2>3, Zenon
<1>9. ASSUME NEW q \in Procs \ {p}, NEW r \in Procs \ {p}, q # r, Won(q)', Won(r)'
      PROVE  Apart(q, r)'
  <2>1. Apart(q, r)
    BY <1>6, <1>9, ApartNow, Zenon DEF NXInv
  <2>2. CASE Removed(q) \/ Removed(r)
    BY <1>2, <1>3, <2>2, RemovedStays, Zenon DEF Apart
  <2>3. CASE ~(Removed(q) \/ Removed(r))
    BY <1>3, <2>1, <2>3, Zenon DEF Apart, After
  <2> QED
    BY <2>2, <2>3, Zenon
<1>10. NXExclusive'
  BY <1>8, <1>9, ApartThen, Zenon
<1> QED
  BY <1>7, <1>10, Zenon DEF NXInv

\* Every step of goroutines that set a key only when it is absent.
LEMMA NextNX ==
    ASSUME KVAssumption, OneHome, NoPlainSets, NXInv, [Next]_vars
    PROVE  NXInv'
<1>0. /\ TakeInv /\ TakeInv' /\ clock \in Nat /\ clock' \in Nat
      /\ proc \in [Procs -> Goroutine] /\ data \in [Nodes -> Stored]
      /\ \A p \in Procs : Home[p] \in Nodes
  BY NextTakes, Zenon DEF NXInv, TakeInv, ClaimsInv, Times, KVAssumption
<1>1. ASSUME NEW p \in Procs, Stamp(p) PROVE NXInv'
  <2>0. PICK ttl \in Nat :
          proc' = [proc EXCEPT ![p] = [at |-> "stamped", now |-> clock, got |-> "none",
                                       when |-> 0, exp |-> IF ttl > 0 THEN clock + ttl ELSE 0]]
    BY <1>1, Zenon DEF Stamp, KVAssumption
  <2> DEFINE g == [at |-> "stamped", now |-> clock, got |-> "none", when |-> 0,
                   exp |-> IF ttl > 0 THEN clock + ttl ELSE 0]
  <2>1. proc' = [proc EXCEPT ![p] = g] /\ g.got = "none"
    BY <2>0
  <2> HIDE DEF g
  <2>2. /\ proc'[p] = g /\ \A q \in Procs \ {p} : proc'[q] = proc[q]
    BY <1>0, <2>1
  <2>3. proc[p].at = "idle" /\ proc[p].got = "none" /\ clock' = clock + 1 /\ UNCHANGED data
    BY <1>0, <1>1, Zenon DEF Stamp, TakeInv, ClaimsInv
  <2> QED
    BY <1>0, <2>1, <2>2, <2>3, AsideNX DEF StandsAside
<1>2. ASSUME NEW p \in Procs, SetWithTTL(p) PROVE NXInv'
  BY <1>2 DEF SetWithTTL, NoPlainSets
<1>3. ASSUME NEW p \in Procs, SetNXWithTTL(p) PROVE NXInv'
  BY <1>0, <1>3, UpdateNX, Zenon DEF SetNXWithTTL, Replaces
<1>4. ASSUME NEW p \in Procs, GetAndDelete(p) PROVE NXInv'
  BY <1>0, <1>4, UpdateNX, Zenon DEF GetAndDelete, Vacant, Replaces
<1>5. ASSUME NEW p \in Procs, Delete(p) PROVE NXInv'
  BY <1>0, <1>5, UpdateNX, Zenon DEF Delete, Replaces
<1>6. ASSUME NEW p \in Procs, Tell(p) PROVE NXInv'
  <2> DEFINE g == [proc[p] EXCEPT !.at = "done"]
  <2>1. proc' = [proc EXCEPT ![p] = g] /\ UNCHANGED <<clock, data>>
    BY <1>0, <1>6 DEF Tell
  <2>2. g.now = proc[p].now /\ g.exp = proc[p].exp /\ g.got = proc[p].got /\ g.when = proc[p].when
    BY <1>0 DEF Goroutine
  <2> HIDE DEF g
  <2>3. proc'[p] = g /\ \A q \in Procs \ {p} : proc'[q] = proc[q]
    BY <1>0, <2>1
  <2> QED
    BY <1>0, <2>1, <2>2, <2>3, AsideNX DEF StandsAside
<1>7. ASSUME NEW m \in net, Deliver(m) PROVE NXInv'
  <2>1. /\ UNCHANGED <<clock, proc>>
        /\ data' = data \/ \E e : data' = [data EXCEPT ![m.to] = e]
    BY <1>7, Zenon DEF Deliver
  <2>2. m.to \in Nodes /\ \A p \in Procs : m.to # Home[p]
    BY <1>0, Zenon DEF TakeInv, ClaimsInv
  <2>3. \A p \in Procs : data'[Home[p]] = data[Home[p]]
    BY <1>0, <2>1, <2>2
  <2> QED
    BY <1>0, <2>1, <2>3, AsideNX DEF StandsAside
<1>8. ASSUME NEW n \in Nodes, CleanupExpired(n) PROVE NXInv'
  <2>1. UNCHANGED <<clock, proc>> /\ data' = [data EXCEPT ![n] = Nothing] /\ IsExpired(data[n], clock)
    BY <1>8 DEF CleanupExpired
  <2>2. \A p \in Procs : data'[Home[p]] = data[Home[p]] \/ IsExpired(data[Home[p]], clock)
    BY <1>0, <2>1
  <2> QED
    BY <1>0, <2>1, <2>2, AsideNX DEF StandsAside
<1>9. CASE UNCHANGED <<data, proc>> /\ clock' \in {clock, clock + 1}
  BY <1>0, <1>9, AsideNX DEF StandsAside
<1> QED
  BY <1>1, <1>2, <1>3, <1>4, <1>5, <1>6, <1>7, <1>8, <1>9 DEF Next, Operate, Tick, vars

\* Of two SetNX on one node that both succeed, the later came when the earlier's entry had
\* expired, or after it was taken or deleted: for any number of goroutines that set a key
\* only when it is absent, which is how the store is used as a lock.
THEOREM ClaimsExclude == KVAssumption /\ OneHome /\ NoPlainSets => (Spec => []NXExclusive)
<1> SUFFICES ASSUME KVAssumption, OneHome, NoPlainSets PROVE Spec => []NXExclusive
  OBVIOUS
<1>1. Init => NXInv
  BY InitNX
<1>2. NXInv /\ [Next]_vars => NXInv'
  BY NextNX
<1>3. NXInv => NXExclusive
  BY Zenon DEF NXInv
<1> QED
  BY <1>1, <1>2, <1>3, PTL DEF Spec
=============================================================================

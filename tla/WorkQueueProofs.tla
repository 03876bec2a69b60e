--------------------------- MODULE WorkQueueProofs ---------------------------
(***************************************************************************)
(* Proofs about the governed work queue: for any number of items, cycles,  *)
(* processes and leases, and any number of crashes, an item is executed at *)
(* most once and a terminal state is final.                                *)
(***************************************************************************)
EXTENDS WorkQueue, TLAPS

(* An id that is out of use is never that of an ACTIVE row, so that what   *)
(* acquireLease reads there is a lease; and a cycle that settles its item  *)
(* has an answer to settle it with.                                        *)
Typed ==
    /\ TypeOK
    /\ \A i \in Items : rows[i]["ACTIVE"] # Old
    /\ \A c \in Cycles : cycle[c].pc = "marked" => cycle[c].outcome \in Outcomes

CycleTyped(x) ==
    /\ x \in Cycle
    /\ x.pc # "idle" => x.item \in Items
    /\ x.pc \notin {"idle", "listed", "acquiring"} => x.lease \in Leases
    /\ x.pc = "marked" => x.outcome \in Outcomes

Rows == [LeaseStatus -> Leases \union {None, Old}]

(* The variables of Typed, in the groups that the steps change.            *)
TypedLeases ==
    /\ pointer \in [Items -> Leases \union {None}]
    /\ rows \in [Items -> Rows]
    /\ \A i \in Items : rows[i]["ACTIVE"] # Old
    /\ lapsed \subseteq Leases

TypedItems ==
    /\ item \in [Items -> QueueState]
    /\ claim \in [Items -> [status : ClaimStatus, worker : Workers \union {NoWorker}]]
    /\ entered \in [Items -> Nat]
    /\ recovery \in (Items \X {"RECLAIM", "FAIL_CLOSED"}) \union {NoRecovery}

TypedCycles ==
    /\ cycle \in [Cycles -> Cycle]
    /\ \A c \in Cycles : CycleTyped(cycle[c])

TypedBounds ==
    /\ worker \in [Cycles -> Workers]
    /\ crashes \in Nat
    /\ faults \in Nat
    /\ crashes + faults <= MaxTrouble

-----------------------------------------------------------------------------
(***************************************************************************)
(* Lemmas about the operators of the steps.                                *)
(***************************************************************************)

(* A cycle that goes on is typed, and so are all.                          *)
LEMMA CycleMoves ==
    ASSUME Typed, NEW c \in Cycles, NEW x, CycleTyped(x), cycle' = [cycle EXCEPT ![c] = x]
    PROVE  TypedCycles'
BY DEF Typed, TypeOK, CycleTyped, TypedCycles

LEMMA GoToTyped ==
    ASSUME Typed, NEW c \in Cycles, NEW pc \in Pc \ {"marked"}, GoTo(c, pc), cycle[c].pc # "idle",
           pc \in {"listed", "acquiring"} \/ cycle[c].pc \notin {"listed", "acquiring"}
    PROVE  TypedCycles'
<1>. DEFINE x == [cycle[c] EXCEPT !.pc = pc]
<1>1. cycle[c] \in Cycle /\ CycleTyped(cycle[c])
  BY DEF Typed, TypeOK, CycleTyped
<1>2. x \in Cycle
  BY <1>1 DEF Cycle
<1>3. x.pc = pc /\ x.item = cycle[c].item /\ x.lease = cycle[c].lease
  BY <1>1 DEF Cycle
<1>4. CycleTyped(x)
  BY <1>1, <1>2, <1>3 DEF CycleTyped
<1>5. cycle' = [cycle EXCEPT ![c] = x]
  BY DEF GoTo, Typed, TypeOK
<1>. QED  BY <1>4, <1>5, CycleMoves

(* A row keeps its type when a lease is moved, inserted or forgotten, and  *)
(* an ACTIVE row is a lease or none.                                       *)
LEMMA RowsTyped ==
    ASSUME NEW r \in Rows, r["ACTIVE"] # Old
    PROVE  /\ \A ids : Known(r, ids) \in Rows /\ Known(r, ids)["ACTIVE"] # Old
           /\ \A l \in Leases : Inserted(r, l) \in Rows /\ Inserted(r, l)["ACTIVE"] # Old
           /\ \A l \in Leases, to \in LeaseStatus \ {"ACTIVE"} :
                 Moved(r, l, to) \in Rows /\ Moved(r, l, to)["ACTIVE"] # Old
<1>1. \A ids : Known(r, ids) \in Rows /\ Known(r, ids)["ACTIVE"] # Old
  BY DEF Known, Rows, LeaseStatus
<1>2. \A l \in Leases : Inserted(r, l) \in Rows /\ Inserted(r, l)["ACTIVE"] # Old
  BY QueueAssumption DEF Inserted, Rows, LeaseStatus
<1>3. \A l \in Leases, to \in LeaseStatus \ {"ACTIVE"} :
         Moved(r, l, to) \in Rows /\ Moved(r, l, to)["ACTIVE"] # Old
  BY QueueAssumption DEF Moved, Rows, LeaseStatus
<1>. QED  BY <1>1, <1>2, <1>3

LEMMA ClaimTyped ==
    ASSUME Typed, NEW i \in Items, NEW s \in ClaimStatus \ {"NONE"},
           EndClaim(i, s) \/ UNCHANGED claim
    PROVE  /\ claim' \in [Items -> [status : ClaimStatus, worker : Workers \union {NoWorker}]]
           /\ \A j \in Items : claim'[j].status = "NONE" <=> claim[j].status = "NONE"
<1>. DEFINE C == [status : ClaimStatus, worker : Workers \union {NoWorker}]
<1>1. claim \in [Items -> C]
  BY DEF Typed, TypeOK
<1>2. CASE UNCHANGED claim
  BY <1>1, <1>2
<1>3. CASE claim[i].status \in ActiveClaim /\ claim' = [claim EXCEPT ![i].status = s]
  <2>1. claim[i] \in C /\ [claim[i] EXCEPT !.status = s] \in C
    BY <1>1
  <2>2. claim' = [claim EXCEPT ![i] = [claim[i] EXCEPT !.status = s]]
    BY <1>1, <1>3
  <2>3. claim[i].status # "NONE" /\ [claim[i] EXCEPT !.status = s].status # "NONE"
    BY <1>1, <1>3, <2>1 DEF ActiveClaim
  <2>. QED  BY <1>1, <2>1, <2>2, <2>3
<1>. QED  BY <1>2, <1>3 DEF EndClaim

LEMMA ItemTyped ==
    ASSUME Typed, NEW i \in Items, NEW from, NEW to \in QueueState,
           Transition(i, from, to) \/ Throws(i, from)
    PROVE  item' \in [Items -> QueueState]
BY DEF Typed, TypeOK, Transition, Throws

LEMMA PointerTyped ==
    ASSUME Typed, NEW i \in Items, NEW l, pointer' = PointerCleared(i, l)
    PROVE  pointer' \in [Items -> Leases \union {None}]
BY DEF Typed, TypeOK, PointerCleared
-----------------------------------------------------------------------------
(***************************************************************************)
(* Type correctness                                                        *)
(***************************************************************************)

LEMMA TypedInit == Init => Typed
<1>. SUFFICES ASSUME Init PROVE Typed
  OBVIOUS
<1>1. rows \in [Items -> Rows] /\ \A i \in Items : rows[i]["ACTIVE"] # Old
  BY QueueAssumption DEF Init, NoRows, Rows, LeaseStatus
<1>2. cycle \in [Cycles -> Cycle] /\ \A c \in Cycles : cycle[c].pc = "idle"
  BY DEF Init, Idle, Cycle, Pc
<1>3. claim \in [Items -> [status : ClaimStatus, worker : Workers \union {NoWorker}]]
  BY DEF Init, NoClaim, ClaimStatus
<1>4. item \in [Items -> QueueState]
  BY DEF Init, QueueState
<1>5. worker \in [Cycles -> Workers] /\ crashes + faults <= MaxTrouble
  BY QueueAssumption DEF Init
<1>. QED  BY <1>1, <1>2, <1>3, <1>4, <1>5 DEF Init, Typed, TypeOK, Rows

LEMMA TypedGroups == Typed <=> TypedLeases /\ TypedItems /\ TypedCycles /\ TypedBounds
BY DEF Typed, TypeOK, TypedLeases, TypedItems, TypedCycles, TypedBounds, CycleTyped, Rows

LEMMA TypedSame ==
    ASSUME Typed
    PROVE  /\ UNCHANGED leaseVars => TypedLeases'
           /\ UNCHANGED <<item, claim, entered, recovery>> => TypedItems'
           /\ UNCHANGED cycle => TypedCycles'
           /\ UNCHANGED <<worker, crashes, faults>> => TypedBounds'
<1>1. UNCHANGED leaseVars => TypedLeases'
  BY TypedGroups DEF TypedLeases, leaseVars
<1>2. UNCHANGED <<item, claim, entered, recovery>> => TypedItems'
  BY TypedGroups DEF TypedItems
<1>3. UNCHANGED cycle => TypedCycles'
  BY TypedGroups DEF TypedCycles
<1>4. UNCHANGED <<worker, crashes, faults>> => TypedBounds'
  BY TypedGroups DEF TypedBounds
<1>. QED  BY <1>1, <1>2, <1>3, <1>4

(* Every step keeps Typed, one group at a time.                            *)
LEMMA TypedNext == Typed /\ [Next]_vars => Typed'
<1>. SUFFICES ASSUME Typed, [Next]_vars PROVE Typed'
  OBVIOUS
<1>s. /\ UNCHANGED leaseVars => TypedLeases'
      /\ UNCHANGED <<item, claim, entered, recovery>> => TypedItems'
      /\ UNCHANGED cycle => TypedCycles'
      /\ UNCHANGED <<worker, crashes, faults>> => TypedBounds'
  BY TypedSame
<1>g. TypedLeases /\ TypedItems /\ TypedCycles /\ TypedBounds
  BY TypedGroups
<1>q. TypedLeases' /\ TypedItems' /\ TypedCycles' /\ TypedBounds' => Typed'
  BY DEF Typed, TypeOK, TypedLeases, TypedItems, TypedCycles, TypedBounds, CycleTyped, Rows
<1>p. {"listed", "acquiring", "leased", "claimed", "running", "started", "entered", "marked",
       "failing", "failed", "releasing"} \subseteq Pc
  BY DEF Pc
<1>i. CycleTyped(Idle)
  BY DEF CycleTyped, Cycle, Idle, Pc
<1>c. \A c \in Cycles : cycle[c].pc # "idle" => cycle[c].item \in Items
  BY <1>g DEF TypedCycles, CycleTyped
<1>l. \A c \in Cycles : cycle[c].pc \notin {"idle", "listed", "acquiring"} => cycle[c].lease \in Leases
  BY <1>g DEF TypedCycles, CycleTyped
<1>1. ASSUME NEW c \in Cycles, List(c) PROVE Typed'
  <2>1. PICK i \in Items :
           cycle' = [cycle EXCEPT ![c] = [Idle EXCEPT !.pc = "listed", !.item = i]]
    BY <1>1 DEF List
  <2>2. CycleTyped([Idle EXCEPT !.pc = "listed", !.item = i])
    BY DEF CycleTyped, Cycle, Idle, Pc
  <2>3. TypedCycles'
    BY <2>1, <2>2, CycleMoves
  <2>. QED  BY <1>1, <1>q, <1>s, <2>3 DEF List, boundVars
<1>2. ASSUME NEW c \in Cycles, SelectLease(c) PROVE Typed'
  <2>. DEFINE x == [cycle[c] EXCEPT !.pc = "acquiring", !.stale = rows[cycle[c].item]["ACTIVE"]]
  <2>1. rows[cycle[c].item]["ACTIVE"] \in Leases \union {None}
    BY <1>2, <1>g, <1>c DEF SelectLease, At, TypedLeases, Rows, LeaseStatus
  <2>2. CycleTyped(x)
    BY <1>2, <1>g, <1>c, <2>1 DEF SelectLease, At, TypedCycles, CycleTyped, Cycle, Pc
  <2>3. cycle' = [cycle EXCEPT ![c] = Idle] \/ cycle' = [cycle EXCEPT ![c] = x]
    BY <1>2, <1>g DEF SelectLease, TypedCycles
  <2>4. TypedCycles'
    BY <1>i, <2>2, <2>3, CycleMoves
  <2>. QED  BY <1>2, <1>q, <1>s, <2>4 DEF SelectLease, boundVars
<1>3. ASSUME NEW c \in Cycles, InsertLease(c) PROVE Typed'
  <2>. DEFINE i == cycle[c].item
              stale == cycle[c].stale
              l == CHOOSE l \in Leases : l \notin InUse
              x == [cycle[c] EXCEPT !.pc = "leased", !.lease = l, !.stale = None]
              expired == IF stale = None THEN rows[i] ELSE Moved(rows[i], stale, "EXPIRED")
  <2>1. l \in Leases /\ i \in Items /\ stale \in Leases \union {None}
    BY <1>3, <1>g, <1>c DEF InsertLease, At, TypedCycles, Cycle
  <2>2. CycleTyped(x)
    BY <1>g, <2>1 DEF TypedCycles, CycleTyped, Cycle, Pc
  <2>3. cycle' = [cycle EXCEPT ![c] = x]
    BY <1>3, <1>g DEF InsertLease, TypedCycles
  <2>4. TypedCycles'
    BY <2>2, <2>3, CycleMoves
  <2>5. \A j \in Items : rows[j] \in Rows /\ rows[j]["ACTIVE"] # Old
    BY <1>g DEF TypedLeases
  <2>6. expired \in Rows /\ expired["ACTIVE"] # Old
    BY <2>1, <2>5, RowsTyped DEF LeaseStatus
  <2>7. Inserted(expired, l) \in Rows /\ Inserted(expired, l)["ACTIVE"] # Old
    BY <2>1, <2>6, RowsTyped
  <2>8. rows' = [j \in Items |-> Known(IF j = i THEN Inserted(expired, l) ELSE rows[j],
                                       Stales(Cycles \ {c}))]
    BY <1>3 DEF InsertLease
  <2>9. rows' \in [Items -> Rows] /\ \A j \in Items : rows'[j]["ACTIVE"] # Old
    <3>. DEFINE r(j) == IF j = i THEN Inserted(expired, l) ELSE rows[j]
    <3>1. \A j \in Items : r(j) \in Rows /\ r(j)["ACTIVE"] # Old
      BY <2>5, <2>7
    <3>. HIDE DEF r, expired, l
    <3>2. \A j \in Items : /\ Known(r(j), Stales(Cycles \ {c})) \in Rows
                           /\ Known(r(j), Stales(Cycles \ {c}))["ACTIVE"] # Old
      BY <3>1, RowsTyped
    <3>3. rows' = [j \in Items |-> Known(r(j), Stales(Cycles \ {c}))]
      BY <2>8 DEF r
    <3>. QED  BY <3>2, <3>3
  <2>10. pointer' = [pointer EXCEPT ![i] = l] /\ lapsed' = (lapsed \intersect InUse) \ {l}
    BY <1>3 DEF InsertLease
  <2>11. TypedLeases'
    <3>. HIDE DEF l, i, expired
    <3>. QED  BY <1>g, <2>1, <2>9, <2>10 DEF TypedLeases
  <2>. QED  BY <1>3, <1>q, <1>s, <2>4, <2>11 DEF InsertLease, boundVars
<1>4. ASSUME NEW c \in Cycles, LedgerFails(c) PROVE Typed'
  <2>1. TypedCycles'
    BY <1>4, <1>p, GoToTyped DEF LedgerFails
  <2>2. TypedBounds'
    BY <1>4, <1>g, QueueAssumption DEF LedgerFails, TypedBounds
  <2>. QED  BY <1>4, <1>q, <1>s, <2>1, <2>2 DEF LedgerFails, boundVars
<1>5. ASSUME NEW c \in Cycles, Claim(c) PROVE Typed'
  <2>1. TypedCycles'
    BY <1>5, <1>p, GoToTyped DEF Claim, At
  <2>2. cycle[c].item \in Items /\ worker[c] \in Workers
    BY <1>5, <1>c, <1>g DEF Claim, At, TypedBounds
  <2>3. claim' \in [Items -> [status : ClaimStatus, worker : Workers \union {NoWorker}]]
    BY <1>5, <1>g, <2>2 DEF Claim, TypedItems, ClaimStatus, ActiveClaim
  <2>4. TypedItems'
    BY <1>5, <1>g, <2>3 DEF Claim, TypedItems
  <2>. QED  BY <1>5, <1>q, <1>s, <2>1, <2>4 DEF Claim, boundVars
<1>6. ASSUME NEW c \in Cycles, ToRunning(c) PROVE Typed'
  <2>1. TypedCycles'
    BY <1>6, <1>p, GoToTyped DEF ToRunning, At
  <2>2. item' \in [Items -> QueueState]
    BY <1>6, <1>c, ItemTyped DEF ToRunning, At, QueueState
  <2>3. TypedItems'
    BY <1>6, <1>g, <2>2 DEF ToRunning, TypedItems
  <2>. QED  BY <1>6, <1>q, <1>s, <2>1, <2>3 DEF ToRunning, boundVars
<1>7. ASSUME NEW c \in Cycles, MarkStarted(c) PROVE Typed'
  <2>1. TypedCycles'
    BY <1>7, <1>p, GoToTyped DEF MarkStarted, At
  <2>2. cycle[c].item \in Items
    BY <1>7, <1>c DEF MarkStarted, At
  <2>3. EndClaim(cycle[c].item, "STARTED") \/ UNCHANGED claim
    BY <1>7 DEF MarkStarted, EndClaim, ActiveClaim
  <2>4. TypedItems'
    BY <1>7, <1>g, <2>2, <2>3, ClaimTyped DEF MarkStarted, TypedItems, ClaimStatus, ActiveClaim
  <2>. QED  BY <1>7, <1>q, <1>s, <2>1, <2>4 DEF MarkStarted, boundVars
<1>8. ASSUME NEW c \in Cycles, Reenter(c) PROVE Typed'
  <2>1. TypedCycles'
    BY <1>8, <1>p, GoToTyped DEF Reenter, At
  <2>2. cycle[c].item \in Items
    BY <1>8, <1>c DEF Reenter, At
  <2>3. entered' = [entered EXCEPT ![cycle[c].item] = entered[cycle[c].item] + 1]
    BY <1>8 DEF Reenter
  <2>4. entered' \in [Items -> Nat]
    BY <1>g, <2>2, <2>3 DEF TypedItems
  <2>5. TypedItems'
    BY <1>8, <1>g, <2>4 DEF Reenter, TypedItems
  <2>. QED  BY <1>8, <1>q, <1>s, <2>1, <2>5 DEF Reenter, boundVars
<1>9. ASSUME NEW c \in Cycles, Answer(c) PROVE Typed'
  <2>1. PICK outcome \in Outcomes :
           /\ EndClaim(cycle[c].item, IF outcome = "COMPLETED" THEN "COMPLETED" ELSE "FAILED")
           /\ cycle' = [cycle EXCEPT ![c].pc = "marked", ![c].outcome = outcome]
    BY <1>9 DEF Answer
  <2>. DEFINE x == [cycle[c] EXCEPT !.pc = "marked", !.outcome = outcome]
  <2>2. CycleTyped(x)
    BY <1>9, <1>g, <1>c, <1>l DEF Answer, At, TypedCycles, CycleTyped, Cycle, Pc
  <2>3. cycle' = [cycle EXCEPT ![c] = x]
    BY <1>g, <2>1 DEF TypedCycles
  <2>4. TypedCycles'
    BY <2>2, <2>3, CycleMoves
  <2>5. TypedItems'
    BY <1>9, <1>g, <1>c, <2>1, ClaimTyped DEF Answer, At, TypedItems, ClaimStatus
  <2>. QED  BY <1>9, <1>q, <1>s, <2>4, <2>5 DEF Answer, boundVars
<1>10. ASSUME NEW c \in Cycles, ReentryThrows(c) PROVE Typed'
  <2>1. TypedCycles'
    BY <1>10, <1>p, GoToTyped DEF ReentryThrows, At
  <2>. QED  BY <1>10, <1>q, <1>s, <2>1 DEF ReentryThrows, boundVars
<1>11. ASSUME NEW c \in Cycles, Settle(c) PROVE Typed'
  <2>1. TypedCycles'
    BY <1>11, <1>p, GoToTyped DEF Settle, At
  <2>2. CASE Throws(cycle[c].item, "RUNNING")
    <3>1. TypedItems'
      BY <1>11, <1>g, <2>2 DEF Settle, TypedItems, Throws
    <3>. QED  BY <1>11, <1>q, <1>s, <2>1, <3>1 DEF Settle, boundVars
  <2>3. CASE Transition(cycle[c].item, "RUNNING", cycle[c].outcome)
    <3>1. cycle[c].outcome \in QueueState
      BY <1>11, <1>g, QueueAssumption DEF Settle, At, TypedCycles, CycleTyped, QueueState, Terminal
    <3>2. item' \in [Items -> QueueState]
      BY <1>11, <1>c, <2>3, <3>1, ItemTyped DEF Settle, At
    <3>3. TypedItems'
      BY <1>11, <1>g, <3>2 DEF Settle, TypedItems
    <3>. QED  BY <1>11, <1>q, <1>s, <2>1, <3>3 DEF Settle, boundVars
  <2>. QED  BY <1>11, <2>2, <2>3 DEF Settle
<1>12. ASSUME NEW c \in Cycles, CatchClaim(c) PROVE Typed'
  <2>1. TypedCycles'
    BY <1>12, <1>p, GoToTyped DEF CatchClaim, At
  <2>2. EndClaim(cycle[c].item, "FAILED") \/ UNCHANGED claim
    BY <1>12 DEF CatchClaim
  <2>3. TypedItems'
    BY <1>12, <1>g, <1>c, <2>2, ClaimTyped DEF CatchClaim, At, TypedItems, ClaimStatus
  <2>. QED  BY <1>12, <1>q, <1>s, <2>1, <2>3 DEF CatchClaim, boundVars
<1>13. ASSUME NEW c \in Cycles, CatchItem(c) PROVE Typed'
  <2>1. TypedCycles'
    BY <1>13, <1>p, GoToTyped DEF CatchItem, At
  <2>2. item' \in [Items -> QueueState]
    BY <1>13, <1>c, ItemTyped DEF CatchItem, At, AfterError, QueueState, Terminal
  <2>3. TypedItems'
    BY <1>13, <1>g, <2>2 DEF CatchItem, TypedItems
  <2>. QED  BY <1>13, <1>q, <1>s, <2>1, <2>3 DEF CatchItem, boundVars
<1>14. ASSUME NEW c \in Cycles, Release(c) PROVE Typed'
  <2>. DEFINE i == cycle[c].item
              l == cycle[c].lease
  <2>1. i \in Items /\ l \in Leases
    BY <1>14, <1>c, <1>l DEF Release, At
  <2>2. rows[i] \in Rows /\ rows[i]["ACTIVE"] # Old
    BY <1>g, <2>1 DEF TypedLeases
  <2>3. LET r == Known(Moved(rows[i], l, "RELEASED"), Stales(Cycles))
        IN  r \in Rows /\ r["ACTIVE"] # Old
    BY <2>1, <2>2, RowsTyped DEF LeaseStatus
  <2>4. rows' = rows \/ rows' = [rows EXCEPT ![i] = Known(Moved(rows[i], l, "RELEASED"), Stales(Cycles))]
    BY <1>14, <1>g DEF Release, TypedLeases
  <2>5. rows' \in [Items -> Rows] /\ \A j \in Items : rows'[j]["ACTIVE"] # Old
    BY <1>g, <2>3, <2>4 DEF TypedLeases
  <2>6. TypedLeases'
    BY <1>14, <1>g, <2>1, <2>5, PointerTyped DEF Release, TypedLeases
  <2>7. TypedCycles'
    BY <1>14, <1>i, CycleMoves DEF Release
  <2>. QED  BY <1>14, <1>q, <1>s, <2>6, <2>7 DEF Release, boundVars
<1>15. ASSUME NEW l \in Leases, Lapse(l) PROVE Typed'
  <2>1. TypedLeases'
    BY <1>15, <1>g DEF Lapse, TypedLeases
  <2>. QED  BY <1>15, <1>q, <1>s, <2>1 DEF Lapse, boundVars
<1>16. ASSUME NEW w \in Workers, Crash(w) PROVE Typed'
  <2>1. TypedCycles'
    BY <1>16, <1>g, <1>i DEF Crash, TypedCycles, CycleTyped
  <2>2. TypedBounds'
    BY <1>16, <1>g, QueueAssumption DEF Crash, TypedBounds
  <2>. QED  BY <1>16, <1>q, <1>s, <2>1, <2>2 DEF Crash
<1>17. ASSUME NEW i \in Items, ExpireLease(i) PROVE Typed'
  <2>. DEFINE l == rows[i]["ACTIVE"]
              r == Known(Moved(rows[i], l, "EXPIRED"), Stales(Cycles))
  <2>1. l \in Leases /\ rows[i] \in Rows /\ l # Old
    BY <1>17, <1>g DEF ExpireLease, TypedLeases
  <2>2. r \in Rows /\ r["ACTIVE"] # Old
    BY <2>1, RowsTyped DEF LeaseStatus
  <2>3. rows' = [rows EXCEPT ![i] = r]
    BY <1>17, <1>g DEF ExpireLease, TypedLeases
  <2>4. rows' \in [Items -> Rows] /\ \A j \in Items : rows'[j]["ACTIVE"] # Old
    <3>. HIDE DEF r
    <3>. QED  BY <1>g, <2>2, <2>3 DEF TypedLeases
  <2>5. TypedLeases'
    BY <1>17, <1>g, <2>4, PointerTyped DEF ExpireLease, TypedLeases
  <2>. QED  BY <1>17, <1>q, <1>s, <2>5 DEF ExpireLease, boundVars
<1>18. ASSUME NEW i \in Items, AbandonClaim(i) PROVE Typed'
  <2>1. TypedItems'
    BY <1>18, <1>g, ClaimTyped DEF AbandonClaim, TypedItems, ClaimStatus
  <2>. QED  BY <1>18, <1>q, <1>s, <2>1 DEF AbandonClaim, boundVars
<1>19. ASSUME NEW i \in Items, Detect(i) PROVE Typed'
  <2>1. TypedItems'
    BY <1>19, <1>g DEF Detect, TypedItems
  <2>. QED  BY <1>19, <1>q, <1>s, <2>1 DEF Detect, boundVars
<1>20. ASSUME Recover PROVE Typed'
  <2>1. recovery[1] \in Items
    BY <1>20, <1>g DEF Recover, TypedItems
  <2>2. item' \in [Items -> QueueState]
    BY <1>20, <2>1, ItemTyped DEF Recover, Settled, QueueState, Terminal
  <2>3. TypedItems'
    BY <1>20, <1>g, <2>2 DEF Recover, TypedItems
  <2>. QED  BY <1>20, <1>q, <1>s, <2>3 DEF Recover, boundVars
<1>21. ASSUME NEW i \in Items, Supersede(i) \/ Wake(i) PROVE Typed'
  <2>1. item' \in [Items -> QueueState]
    BY <1>21, ItemTyped DEF Supersede, Wake, QueueState, Terminal
  <2>2. TypedItems'
    BY <1>21, <1>g, <2>1 DEF Supersede, Wake, TypedItems
  <2>. QED  BY <1>21, <1>q, <1>s, <2>2 DEF Supersede, Wake, boundVars
<1>22. CASE UNCHANGED vars
  BY <1>22, <1>q, <1>s DEF vars, leaseVars, boundVars
<1>. QED
  BY <1>1, <1>2, <1>3, <1>4, <1>5, <1>6, <1>7, <1>8, <1>9, <1>10, <1>11, <1>12, <1>13, <1>14,
     <1>15, <1>16, <1>17, <1>18, <1>19, <1>20, <1>21, <1>22
  DEF Next, Work

(* The state of the queue stays typed.                                     *)
THEOREM TypeCorrect == Spec => []TypeOK
<1>1. Typed => TypeOK
  BY DEF Typed
<1>. QED  BY <1>1, TypedInit, TypedNext, PTL DEF Spec

-----------------------------------------------------------------------------
(***************************************************************************)
(* A terminal state is final                                               *)
(***************************************************************************)

LEMMA TransitionKeepsTerminal ==
    ASSUME Typed, NEW i \in Items, NEW from \in QueueState \ Terminal, NEW to,
           Transition(i, from, to) \/ Throws(i, from)
    PROVE  \A j \in Items : item[j] \in Terminal => item'[j] = item[j]
BY DEF Typed, TypeOK, Transition, Throws

(* What a step does to the items: nothing, or a transition from a state    *)
(* that is not terminal: the one that supersede read, or the one that the  *)
(* scheduler, recovery or the coordination manager names.  Only a cycle    *)
(* that has marked its claim completes an item.                            *)
ItemStep(i, from, to) ==
    /\ Transition(i, from, to) \/ Throws(i, from)
    /\ to = "COMPLETED" => \E c \in Cycles : At(c, "marked") /\ cycle[c].item = i

LEMMA ItemSteps ==
    ASSUME Typed, [Next]_vars
    PROVE  \/ UNCHANGED <<item, entered>>
           \/ \E c \in Cycles : Reenter(c)
           \/ /\ UNCHANGED entered
              /\ \E i \in Items, from \in QueueState \ Terminal : \E to : ItemStep(i, from, to)
<1>. DEFINE Still == UNCHANGED <<item, entered>>
            Moving == /\ UNCHANGED entered
                      /\ \E i \in Items, from \in QueueState \ Terminal : \E to : ItemStep(i, from, to)
<1>g. TypedLeases /\ TypedItems /\ TypedCycles /\ TypedBounds
  BY TypedGroups
<1>f. {"READY", "RUNNING", "BLOCKED_DEPENDENCY"} \subseteq QueueState \ Terminal
  BY DEF QueueState, Terminal, Blocked
<1>m. ASSUME NEW i \in Items, NEW from \in QueueState \ Terminal, NEW to, ItemStep(i, from, to),
             UNCHANGED entered
      PROVE  Moving
  BY <1>m
<1>1. ASSUME NEW c \in Cycles, ToRunning(c) \/ Settle(c) \/ CatchItem(c) PROVE Moving
  <2>1. cycle[c].item \in Items /\ UNCHANGED entered
    BY <1>1, <1>g DEF ToRunning, Settle, CatchItem, At, TypedCycles, CycleTyped
  <2>2. PICK from, to :
           /\ from \in {"READY", "RUNNING"}
           /\ Transition(cycle[c].item, from, to) \/ Throws(cycle[c].item, from)
           /\ to = "COMPLETED" => At(c, "marked")
    BY <1>1 DEF ToRunning, Settle, CatchItem, AfterError
  <2>3. ItemStep(cycle[c].item, from, to)
    BY <2>2 DEF ItemStep
  <2>. QED  BY <1>f, <1>m, <2>1, <2>2, <2>3
<1>2. ASSUME NEW i \in Items, Supersede(i) PROVE Moving
  <2>1. item[i] \in QueueState \ Terminal
    BY <1>2, <1>g DEF Supersede, TypedItems
  <2>2. ItemStep(i, item[i], "CANCELLED") /\ UNCHANGED entered
    BY <1>2 DEF Supersede, ItemStep
  <2>. QED  BY <1>m, <2>1, <2>2
<1>3. ASSUME NEW i \in Items, Wake(i) PROVE Moving
  <2>1. ItemStep(i, "BLOCKED_DEPENDENCY", "READY") /\ UNCHANGED entered
    BY <1>3 DEF Wake, ItemStep
  <2>. QED  BY <1>f, <1>m, <2>1
<1>4. ASSUME Recover PROVE Moving
  <2>1. recovery[1] \in Items
    BY <1>4, <1>g DEF Recover, TypedItems
  <2>2. ItemStep(recovery[1], "RUNNING", Settled(recovery[2])) /\ UNCHANGED entered
    BY <1>4 DEF Recover, ItemStep, Settled
  <2>. QED  BY <1>f, <1>m, <2>1, <2>2
<1>5. ASSUME NEW c \in Cycles,
             \/ List(c) \/ SelectLease(c) \/ InsertLease(c) \/ LedgerFails(c) \/ Claim(c)
             \/ MarkStarted(c) \/ Answer(c) \/ ReentryThrows(c) \/ CatchClaim(c) \/ Release(c)
      PROVE  Still
  BY <1>5 DEF List, SelectLease, InsertLease, LedgerFails, Claim, MarkStarted, Answer,
         ReentryThrows, CatchClaim, Release
<1>6. /\ \A l \in Leases : Lapse(l) => Still
      /\ \A w \in Workers : Crash(w) => Still
      /\ \A i \in Items : ExpireLease(i) \/ AbandonClaim(i) \/ Detect(i) => Still
      /\ UNCHANGED vars => Still
  BY DEF Lapse, Crash, ExpireLease, AbandonClaim, Detect, vars
<1>. HIDE DEF Still, Moving
<1>7. ASSUME NEW c \in Cycles, List(c) \/ Work(c) \/ LedgerFails(c)
      PROVE  Still \/ Moving \/ Reenter(c)
  BY <1>1, <1>5, <1>7 DEF Work
<1>8. ASSUME NEW i \in Items,
             ExpireLease(i) \/ AbandonClaim(i) \/ Detect(i) \/ Supersede(i) \/ Wake(i)
      PROVE  Still \/ Moving
  BY <1>2, <1>3, <1>6, <1>8
<1>9. Still \/ Moving \/ \E c \in Cycles : Reenter(c)
  BY <1>4, <1>6, <1>7, <1>8 DEF Next
<1>. QED  BY <1>9 DEF Still, Moving

(* A late settle, a late catch or a late recovery changes no item that has *)
(* ended meanwhile (transitionItem, supersede).                            *)
THEOREM TerminalAlwaysFinal == Spec => TerminalIsFinal
<1>. DEFINE Kept == \A i \in Items : item[i] \in Terminal => item'[i] = item[i]
<1>1. ASSUME Typed, [Next]_vars PROVE Kept
  <2>1. CASE \E i \in Items, from \in QueueState \ Terminal : \E to : ItemStep(i, from, to)
    BY <1>1, <2>1, TransitionKeepsTerminal DEF ItemStep
  <2>2. CASE UNCHANGED item
    BY <2>2
  <2>. QED  BY <1>1, <2>1, <2>2, ItemSteps DEF Reenter
<1>2. ASSUME Typed, [Next]_vars PROVE [Kept]_vars
  BY <1>1, <1>2
<1>. QED  BY <1>2, TypedInit, TypedNext, PTL DEF Spec, TerminalIsFinal

-----------------------------------------------------------------------------
(***************************************************************************)
(* An item is executed at most once                                        *)
(***************************************************************************)

Attempting(c) == cycle[c].pc \in {"claimed", "running", "started"}

(* ExecutedOnce says nothing of the cycles that are about to execute.  Each *)
(* of them works on an item whose one claim has been taken and that has not *)
(* been executed, and no two work on the same item: the claim, not the      *)
(* lease, keeps them apart.                                                 *)
AttemptsApart ==
    /\ \A c \in Cycles : Attempting(c) => /\ claim[cycle[c].item].status # "NONE"
                                         /\ entered[cycle[c].item] = 0
    /\ \A c, d \in Cycles : Attempting(c) /\ Attempting(d) /\ cycle[c].item = cycle[d].item => c = d
    /\ \A i \in Items : claim[i].status = "NONE" => entered[i] = 0

OnceInv == Typed /\ AttemptsApart /\ ExecutedOnce

(* No step gives a claim back, and only Claim lets a cycle begin.          *)
LEMMA AttemptsKept ==
    ASSUME OnceInv, UNCHANGED entered,
           \A i \in Items : claim'[i].status = "NONE" => claim[i].status = "NONE",
           \A c \in Cycles : Attempting(c)' => Attempting(c) /\ cycle'[c].item = cycle[c].item
    PROVE  AttemptsApart' /\ ExecutedOnce'
<1>1. \A c \in Cycles : Attempting(c) => cycle[c].item \in Items
  BY DEF OnceInv, Typed, TypeOK, Attempting
<1>. QED  BY <1>1 DEF OnceInv, AttemptsApart, ExecutedOnce

(* A step of one cycle that leaves the claim of every item taken or not.   *)
LEMMA AttemptGoesOn ==
    ASSUME OnceInv, UNCHANGED entered, NEW c \in Cycles, NEW x \in Cycle,
           cycle' = [cycle EXCEPT ![c] = x],
           x.pc \in {"claimed", "running", "started"} => Attempting(c) /\ x.item = cycle[c].item,
           \A i \in Items : claim'[i].status = "NONE" => claim[i].status = "NONE"
    PROVE  AttemptsApart' /\ ExecutedOnce'
<1>1. \A d \in Cycles : Attempting(d)' => Attempting(d) /\ cycle'[d].item = cycle[d].item
  BY DEF OnceInv, Typed, TypeOK, Attempting
<1>. QED  BY <1>1, AttemptsKept

LEMMA ClaimKept ==
    ASSUME Typed, NEW i \in Items, NEW s, s # "NONE", EndClaim(i, s) \/ UNCHANGED claim
    PROVE  \A j \in Items : claim'[j].status = "NONE" => claim[j].status = "NONE"
BY DEF Typed, TypeOK, EndClaim

LEMMA OnceNext == OnceInv /\ [Next]_vars => OnceInv'
<1>. SUFFICES ASSUME OnceInv, [Next]_vars PROVE AttemptsApart' /\ ExecutedOnce'
  BY TypedNext DEF OnceInv
<1>. DEFINE Goal == AttemptsApart' /\ ExecutedOnce'
<1>t. /\ Typed
      /\ \A c \in Cycles : cycle[c].pc # "idle" => cycle[c].item \in Items
      /\ cycle \in [Cycles -> Cycle]
  BY DEF OnceInv, Typed, TypeOK
<1>i. Idle \in Cycle /\ Idle.pc = "idle"
  BY DEF Idle, Cycle, Pc
<1>g. ASSUME NEW c \in Cycles, NEW pc \in Pc, GoTo(c, pc), UNCHANGED entered,
             pc \in {"claimed", "running", "started"} => Attempting(c),
             \A i \in Items : claim'[i].status = "NONE" => claim[i].status = "NONE"
      PROVE  Goal
  <2>. DEFINE x == [cycle[c] EXCEPT !.pc = pc]
  <2>1. x \in Cycle /\ x.pc = pc /\ x.item = cycle[c].item
    BY <1>t DEF Cycle
  <2>2. cycle' = [cycle EXCEPT ![c] = x]
    BY <1>t, <1>g DEF GoTo
  <2>. QED  BY <1>g, <2>1, <2>2, AttemptGoesOn
<1>1. ASSUME NEW c \in Cycles, List(c) PROVE Goal
  <2>1. PICK i \in Items :
           cycle' = [cycle EXCEPT ![c] = [Idle EXCEPT !.pc = "listed", !.item = i]]
    BY <1>1 DEF List
  <2>2. /\ [Idle EXCEPT !.pc = "listed", !.item = i] \in Cycle
        /\ [Idle EXCEPT !.pc = "listed", !.item = i].pc = "listed"
    BY DEF Cycle, Idle, Pc
  <2>. QED  BY <1>1, <2>1, <2>2, AttemptGoesOn DEF List
<1>2. ASSUME NEW c \in Cycles, SelectLease(c) \/ InsertLease(c) \/ Release(c) PROVE Goal
  <2>1. PICK x : /\ cycle' = [cycle EXCEPT ![c] = x]
                 /\ x \in Cycle
                 /\ x.pc \in {"idle", "acquiring", "leased"}
    <3>1. CASE SelectLease(c)
      <4>1. rows[cycle[c].item]["ACTIVE"] \in Leases \union {None}
        BY <1>t, <3>1 DEF SelectLease, At, Typed, TypeOK, LeaseStatus
      <4>. DEFINE y == [cycle[c] EXCEPT !.pc = "acquiring",
                                        !.stale = rows[cycle[c].item]["ACTIVE"]]
      <4>2. y \in Cycle /\ y.pc = "acquiring"
        BY <1>t, <4>1 DEF Cycle, Pc
      <4>3. cycle' = [cycle EXCEPT ![c] = Idle] \/ cycle' = [cycle EXCEPT ![c] = y]
        BY <1>t, <3>1 DEF SelectLease
      <4>. QED  BY <1>i, <4>2, <4>3
    <3>2. CASE InsertLease(c)
      <4>. DEFINE l == CHOOSE l \in Leases : l \notin InUse
                  y == [cycle[c] EXCEPT !.pc = "leased", !.lease = l, !.stale = None]
      <4>1. l \in Leases
        BY <3>2 DEF InsertLease
      <4>2. y \in Cycle /\ y.pc = "leased"
        BY <1>t, <4>1 DEF Cycle, Pc
      <4>3. cycle' = [cycle EXCEPT ![c] = y]
        BY <1>t, <3>2 DEF InsertLease
      <4>. QED  BY <4>2, <4>3
    <3>3. CASE Release(c)
      BY <1>i, <3>3 DEF Release
    <3>. QED  BY <1>2, <3>1, <3>2, <3>3
  <2>2. UNCHANGED <<entered, claim>>
    BY <1>2 DEF SelectLease, InsertLease, Release
  <2>. QED  BY <2>1, <2>2, AttemptGoesOn
<1>3. ASSUME NEW c \in Cycles, LedgerFails(c) \/ ReentryThrows(c) \/ Settle(c) \/ CatchItem(c) PROVE Goal
  <2>1. PICK pc \in {"failing", "releasing"} : GoTo(c, pc)
    BY <1>3 DEF LedgerFails, ReentryThrows, Settle, CatchItem
  <2>2. UNCHANGED <<entered, claim>>
    BY <1>3 DEF LedgerFails, ReentryThrows, Settle, CatchItem
  <2>. QED  BY <1>g, <2>1, <2>2 DEF Pc
<1>4. ASSUME NEW c \in Cycles, Claim(c) PROVE Goal
  <2>. DEFINE i == cycle[c].item
  <2>1. CASE claim[i].status = "NONE"
    <3>1. /\ claim' = [claim EXCEPT ![i] = [status |-> "CLAIMED", worker |-> worker[c]]]
          /\ GoTo(c, "claimed")
          /\ UNCHANGED entered
          /\ i \in Items
      BY <1>4, <1>t, <2>1 DEF Claim, At
    <3>2. \A d \in Cycles : Attempting(d) => cycle[d].item # i
      BY <2>1 DEF OnceInv, AttemptsApart
    <3>3. \A j \in Items : claim'[j].status = "NONE" <=> j # i /\ claim[j].status = "NONE"
      BY <1>t, <3>1 DEF Typed, TypeOK
    <3>4. /\ \A d \in Cycles : cycle'[d].item = cycle[d].item
          /\ \A d \in Cycles : Attempting(d)' => d = c \/ Attempting(d)
      BY <1>t, <3>1 DEF GoTo, Attempting, Cycle
    <3>5. entered[i] = 0 /\ \A d \in Cycles : Attempting(d) => cycle[d].item \in Items
      BY <1>t, <2>1, <3>1 DEF OnceInv, AttemptsApart, Attempting
    <3>. QED  BY <3>1, <3>2, <3>3, <3>4, <3>5 DEF OnceInv, AttemptsApart, ExecutedOnce
  <2>2. CASE claim[i].status # "NONE"
    BY <1>4, <1>g, <2>2 DEF Claim, Pc
  <2>. QED  BY <2>1, <2>2
<1>5. ASSUME NEW c \in Cycles, ToRunning(c) PROVE Goal
  <2>1. PICK pc \in {"running", "failing"} : GoTo(c, pc)
    BY <1>5 DEF ToRunning
  <2>. QED  BY <1>5, <1>g, <2>1 DEF ToRunning, At, Attempting, Pc
<1>6. ASSUME NEW c \in Cycles, MarkStarted(c) PROVE Goal
  <2>1. \A j \in Items : claim'[j].status = "NONE" => claim[j].status = "NONE"
    BY <1>6, <1>t, ClaimKept DEF MarkStarted, EndClaim, At, ActiveClaim
  <2>. QED  BY <1>6, <1>g, <2>1 DEF MarkStarted, At, Attempting, Pc
<1>7. ASSUME NEW c \in Cycles, Reenter(c) PROVE Goal
  <2>. DEFINE i == cycle[c].item
  <2>1. /\ entered' = [entered EXCEPT ![i] = entered[i] + 1]
        /\ GoTo(c, "entered")
        /\ UNCHANGED claim
        /\ i \in Items
        /\ Attempting(c)
    BY <1>7, <1>t DEF Reenter, At, Attempting
  <2>2. entered[i] = 0 /\ claim[i].status # "NONE"
    BY <2>1 DEF OnceInv, AttemptsApart
  <2>3. \A d \in Cycles : Attempting(d)' => /\ d # c
                                           /\ Attempting(d)
                                           /\ cycle'[d].item = cycle[d].item
                                           /\ cycle[d].item \in Items
    BY <1>t, <2>1 DEF GoTo, Attempting, Cycle
  <2>4. \A d \in Cycles : Attempting(d)' => cycle[d].item # i
    BY <2>1, <2>3 DEF OnceInv, AttemptsApart
  <2>5. \A j \in Items : entered'[j] = IF j = i THEN 1 ELSE entered[j]
    BY <1>t, <2>1, <2>2 DEF Typed, TypeOK
  <2>. QED  BY <2>1, <2>2, <2>3, <2>4, <2>5 DEF OnceInv, AttemptsApart, ExecutedOnce
<1>8. ASSUME NEW c \in Cycles, Answer(c) PROVE Goal
  <2>1. PICK outcome \in Outcomes :
           /\ EndClaim(cycle[c].item, IF outcome = "COMPLETED" THEN "COMPLETED" ELSE "FAILED")
           /\ cycle' = [cycle EXCEPT ![c].pc = "marked", ![c].outcome = outcome]
    BY <1>8 DEF Answer
  <2>. DEFINE x == [cycle[c] EXCEPT !.pc = "marked", !.outcome = outcome]
  <2>2. x \in Cycle /\ x.pc = "marked"
    BY <1>t DEF Cycle, Pc
  <2>3. cycle' = [cycle EXCEPT ![c] = x]
    BY <1>t, <2>1
  <2>4. \A j \in Items : claim'[j].status = "NONE" => claim[j].status = "NONE"
    BY <1>8, <1>t, <2>1, ClaimKept DEF Answer, At
  <2>. QED  BY <1>8, <2>2, <2>3, <2>4, AttemptGoesOn DEF Answer
<1>9. ASSUME NEW c \in Cycles, CatchClaim(c) PROVE Goal
  <2>1. \A j \in Items : claim'[j].status = "NONE" => claim[j].status = "NONE"
    BY <1>9, <1>t, ClaimKept DEF CatchClaim, At
  <2>. QED  BY <1>9, <1>g, <2>1 DEF CatchClaim, Pc
<1>10. ASSUME NEW w \in Workers, Crash(w) PROVE Goal
  <2>1. \A c \in Cycles : Attempting(c)' => Attempting(c) /\ cycle'[c].item = cycle[c].item
    BY <1>10, <1>i DEF Crash, Attempting
  <2>. QED  BY <1>10, <2>1, AttemptsKept DEF Crash
<1>11. ASSUME NEW i \in Items, AbandonClaim(i) PROVE Goal
  <2>1. \A j \in Items : claim'[j].status = "NONE" => claim[j].status = "NONE"
    BY <1>11, <1>t, ClaimKept DEF AbandonClaim
  <2>. QED  BY <1>11, <2>1, AttemptsKept DEF AbandonClaim, Attempting
<1>12. CASE UNCHANGED <<claim, cycle, entered>>
  BY <1>12, AttemptsKept DEF Attempting
<1>13. /\ \A l \in Leases : Lapse(l) => UNCHANGED <<claim, cycle, entered>>
       /\ \A i \in Items : ExpireLease(i) \/ Detect(i) \/ Supersede(i) \/ Wake(i) =>
                           UNCHANGED <<claim, cycle, entered>>
       /\ Recover \/ UNCHANGED vars => UNCHANGED <<claim, cycle, entered>>
  BY DEF Lapse, ExpireLease, Detect, Supersede, Wake, Recover, vars
<1>. QED
  BY <1>1, <1>2, <1>3, <1>4, <1>5, <1>6, <1>7, <1>8, <1>9, <1>10, <1>11, <1>12, <1>13
  DEF Next, Work

LEMMA OnceInit == Init => OnceInv
<1>. SUFFICES ASSUME Init PROVE OnceInv
  OBVIOUS
<1>1. \A c \in Cycles : ~Attempting(c)
  BY DEF Init, Idle, Attempting
<1>2. \A i \in Items : entered[i] = 0
  BY DEF Init
<1>. QED  BY <1>1, <1>2, TypedInit DEF OnceInv, AttemptsApart, ExecutedOnce

(* Whatever becomes of the leases, an item enters the governed execution   *)
(* at most once.                                                           *)
THEOREM AlwaysExecutedOnce == Spec => []ExecutedOnce
<1>1. OnceInv => ExecutedOnce
  BY DEF OnceInv
<1>. QED  BY <1>1, OnceInit, OnceNext, PTL DEF Spec

-----------------------------------------------------------------------------
(***************************************************************************)
(* The queue implements GovernedItems                                      *)
(***************************************************************************)

(* A cycle that settles its item has executed it.                          *)
Inside(c) == cycle[c].pc \in {"entered", "marked"}
ExecutedInside == \A c \in Cycles : Inside(c) => entered[cycle[c].item] # 0

GovernedInv == OnceInv /\ ExecutedInside

(* Only Reenter leads inside, and nothing lowers entered.                  *)
LEMMA InsideNext == GovernedInv /\ [Next]_vars => GovernedInv'
<1>. SUFFICES ASSUME GovernedInv, [Next]_vars PROVE ExecutedInside'
  BY OnceNext DEF GovernedInv
<1>t. /\ Typed /\ ExecutedInside
      /\ \A c \in Cycles : cycle[c].pc # "idle" => cycle[c].item \in Items
      /\ cycle \in [Cycles -> Cycle]
      /\ entered \in [Items -> Nat]
  BY DEF GovernedInv, OnceInv, Typed, TypeOK
<1>i. Idle.pc = "idle"
  BY DEF Idle
<1>k. ASSUME UNCHANGED entered,
             \A c \in Cycles : Inside(c)' => Inside(c) /\ cycle'[c].item = cycle[c].item
      PROVE  ExecutedInside'
  BY <1>k, <1>t DEF ExecutedInside
<1>m. ASSUME NEW c \in Cycles, NEW x, cycle' = [cycle EXCEPT ![c] = x],
             x.pc \notin {"entered", "marked"}, UNCHANGED entered
      PROVE  ExecutedInside'
  BY <1>k, <1>m, <1>t DEF Inside
<1>g. ASSUME NEW c \in Cycles, NEW pc, GoTo(c, pc), pc \notin {"entered", "marked"},
             UNCHANGED entered
      PROVE  ExecutedInside'
  <2>1. [cycle[c] EXCEPT !.pc = pc].pc = pc
    BY <1>t DEF Cycle
  <2>2. cycle' = [cycle EXCEPT ![c] = [cycle[c] EXCEPT !.pc = pc]]
    BY <1>g DEF GoTo
  <2>. QED  BY <1>g, <1>m, <2>1, <2>2
<1>1. ASSUME NEW c \in Cycles, List(c) PROVE ExecutedInside'
  <2>1. PICK i \in Items :
           cycle' = [cycle EXCEPT ![c] = [Idle EXCEPT !.pc = "listed", !.item = i]]
    BY <1>1 DEF List
  <2>2. [Idle EXCEPT !.pc = "listed", !.item = i].pc = "listed"
    BY DEF Idle
  <2>. QED  BY <1>1, <1>m, <2>1, <2>2 DEF List
<1>2. ASSUME NEW c \in Cycles, SelectLease(c) PROVE ExecutedInside'
  <2>. DEFINE y == [cycle[c] EXCEPT !.pc = "acquiring", !.stale = rows[cycle[c].item]["ACTIVE"]]
  <2>1. y.pc = "acquiring"
    BY <1>t DEF Cycle
  <2>2. cycle' = [cycle EXCEPT ![c] = Idle] \/ cycle' = [cycle EXCEPT ![c] = y]
    BY <1>2 DEF SelectLease
  <2>. QED  BY <1>2, <1>i, <1>m, <2>1, <2>2 DEF SelectLease
<1>3. ASSUME NEW c \in Cycles, InsertLease(c) PROVE ExecutedInside'
  <2>. DEFINE l == CHOOSE l \in Leases : l \notin InUse
              y == [cycle[c] EXCEPT !.pc = "leased", !.lease = l, !.stale = None]
  <2>1. y.pc = "leased"
    BY <1>t DEF Cycle
  <2>2. cycle' = [cycle EXCEPT ![c] = y]
    BY <1>3 DEF InsertLease
  <2>. QED  BY <1>3, <1>m, <2>1, <2>2 DEF InsertLease
<1>4. ASSUME NEW c \in Cycles, Release(c) PROVE ExecutedInside'
  BY <1>4, <1>i, <1>m DEF Release
<1>5. ASSUME NEW c \in Cycles,
             \/ LedgerFails(c) \/ Claim(c) \/ ToRunning(c) \/ MarkStarted(c) \/ ReentryThrows(c)
             \/ Settle(c) \/ CatchClaim(c) \/ CatchItem(c)
      PROVE  ExecutedInside'
  <2>1. PICK pc : GoTo(c, pc) /\ pc \notin {"entered", "marked"}
    BY <1>5 DEF LedgerFails, Claim, ToRunning, MarkStarted, ReentryThrows, Settle, CatchClaim,
           CatchItem
  <2>2. UNCHANGED entered
    BY <1>5 DEF LedgerFails, Claim, ToRunning, MarkStarted, ReentryThrows, Settle, CatchClaim,
           CatchItem
  <2>. QED  BY <1>g, <2>1, <2>2
<1>6. ASSUME NEW c \in Cycles, Reenter(c) PROVE ExecutedInside'
  <2>. DEFINE i == cycle[c].item
  <2>1. /\ entered' = [entered EXCEPT ![i] = entered[i] + 1]
        /\ i \in Items
        /\ cycle' = [cycle EXCEPT ![c] = [cycle[c] EXCEPT !.pc = "entered"]]
    BY <1>6, <1>t DEF Reenter, At, GoTo
  <2>2. \A j \in Items : entered'[j] = IF j = i THEN entered[i] + 1 ELSE entered[j]
    BY <1>t, <2>1
  <2>3. entered'[i] # 0 /\ \A j \in Items : entered[j] # 0 => entered'[j] # 0
    BY <1>t, <2>1, <2>2
  <2>4. cycle'[c].item = i /\ \A d \in Cycles \ {c} : cycle'[d] = cycle[d]
    BY <1>t, <2>1 DEF Cycle
  <2>. QED  BY <1>t, <2>3, <2>4 DEF ExecutedInside, Inside
<1>7. ASSUME NEW c \in Cycles, Answer(c) PROVE ExecutedInside'
  <2>1. PICK outcome \in Outcomes :
           cycle' = [cycle EXCEPT ![c].pc = "marked", ![c].outcome = outcome]
    BY <1>7 DEF Answer
  <2>2. cycle'[c].item = cycle[c].item /\ \A d \in Cycles \ {c} : cycle'[d] = cycle[d]
    BY <1>t, <2>1 DEF Cycle
  <2>3. Inside(c)
    BY <1>7 DEF Answer, At, Inside
  <2>. QED  BY <1>7, <1>k, <2>2, <2>3 DEF Answer, Inside
<1>8. ASSUME NEW w \in Workers, Crash(w) PROVE ExecutedInside'
  <2>1. \A c \in Cycles : Inside(c)' => Inside(c) /\ cycle'[c].item = cycle[c].item
    BY <1>8, <1>i DEF Crash, Inside
  <2>. QED  BY <1>8, <1>k, <2>1 DEF Crash
<1>9. CASE UNCHANGED <<cycle, entered>>
  BY <1>9, <1>k DEF Inside
<1>10. /\ \A l \in Leases : Lapse(l) => UNCHANGED <<cycle, entered>>
       /\ \A i \in Items : \/ ExpireLease(i) \/ AbandonClaim(i) \/ Detect(i) \/ Supersede(i)
                           \/ Wake(i)
                           => UNCHANGED <<cycle, entered>>
       /\ Recover \/ UNCHANGED vars => UNCHANGED <<cycle, entered>>
  BY DEF Lapse, ExpireLease, AbandonClaim, Detect, Supersede, Wake, Recover, vars
<1>. QED
  BY <1>1, <1>2, <1>3, <1>4, <1>5, <1>6, <1>7, <1>8, <1>9, <1>10 DEF Next, Work

(* A transition from a state that is not terminal ends its item or leaves  *)
(* every ending as it is.                                                  *)
LEMMA TransitionEnds ==
    ASSUME Typed, NEW i \in Items, NEW from \in QueueState \ Terminal, NEW to,
           Transition(i, from, to) \/ Throws(i, from),
           to = "COMPLETED" => entered[i] = 1, UNCHANGED entered
    PROVE  Governed!Complete(i) \/ Governed!Drop(i) \/ UNCHANGED Ending
<1>t. item \in [Items -> QueueState]
  BY DEF Typed, TypeOK
<1>1. CASE Throws(i, from)
  BY <1>1 DEF Throws, Ending
<1>2. CASE Transition(i, from, to)
  <2>1. item[i] \notin Terminal /\ item' = [item EXCEPT ![i] = to]
    BY <1>2 DEF Transition
  <2>2. Ending[i] = "open"
    BY <2>1 DEF Ending, Terminal
  <2>. DEFINE how == IF to = "COMPLETED" THEN "completed"
                     ELSE IF to \in Terminal THEN "dropped" ELSE "open"
  <2>3. Ending' = [Ending EXCEPT ![i] = how]
    BY <1>t, <2>1 DEF Ending
  <2>4. CASE to = "COMPLETED"
    BY <2>2, <2>3, <2>4 DEF Governed!Complete
  <2>5. CASE to \in Terminal \ {"COMPLETED"}
    BY <2>2, <2>3, <2>5 DEF Governed!Drop
  <2>6. CASE to \notin Terminal
    <3>1. how = "open"
      BY <2>6 DEF Terminal
    <3>. HIDE DEF how
    <3>. QED  BY <2>2, <2>3, <3>1 DEF Ending
  <2>. QED  BY <2>4, <2>5, <2>6
<1>. QED  BY <1>1, <1>2

(* For any items, cycles, processes and leases, the queue implements items *)
(* that are executed at most once, completed only if they were, and left   *)
(* alone once they have ended (processQueueItem, transitionItem,           *)
(* recoverStuckItem, supersede).                                           *)
THEOREM QueueIsGoverned == Spec => WorkIsGoverned
<1>1. Init => GovernedInv
  <2>. SUFFICES ASSUME Init PROVE GovernedInv
    OBVIOUS
  <2>1. ExecutedInside
    BY DEF Init, Idle, ExecutedInside, Inside
  <2>. QED  BY <2>1, OnceInit DEF GovernedInv
<1>2. Init => Governed!Init
  BY DEF Init, Governed!Init, Ending, Blocked, Terminal
<1>3. GovernedInv /\ GovernedInv' /\ [Next]_vars => [Governed!Next]_<<entered, Ending>>
  <2>. SUFFICES ASSUME GovernedInv, GovernedInv', [Next]_vars
                PROVE  Governed!Next \/ UNCHANGED <<entered, Ending>>
    OBVIOUS
  <2>t. /\ Typed /\ AttemptsApart /\ ExecutedOnce /\ ExecutedInside
        /\ entered \in [Items -> Nat]
    BY DEF GovernedInv, OnceInv, Typed, TypeOK
  <2>1. CASE UNCHANGED <<item, entered>>
    BY <2>1 DEF Ending
  <2>2. ASSUME NEW c \in Cycles, Reenter(c) PROVE Governed!Next
    <3>1. cycle[c].item \in Items /\ entered[cycle[c].item] = 0 /\ UNCHANGED item
      BY <2>2, <2>t DEF Reenter, At, Typed, TypeOK, AttemptsApart, Attempting
    <3>2. entered' = [entered EXCEPT ![cycle[c].item] = 1]
      BY <2>2, <2>t, <3>1 DEF Reenter
    <3>3. Governed!Enter(cycle[c].item)
      BY <3>1, <3>2 DEF Governed!Enter, Ending
    <3>. QED  BY <3>1, <3>3 DEF Governed!Next
  <2>3. ASSUME UNCHANGED entered, NEW i \in Items, NEW from \in QueueState \ Terminal, NEW to,
               ItemStep(i, from, to)
        PROVE  Governed!Next \/ UNCHANGED <<entered, Ending>>
    <3>1. ASSUME to = "COMPLETED" PROVE entered[i] = 1
      <4>1. entered[i] # 0
        BY <2>3, <2>t, <3>1 DEF ItemStep, At, ExecutedInside, Inside
      <4>2. entered[i] \in Nat /\ entered[i] <= 1
        BY <2>t DEF ExecutedOnce
      <4>. QED  BY <4>1, <4>2
    <3>2. Governed!Complete(i) \/ Governed!Drop(i) \/ UNCHANGED Ending
      BY <2>3, <2>t, <3>1, TransitionEnds DEF ItemStep
    <3>. QED  BY <2>3, <3>2 DEF Governed!Next
  <2>. QED  BY <2>t, <2>1, <2>2, <2>3, ItemSteps
<1>. QED
  BY <1>1, <1>2, <1>3, InsideNext, PTL DEF Spec, WorkIsGoverned, Governed!Spec, Governed!vars
=============================================================================

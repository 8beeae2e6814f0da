----------------------- MODULE WikiDirtyQueue_proofs -----------------------
(***************************************************************************)
(* Proofs about the wiki maintainer for every set of facts, channels and   *)
(* pages, every number of overlapping flushes and every number of faults,  *)
(* builds and edits.  WikiInv is the inductive invariant; one lemma per    *)
(* conjunct shows that a step preserves it.                                *)
(***************************************************************************)
EXTENDS WikiDirtyQueue, TLAPS

\* A page that is let go leaves the snapshot of its flush and no other.
LEMMA LetGoEffect ==
    ASSUME snap \in [Flushes -> [Pages -> SUBSET Facts]],
           NEW k \in Flushes, NEW q, LetGo(k, q)
    PROVE  /\ snap' \in [Flushes -> [Pages -> SUBSET Facts]]
           /\ q \in Pages => snap'[k][q] = {}
           /\ \A j \in Flushes, p \in Pages : j # k \/ p # q => snap'[j][p] = snap[j][p]
           /\ \A j \in Flushes : j # k => snap'[j] = snap[j]
  BY DEF LetGo

\* Page rows are never deleted, so a built channel stays built.
LEMMA BuiltStays ==
    ASSUME TypeOK, [Next]_vars, NEW c \in Channels, Built(c)
    PROVE  Built(c)'
  <1>1. PICK p \in PagesOf(c) : mode[p] # "absent"
    BY DEF Built
  <1>2. p \in Pages /\ p \in PagesOf(c)'
    BY <1>1 DEF PagesOf
  <1>3. mode'[p] # "absent"
    <2>1. CASE UNCHANGED mode
      BY <1>1, <2>1
    <2>2. ASSUME NEW k \in Flushes, SavePage(k) PROVE mode'[p] # "absent"
      BY <1>1, <1>2, <2>2 DEF SavePage, TypeOK, Modes
    <2>3. ASSUME NEW q \in Pages, Seed(q) PROVE mode'[p] # "absent"
      BY <1>1, <1>2, <2>3 DEF Seed, TypeOK
    <2>4. ASSUME NEW q \in Pages, NEW m \in Modes, SetMode(q, m) PROVE mode'[p] # "absent"
      BY <1>1, <1>2, <2>4 DEF SetMode, TypeOK, Modes
    <2> QED
      BY <2>1, <2>2, <2>3, <2>4
      DEF Next, Event, Flush, vars, pageVars, Route, RouteFails, EnqueueDirty, EnqueueFails,
          Mirror, Settle, Wake, Drain, Begin, ClaimUpdate, GateCheck, GateFails, ClaimFind,
          ClaimFails, Merge, Defer, SkipPage, ReadPage, RewriteFails, MarkDone, MarkFails,
          Crash
  <1> QED
    BY <1>2, <1>3 DEF Built

\* Every step of the events, the flushes, the Builder, the operator and a
\* restart keeps the types.
LEMMA WikiTypeStep ==
    ASSUME TypeOK, FlushShape, [Next]_vars
    PROVE  TypeOK'
  <1> USE WikiAssumption DEF TypeOK, Modes, NoFacts
  <1>1. CASE UNCHANGED <<stage, routed, todo, row, rowFacts, dirty, mode, seen, written,
      task, drainDue, pc, chans, at, snap, claimed, deferred, readSeen, readMode,
      doneIds, unqueued, late, missed, faults, seeds, edits>>
    BY <1>1
  <1>2. ASSUME NEW f \in Facts, NEW c \in Channels, NEW P \in SUBSET Pages, Route(f, c,
      P) PROVE TypeOK'
    BY <1>2 DEF Route, PagesOf, eventVars, queueVars, pageVars, flushVars, histVars,
        counts
  <1>3. ASSUME NEW f \in Facts, RouteFails(f) PROVE TypeOK'
    BY <1>3 DEF RouteFails, Fault, eventVars, queueVars, pageVars, flushVars, histVars,
        counts
  <1>4. ASSUME NEW f \in Facts, NEW p \in Pages, EnqueueDirty(f, p) PROVE TypeOK'
    BY <1>4 DEF EnqueueDirty, eventVars, queueVars, pageVars, flushVars, histVars,
        counts
  <1>5. ASSUME NEW f \in Facts, EnqueueFails(f) PROVE TypeOK'
    BY <1>5 DEF EnqueueFails, Fault, eventVars, queueVars, pageVars, flushVars,
        histVars, counts
  <1>6. ASSUME NEW f \in Facts, Mirror(f) PROVE TypeOK'
    BY <1>6 DEF Mirror, eventVars, queueVars, pageVars, flushVars, histVars, counts
  <1>7. ASSUME Settle PROVE TypeOK'
    BY <1>7 DEF Settle, eventVars, queueVars, pageVars, flushVars, histVars, counts
  <1>8. ASSUME Wake PROVE TypeOK'
    BY <1>8 DEF Wake, Begin, DirtyChannels, eventVars, queueVars, pageVars, flushVars,
        histVars, counts
  <1>9. ASSUME NEW k \in Flushes, Drain(k) PROVE TypeOK'
    <2>1. drainDue' \in BOOLEAN
      BY <1>9 DEF Drain
    <2> QED
      BY <2>1, <1>9 DEF Drain, Begin, DirtyChannels, eventVars, queueVars, pageVars,
          flushVars, histVars, counts
  <1>10. ASSUME NEW k \in Flushes, NEW c \in Channels, ClaimUpdate(k, c) PROVE TypeOK'
    BY <1>10 DEF ClaimUpdate, eventVars, queueVars, pageVars, flushVars, histVars,
        counts
  <1>11. ASSUME NEW k \in Flushes, NEW c \in Channels, GateCheck(k, c) PROVE TypeOK'
    BY <1>11 DEF GateCheck, eventVars, queueVars, pageVars, flushVars, histVars, counts
  <1>12. ASSUME NEW k \in Flushes, NEW c \in Channels, GateFails(k, c) PROVE TypeOK'
    BY <1>12 DEF GateFails, Fault, eventVars, queueVars, pageVars, flushVars, histVars,
        counts
  <1>13. ASSUME NEW k \in Flushes, ClaimFind(k) PROVE TypeOK'
    BY <1>13 DEF ClaimFind, Found, PagesOf, eventVars, queueVars, pageVars, flushVars,
        histVars, counts
  <1>14. ASSUME NEW k \in Flushes, ClaimFails(k) PROVE TypeOK'
    BY <1>14 DEF ClaimFails, Fault, eventVars, queueVars, pageVars, flushVars, histVars,
        counts
  <1>15. ASSUME NEW k \in Flushes, Merge(k) PROVE TypeOK'
    BY <1>15 DEF Merge, eventVars, queueVars, pageVars, flushVars, histVars, counts
  <1>16. ASSUME NEW k \in Flushes, Defer(k) PROVE TypeOK'
    BY <1>16 DEF Defer, eventVars, queueVars, pageVars, flushVars, histVars, counts
  <1>17. ASSUME NEW k \in Flushes, NEW p \in Pages, SkipPage(k, p) PROVE TypeOK'
    <2>1. /\ snap' \in [Flushes -> [Pages -> SUBSET Facts]]
          /\ p \in Pages => snap'[k][p] = {}
          /\ \A j \in Flushes, q \in Pages : j # k \/ q # p => snap'[j][q] = snap[j][q]
          /\ \A j \in Flushes : j # k => snap'[j] = snap[j]
      BY <1>17, LetGoEffect DEF SkipPage
    <2> QED
      BY <2>1, <1>17 DEF SkipPage, eventVars, queueVars, pageVars, flushVars, histVars,
          counts
  <1>18. ASSUME NEW k \in Flushes, NEW p \in Pages, ReadPage(k, p) PROVE TypeOK'
    BY <1>18 DEF ReadPage, eventVars, queueVars, pageVars, flushVars, histVars, counts
  <1>19. ASSUME NEW k \in Flushes, SavePage(k) PROVE TypeOK'
    <2>1. /\ snap' \in [Flushes -> [Pages -> SUBSET Facts]]
          /\ at[k] \in Pages => snap'[k][at[k]] = {}
          /\ \A j \in Flushes, q \in Pages : j # k \/ q # at[k] => snap'[j][q] =
              snap[j][q]
          /\ \A j \in Flushes : j # k => snap'[j] = snap[j]
      BY <1>19, LetGoEffect DEF SavePage
    <2>2. /\ seen' \in [Pages -> SUBSET Facts] /\ written' \in [Pages -> SUBSET Facts]
          /\ mode' \in [Pages -> Modes \union {"absent"}]
      BY <1>19 DEF SavePage, FlushShape
    <2>3. doneIds' \in [Flushes -> SUBSET Pages]
      BY <1>19 DEF SavePage
    <2> QED
      BY <2>1, <2>2, <2>3, <1>19 DEF SavePage, eventVars, queueVars, pageVars,
          flushVars,
          histVars, counts
  <1>20. ASSUME NEW k \in Flushes, RewriteFails(k) PROVE TypeOK'
    <2>1. /\ snap' \in [Flushes -> [Pages -> SUBSET Facts]]
          /\ at[k] \in Pages => snap'[k][at[k]] = {}
          /\ \A j \in Flushes, q \in Pages : j # k \/ q # at[k] => snap'[j][q] =
              snap[j][q]
          /\ \A j \in Flushes : j # k => snap'[j] = snap[j]
      BY <1>20, LetGoEffect DEF RewriteFails
    <2> QED
      BY <2>1, <1>20 DEF RewriteFails, Fault, eventVars, queueVars, pageVars, flushVars,
          histVars, counts
  <1>21. ASSUME NEW k \in Flushes, MarkDone(k) PROVE TypeOK'
    BY <1>21 DEF MarkDone, Return, eventVars, queueVars, pageVars, flushVars, histVars,
        counts
  <1>22. ASSUME NEW k \in Flushes, MarkFails(k) PROVE TypeOK'
    BY <1>22 DEF MarkFails, Fault, Return, eventVars, queueVars, pageVars, flushVars,
        histVars, counts
  <1>23. ASSUME NEW p \in Pages, Seed(p) PROVE TypeOK'
    BY <1>23 DEF Seed, eventVars, queueVars, pageVars, flushVars, histVars, counts
  <1>24. ASSUME NEW p \in Pages, NEW m \in Modes, SetMode(p, m) PROVE TypeOK'
    BY <1>24 DEF SetMode, eventVars, queueVars, pageVars, flushVars, histVars, counts
  <1>25. ASSUME NEW S \in SUBSET Pages, Crash(S) PROVE TypeOK'
    <2>1. drainDue' \in BOOLEAN
      BY <1>25 DEF Crash
    <2> QED
      BY <2>1, <1>25 DEF Crash, Fault, eventVars, queueVars, pageVars,
          flushVars, histVars, counts
  <1>26. CASE UNCHANGED vars
    BY <1>1, <1>26 DEF vars, eventVars, queueVars, pageVars, flushVars, histVars, counts
  <1> HIDE DEF TypeOK, Modes, NoFacts
  <1> QED
    BY <1>1, <1>2, <1>3, <1>4, <1>5, <1>6, <1>7, <1>8, <1>9, <1>10, <1>11, <1>12, <1>13,
        <1>14, <1>15, <1>16, <1>17, <1>18, <1>19, <1>20, <1>21, <1>22, <1>23, <1>24,
        <1>25, <1>26 DEF Next, Event, Flush, eventVars, queueVars, pageVars, flushVars,
        histVars, counts

\* A flush holds what its position in _flush_dirty says.
LEMMA ShapeStep ==
    ASSUME TypeOK, FlushShape, [Next]_vars
    PROVE  FlushShape'
  <1> USE WikiAssumption DEF FlushShape, TypeOK, NoFacts
  <1>1. CASE UNCHANGED <<pc, claimed, deferred, snap, doneIds, rowFacts, at>>
    BY <1>1
  <1>2. ASSUME NEW f \in Facts, NEW p \in Pages, EnqueueDirty(f, p) PROVE FlushShape'
    BY <1>2 DEF EnqueueDirty, eventVars, queueVars, pageVars, flushVars, histVars,
        counts
  <1>3. ASSUME Wake PROVE FlushShape'
    BY <1>3 DEF Wake, Begin, DirtyChannels, eventVars, queueVars, pageVars, flushVars,
        histVars, counts
  <1>4. ASSUME NEW k \in Flushes, Drain(k) PROVE FlushShape'
    BY <1>4 DEF Drain, Begin, DirtyChannels, eventVars, queueVars, pageVars, flushVars,
        histVars, counts
  <1>5. ASSUME NEW k \in Flushes, NEW c \in Channels, ClaimUpdate(k, c) PROVE
      FlushShape'
    BY <1>5 DEF ClaimUpdate, eventVars, queueVars, pageVars, flushVars, histVars, counts
  <1>6. ASSUME NEW k \in Flushes, NEW c \in Channels, GateCheck(k, c) PROVE FlushShape'
    BY <1>6 DEF GateCheck, eventVars, queueVars, pageVars, flushVars, histVars, counts
  <1>7. ASSUME NEW k \in Flushes, ClaimFind(k) PROVE FlushShape'
    BY <1>7 DEF ClaimFind, Found, PagesOf, eventVars, queueVars, pageVars, flushVars,
        histVars, counts
  <1>8. ASSUME NEW k \in Flushes, ClaimFails(k) PROVE FlushShape'
    BY <1>8 DEF ClaimFails, Fault, eventVars, queueVars, pageVars, flushVars, histVars,
        counts
  <1>9. ASSUME NEW k \in Flushes, Merge(k) PROVE FlushShape'
    BY <1>9 DEF Merge, eventVars, queueVars, pageVars, flushVars, histVars, counts
  <1>10. ASSUME NEW k \in Flushes, Defer(k) PROVE FlushShape'
    BY <1>10 DEF Defer, eventVars, queueVars, pageVars, flushVars, histVars, counts
  <1>11. ASSUME NEW k \in Flushes, NEW p \in Pages, SkipPage(k, p) PROVE FlushShape'
    <2>1. /\ snap' \in [Flushes -> [Pages -> SUBSET Facts]]
          /\ p \in Pages => snap'[k][p] = {}
          /\ \A j \in Flushes, q \in Pages : j # k \/ q # p => snap'[j][q] = snap[j][q]
          /\ \A j \in Flushes : j # k => snap'[j] = snap[j]
      BY <1>11, LetGoEffect DEF SkipPage
    <2>2. pc[k] = "rewrite" /\ pc' = pc /\ claimed' = claimed /\ deferred' = deferred
          /\ doneIds' = doneIds /\ at' = at /\ rowFacts' = rowFacts
      BY <1>11 DEF SkipPage, queueVars
    <2>3. ASSUME NEW j \in Flushes, j # k
          PROVE  snap'[j] = snap[j]
      BY <2>1, <2>3
    <2>4. ASSUME NEW j \in Flushes, pc'[j] \in {"idle", "claim", "find", "call"}
          PROVE  snap'[j] = snap[j]
      BY <2>2, <2>3, <2>4
    <2>5. ASSUME NEW j \in Flushes, pc'[j] = "idle"
          PROVE  claimed'[j] = {} /\ deferred'[j] = {} /\ snap'[j] = NoFacts'
      BY <2>2, <2>4, <2>5
    <2>6. ASSUME NEW j \in Flushes
          PROVE  /\ pc'[j] \in {"idle", "claim", "find", "gate"} => doneIds'[j] = {}
                 /\ doneIds'[j] \subseteq claimed'[j]
      BY <2>2
    <2>8. ASSUME NEW j \in Flushes, pc'[j] = "call"
          PROVE  at'[j] \in Pages /\ snap'[j][at'[j]] # {}
      <3>1. snap'[j] = snap[j] /\ at'[j] = at[j] /\ pc[j] = "call"
        BY <2>2, <2>4, <2>8
      <3> QED
        BY <3>1
    <2>7. ASSUME NEW j \in Flushes, pc'[j] \in {"claim", "find"}, NEW q \in Pages
          PROVE  snap'[j][q] \subseteq rowFacts'[q]
      BY <2>2, <2>4, <2>7
    <2> QED
      BY <2>5, <2>6, <2>7, <2>8
  <1>12. ASSUME NEW k \in Flushes, NEW p \in Pages, ReadPage(k, p) PROVE FlushShape'
    BY <1>12 DEF ReadPage, eventVars, queueVars, pageVars, flushVars, histVars, counts
  <1>13. ASSUME NEW k \in Flushes, SavePage(k) PROVE FlushShape'
    <2>1. /\ snap' \in [Flushes -> [Pages -> SUBSET Facts]]
          /\ at[k] \in Pages => snap'[k][at[k]] = {}
          /\ \A j \in Flushes, q \in Pages : j # k \/ q # at[k] => snap'[j][q] =
              snap[j][q]
          /\ \A j \in Flushes : j # k => snap'[j] = snap[j]
      BY <1>13, LetGoEffect DEF SavePage
    <2> QED
      BY <2>1, <1>13 DEF SavePage, eventVars, queueVars, pageVars, flushVars, histVars,
          counts
  <1>14. ASSUME NEW k \in Flushes, RewriteFails(k) PROVE FlushShape'
    <2>1. /\ snap' \in [Flushes -> [Pages -> SUBSET Facts]]
          /\ at[k] \in Pages => snap'[k][at[k]] = {}
          /\ \A j \in Flushes, q \in Pages : j # k \/ q # at[k] => snap'[j][q] =
              snap[j][q]
          /\ \A j \in Flushes : j # k => snap'[j] = snap[j]
      BY <1>14, LetGoEffect DEF RewriteFails
    <2> QED
      BY <2>1, <1>14 DEF RewriteFails, Fault, eventVars, queueVars, pageVars, flushVars,
          histVars, counts
  <1>15. ASSUME NEW k \in Flushes, MarkDone(k) PROVE FlushShape'
    BY <1>15 DEF MarkDone, Return, eventVars, queueVars, pageVars, flushVars, histVars,
        counts
  <1>16. ASSUME NEW k \in Flushes, MarkFails(k) PROVE FlushShape'
    BY <1>16 DEF MarkFails, Fault, Return, eventVars, queueVars, pageVars, flushVars,
        histVars, counts
  <1>17. ASSUME NEW S \in SUBSET Pages, Crash(S) PROVE FlushShape'
    BY <1>17 DEF Crash, Fault, eventVars, queueVars, pageVars, flushVars, histVars,
        counts
  <1>18. CASE UNCHANGED vars
    BY <1>1, <1>18 DEF vars, eventVars, queueVars, pageVars, flushVars, histVars, counts
  <1> HIDE DEF FlushShape, TypeOK, NoFacts
  <1> QED
    BY <1>1, <1>2, <1>3, <1>4, <1>5, <1>6, <1>7, <1>8, <1>9, <1>10, <1>11, <1>12, <1>13,
        <1>14, <1>15, <1>16, <1>17, <1>18 DEF Next, Event, Flush, Route, RouteFails,
        EnqueueFails, Mirror, Settle, GateFails, Seed, SetMode, eventVars, queueVars,
        pageVars, flushVars, histVars, counts

\* A fact's pages are enqueued one by one, or given up on together.
LEMMA RoutedStep ==
    ASSUME TypeOK, RoutedQueued, [Next]_vars
    PROVE  RoutedQueued'
  <1> USE WikiAssumption DEF RoutedQueued, TypeOK
  <1>1. CASE UNCHANGED <<stage, routed, todo, rowFacts, unqueued>>
    BY <1>1
  <1>2. ASSUME NEW f \in Facts, NEW c \in Channels, NEW P \in SUBSET Pages, Route(f, c,
      P) PROVE RoutedQueued'
    BY <1>2 DEF Route, PagesOf, eventVars, queueVars, pageVars, flushVars, histVars,
        counts
  <1>3. ASSUME NEW f \in Facts, RouteFails(f) PROVE RoutedQueued'
    BY <1>3 DEF RouteFails, Fault, eventVars, queueVars, pageVars, flushVars, histVars,
        counts
  <1>4. ASSUME NEW f \in Facts, NEW p \in Pages, EnqueueDirty(f, p) PROVE RoutedQueued'
    BY <1>4 DEF EnqueueDirty, eventVars, queueVars, pageVars, flushVars, histVars,
        counts
  <1>5. ASSUME NEW f \in Facts, EnqueueFails(f) PROVE RoutedQueued'
    BY <1>5 DEF EnqueueFails, Fault, eventVars, queueVars, pageVars, flushVars,
        histVars, counts
  <1>6. ASSUME NEW f \in Facts, Mirror(f) PROVE RoutedQueued'
    BY <1>6 DEF Mirror, eventVars, queueVars, pageVars, flushVars, histVars, counts
  <1>7. ASSUME NEW S \in SUBSET Pages, Crash(S) PROVE RoutedQueued'
    BY <1>7 DEF Crash, Fault, eventVars, queueVars, pageVars, flushVars, histVars,
        counts
  <1>8. CASE UNCHANGED vars
    BY <1>1, <1>8 DEF vars, eventVars, queueVars, pageVars, flushVars, histVars, counts
  <1> HIDE DEF RoutedQueued, TypeOK
  <1> QED
    BY <1>1, <1>2, <1>3, <1>4, <1>5, <1>6, <1>7, <1>8 DEF Next, Event, Flush, Settle,
        Wake, Drain, ClaimUpdate, GateCheck, GateFails, ClaimFind, ClaimFails, Merge,
        Defer, SkipPage, ReadPage, SavePage, RewriteFails, MarkDone, MarkFails, Seed,
        SetMode, Begin, Return, eventVars, queueVars, pageVars, flushVars, histVars,
        counts

\* mark_dirty_done only covers facts that were written or late.
LEMMA RowsStep ==
    ASSUME TypeOK, FlushShape, RowsCovered, ClaimsCovered, [Next]_vars
    PROVE  RowsCovered'
  <1> USE WikiAssumption DEF RowsCovered, TypeOK
  <1>1. CASE UNCHANGED <<row, rowFacts, written, missed>>
    BY <1>1
  <1>2. ASSUME NEW f \in Facts, NEW p \in Pages, EnqueueDirty(f, p) PROVE RowsCovered'
    BY <1>2 DEF EnqueueDirty, eventVars, queueVars, pageVars, flushVars, histVars,
        counts
  <1>3. ASSUME NEW k \in Flushes, NEW c \in Channels, ClaimUpdate(k, c) PROVE
      RowsCovered'
    BY <1>3 DEF ClaimUpdate, eventVars, queueVars, pageVars, flushVars, histVars, counts
  <1>4. ASSUME NEW k \in Flushes, SavePage(k) PROVE RowsCovered'
    BY <1>4 DEF SavePage, eventVars, queueVars, pageVars, flushVars, histVars, counts
  <1>5. ASSUME NEW k \in Flushes, MarkDone(k) PROVE RowsCovered'
    BY <1>5 DEF MarkDone, Return, ClaimsCovered, eventVars, queueVars, pageVars,
        flushVars, histVars, counts
  <1>6. ASSUME NEW S \in SUBSET Pages, Crash(S) PROVE RowsCovered'
    BY <1>6 DEF Crash, Fault, eventVars, queueVars, pageVars, flushVars, histVars,
        counts
  <1>7. CASE UNCHANGED vars
    BY <1>1, <1>7 DEF vars, eventVars, queueVars, pageVars, flushVars, histVars, counts
  <1> HIDE DEF RowsCovered, TypeOK
  <1> QED
    BY <1>1, <1>2, <1>3, <1>4, <1>5, <1>6, <1>7 DEF Next, Event, Flush, Route,
        RouteFails, EnqueueFails, Mirror, Settle, Wake, Drain, GateCheck, GateFails,
        ClaimFind, ClaimFails, Merge, Defer, SkipPage, ReadPage, RewriteFails,
        MarkFails, Seed, SetMode, Begin, Return, eventVars, queueVars, pageVars,
        flushVars, histVars, counts

\* The snapshot keeps covering the rows a flush has claimed.
LEMMA ClaimsStep ==
    ASSUME TypeOK, FlushShape, ClaimsCovered, [Next]_vars
    PROVE  ClaimsCovered'
  <1> USE WikiAssumption DEF ClaimsCovered, TypeOK, FlushShape, NoFacts
  <1>1. CASE UNCHANGED <<claimed, pc, snap, rowFacts, late, doneIds, written>>
    BY <1>1
  <1>2. ASSUME NEW f \in Facts, NEW p \in Pages, EnqueueDirty(f, p) PROVE ClaimsCovered'
    BY <1>2 DEF EnqueueDirty, eventVars, queueVars, pageVars, flushVars, histVars,
        counts
  <1>3. ASSUME Wake PROVE ClaimsCovered'
    BY <1>3 DEF Wake, Begin, DirtyChannels, eventVars, queueVars, pageVars, flushVars,
        histVars, counts
  <1>4. ASSUME NEW k \in Flushes, Drain(k) PROVE ClaimsCovered'
    BY <1>4 DEF Drain, Begin, DirtyChannels, eventVars, queueVars, pageVars, flushVars,
        histVars, counts
  <1>5. ASSUME NEW k \in Flushes, NEW c \in Channels, ClaimUpdate(k, c) PROVE
      ClaimsCovered'
    BY <1>5 DEF ClaimUpdate, eventVars, queueVars, pageVars, flushVars, histVars, counts
  <1>6. ASSUME NEW k \in Flushes, ClaimFind(k) PROVE ClaimsCovered'
    BY <1>6 DEF ClaimFind, Found, PagesOf, eventVars, queueVars, pageVars, flushVars,
        histVars, counts
  <1>7. ASSUME NEW k \in Flushes, ClaimFails(k) PROVE ClaimsCovered'
    BY <1>7 DEF ClaimFails, Fault, eventVars, queueVars, pageVars, flushVars, histVars,
        counts
  <1>8. ASSUME NEW k \in Flushes, Merge(k) PROVE ClaimsCovered'
    BY <1>8 DEF Merge, eventVars, queueVars, pageVars, flushVars, histVars, counts
  <1>9. ASSUME NEW k \in Flushes, Defer(k) PROVE ClaimsCovered'
    BY <1>9 DEF Defer, eventVars, queueVars, pageVars, flushVars, histVars, counts
  <1>10. ASSUME NEW k \in Flushes, NEW p \in Pages, SkipPage(k, p) PROVE ClaimsCovered'
    <2>1. /\ snap' \in [Flushes -> [Pages -> SUBSET Facts]]
          /\ p \in Pages => snap'[k][p] = {}
          /\ \A j \in Flushes, q \in Pages : j # k \/ q # p => snap'[j][q] = snap[j][q]
          /\ \A j \in Flushes : j # k => snap'[j] = snap[j]
      BY <1>10, LetGoEffect DEF SkipPage
    <2>2. /\ pc' = pc /\ pc[k] = "rewrite" /\ claimed' = claimed /\ rowFacts' = rowFacts
          /\ late' = late /\ doneIds' = doneIds /\ written' = written
      BY <1>10 DEF SkipPage, queueVars, histVars, pageVars
    <2>3. ASSUME NEW j \in Flushes, NEW q \in Pages,
                 q \in claimed[j] /\ (pc[j] \in {"claim", "find", "gate"} \/ snap'[j][q]
                     # {})
          PROVE  rowFacts[q] \subseteq snap'[j][q] \union late[j][q]
      <3>1. ~(j = k /\ q = p)
        BY <2>1, <2>2, <2>3
      <3>2. snap'[j][q] = snap[j][q]
        BY <2>1, <3>1
      <3> QED
        BY <2>3, <3>2
    <2> QED
      BY <2>2, <2>3
  <1>11. ASSUME NEW k \in Flushes, NEW p \in Pages, ReadPage(k, p) PROVE ClaimsCovered'
    BY <1>11 DEF ReadPage, eventVars, queueVars, pageVars, flushVars, histVars, counts
  <1>12. ASSUME NEW k \in Flushes, SavePage(k) PROVE ClaimsCovered'
    <2>1. /\ snap' \in [Flushes -> [Pages -> SUBSET Facts]]
          /\ at[k] \in Pages => snap'[k][at[k]] = {}
          /\ \A j \in Flushes, q \in Pages : j # k \/ q # at[k] => snap'[j][q] =
              snap[j][q]
          /\ \A j \in Flushes : j # k => snap'[j] = snap[j]
      BY <1>12, LetGoEffect DEF SavePage
    <2>2. /\ at[k] \in Pages /\ snap[k][at[k]] # {} /\ pc[k] = "call"
          /\ claimed' = claimed /\ rowFacts' = rowFacts /\ late' = late
          /\ pc' = [pc EXCEPT ![k] = "rewrite"]
      BY <1>12 DEF SavePage, queueVars, histVars
    <2>3. /\ doneIds' = [doneIds EXCEPT ![k] =
                             IF at[k] \in claimed[k] THEN @ \union {at[k]} ELSE @]
          /\ written' = [written EXCEPT ![at[k]] = @ \union snap[k][at[k]]]
      BY <1>12 DEF SavePage
    <2>4. ASSUME NEW j \in Flushes, NEW q \in Pages,
                 q \in claimed'[j] /\ (pc'[j] \in {"claim", "find", "gate"} \/
                     snap'[j][q] # {})
          PROVE  rowFacts'[q] \subseteq snap'[j][q] \union late'[j][q]
      <3>1. ~(j = k /\ q = at[k])
        BY <2>1, <2>2, <2>4
      <3>2. snap'[j][q] = snap[j][q]
        BY <2>1, <3>1
      <3>3. pc[j] \in {"claim", "find", "gate"} \/ snap[j][q] # {}
        BY <2>2, <2>4, <3>2
      <3> QED
        BY <2>2, <2>4, <3>2, <3>3
    <2>5. ASSUME NEW j \in Flushes, NEW q \in Pages, q \in doneIds'[j]
          PROVE  rowFacts'[q] \subseteq written'[q] \union late'[j][q]
      <3>1. CASE q \in doneIds[j]
        BY <2>2, <2>3, <3>1
      <3>2. CASE q \notin doneIds[j]
        <4>1. j = k /\ q = at[k] /\ q \in claimed[k]
          BY <2>3, <2>5, <3>2
        <4>2. rowFacts[q] \subseteq snap[k][q] \union late[k][q]
          BY <2>2, <4>1
        <4>3. snap[k][q] \subseteq written'[q]
          BY <2>2, <2>3, <4>1
        <4> QED
          BY <2>2, <4>1, <4>2, <4>3
      <3> QED
        BY <3>1, <3>2
    <2> QED
      BY <2>4, <2>5
  <1>13. ASSUME NEW k \in Flushes, RewriteFails(k) PROVE ClaimsCovered'
    <2>1. /\ snap' \in [Flushes -> [Pages -> SUBSET Facts]]
          /\ at[k] \in Pages => snap'[k][at[k]] = {}
          /\ \A j \in Flushes, q \in Pages : j # k \/ q # at[k] => snap'[j][q] =
              snap[j][q]
          /\ \A j \in Flushes : j # k => snap'[j] = snap[j]
      BY <1>13, LetGoEffect DEF RewriteFails
    <2> QED
      BY <2>1, <1>13 DEF RewriteFails, Fault, eventVars, queueVars, pageVars, flushVars,
          histVars, counts
  <1>14. ASSUME NEW k \in Flushes, MarkDone(k) PROVE ClaimsCovered'
    BY <1>14 DEF MarkDone, Return, eventVars, queueVars, pageVars, flushVars, histVars,
        counts
  <1>15. ASSUME NEW k \in Flushes, MarkFails(k) PROVE ClaimsCovered'
    BY <1>15 DEF MarkFails, Fault, Return, eventVars, queueVars, pageVars, flushVars,
        histVars, counts
  <1>16. ASSUME NEW S \in SUBSET Pages, Crash(S) PROVE ClaimsCovered'
    BY <1>16 DEF Crash, Fault, eventVars, queueVars, pageVars, flushVars, histVars,
        counts
  <1>17. CASE UNCHANGED vars
    BY <1>1, <1>17 DEF vars, eventVars, queueVars, pageVars, flushVars, histVars, counts
  <1> HIDE DEF ClaimsCovered, TypeOK, FlushShape, NoFacts
  <1> QED
    BY <1>1, <1>2, <1>3, <1>4, <1>5, <1>6, <1>7, <1>8, <1>9, <1>10, <1>11, <1>12, <1>13,
        <1>14, <1>15, <1>16, <1>17 DEF Next, Event, Flush, Route, RouteFails,
        EnqueueFails, Mirror, Settle, GateCheck, GateFails, Seed, SetMode, eventVars,
        queueVars, pageVars, flushVars, histVars, counts

\* last_facts_seen and the copy under rewrite only hold written facts.
LEMMA SeenStep ==
    ASSUME TypeOK, FlushShape, SeenWritten, [Next]_vars
    PROVE  SeenWritten'
  <1> USE WikiAssumption DEF SeenWritten, TypeOK, FlushShape
  <1>1. CASE UNCHANGED <<seen, written, pc, at, readSeen>>
    BY <1>1
  <1>2. ASSUME Wake PROVE SeenWritten'
    BY <1>2 DEF Wake, Begin, DirtyChannels, eventVars, queueVars, pageVars, flushVars,
        histVars, counts
  <1>3. ASSUME NEW k \in Flushes, Drain(k) PROVE SeenWritten'
    BY <1>3 DEF Drain, Begin, DirtyChannels, eventVars, queueVars, pageVars, flushVars,
        histVars, counts
  <1>4. ASSUME NEW k \in Flushes, NEW c \in Channels, ClaimUpdate(k, c) PROVE
      SeenWritten'
    BY <1>4 DEF ClaimUpdate, eventVars, queueVars, pageVars, flushVars, histVars, counts
  <1>5. ASSUME NEW k \in Flushes, ClaimFind(k) PROVE SeenWritten'
    BY <1>5 DEF ClaimFind, Found, PagesOf, eventVars, queueVars, pageVars, flushVars,
        histVars, counts
  <1>6. ASSUME NEW k \in Flushes, ClaimFails(k) PROVE SeenWritten'
    BY <1>6 DEF ClaimFails, Fault, eventVars, queueVars, pageVars, flushVars, histVars,
        counts
  <1>7. ASSUME NEW k \in Flushes, Merge(k) PROVE SeenWritten'
    BY <1>7 DEF Merge, eventVars, queueVars, pageVars, flushVars, histVars, counts
  <1>8. ASSUME NEW k \in Flushes, Defer(k) PROVE SeenWritten'
    BY <1>8 DEF Defer, eventVars, queueVars, pageVars, flushVars, histVars, counts
  <1>9. ASSUME NEW k \in Flushes, NEW p \in Pages, ReadPage(k, p) PROVE SeenWritten'
    BY <1>9 DEF ReadPage, eventVars, queueVars, pageVars, flushVars, histVars, counts
  <1>10. ASSUME NEW k \in Flushes, SavePage(k) PROVE SeenWritten'
    BY <1>10 DEF SavePage, eventVars, queueVars, pageVars, flushVars, histVars, counts
  <1>11. ASSUME NEW k \in Flushes, RewriteFails(k) PROVE SeenWritten'
    BY <1>11 DEF RewriteFails, Fault, eventVars, queueVars, pageVars, flushVars,
        histVars, counts
  <1>12. ASSUME NEW k \in Flushes, MarkDone(k) PROVE SeenWritten'
    BY <1>12 DEF MarkDone, Return, eventVars, queueVars, pageVars, flushVars, histVars,
        counts
  <1>13. ASSUME NEW k \in Flushes, MarkFails(k) PROVE SeenWritten'
    BY <1>13 DEF MarkFails, Fault, Return, eventVars, queueVars, pageVars, flushVars,
        histVars, counts
  <1>14. ASSUME NEW p \in Pages, Seed(p) PROVE SeenWritten'
    BY <1>14 DEF Seed, eventVars, queueVars, pageVars, flushVars, histVars, counts
  <1>15. ASSUME NEW S \in SUBSET Pages, Crash(S) PROVE SeenWritten'
    BY <1>15 DEF Crash, Fault, eventVars, queueVars, pageVars, flushVars, histVars,
        counts
  <1>16. CASE UNCHANGED vars
    BY <1>1, <1>16 DEF vars, eventVars, queueVars, pageVars, flushVars, histVars, counts
  <1> HIDE DEF SeenWritten, TypeOK, FlushShape
  <1> QED
    BY <1>1, <1>2, <1>3, <1>4, <1>5, <1>6, <1>7, <1>8, <1>9, <1>10, <1>11, <1>12, <1>13,
        <1>14, <1>15, <1>16 DEF Next, Event, Flush, Route, RouteFails, EnqueueDirty,
        EnqueueFails, Mirror, Settle, GateCheck, GateFails, SkipPage, SetMode,
        eventVars, queueVars, pageVars, flushVars, histVars, counts

\* Only the operator curates a page.
LEMMA CuratedStep ==
    ASSUME TypeOK, FlushShape, NotCurated, [Next]_vars
    PROVE  NotCurated'
  <1> USE WikiAssumption DEF NotCurated, TypeOK, Modes
  <1>1. CASE UNCHANGED <<edits, mode, pc, readMode>>
    BY <1>1
  <1>2. ASSUME Wake PROVE NotCurated'
    BY <1>2 DEF Wake, Begin, DirtyChannels, eventVars, queueVars, pageVars, flushVars,
        histVars, counts
  <1>3. ASSUME NEW k \in Flushes, Drain(k) PROVE NotCurated'
    BY <1>3 DEF Drain, Begin, DirtyChannels, eventVars, queueVars, pageVars, flushVars,
        histVars, counts
  <1>4. ASSUME NEW k \in Flushes, NEW c \in Channels, ClaimUpdate(k, c) PROVE
      NotCurated'
    BY <1>4 DEF ClaimUpdate, eventVars, queueVars, pageVars, flushVars, histVars, counts
  <1>5. ASSUME NEW k \in Flushes, ClaimFind(k) PROVE NotCurated'
    BY <1>5 DEF ClaimFind, Found, PagesOf, eventVars, queueVars, pageVars, flushVars,
        histVars, counts
  <1>6. ASSUME NEW k \in Flushes, ClaimFails(k) PROVE NotCurated'
    BY <1>6 DEF ClaimFails, Fault, eventVars, queueVars, pageVars, flushVars, histVars,
        counts
  <1>7. ASSUME NEW k \in Flushes, Merge(k) PROVE NotCurated'
    BY <1>7 DEF Merge, eventVars, queueVars, pageVars, flushVars, histVars, counts
  <1>8. ASSUME NEW k \in Flushes, Defer(k) PROVE NotCurated'
    BY <1>8 DEF Defer, eventVars, queueVars, pageVars, flushVars, histVars, counts
  <1>9. ASSUME NEW k \in Flushes, NEW p \in Pages, ReadPage(k, p) PROVE NotCurated'
    BY <1>9 DEF ReadPage, eventVars, queueVars, pageVars, flushVars, histVars, counts
  <1>10. ASSUME NEW k \in Flushes, SavePage(k) PROVE NotCurated'
    BY <1>10 DEF SavePage, eventVars, queueVars, pageVars, flushVars, histVars, counts
  <1>11. ASSUME NEW k \in Flushes, RewriteFails(k) PROVE NotCurated'
    BY <1>11 DEF RewriteFails, Fault, eventVars, queueVars, pageVars, flushVars,
        histVars, counts
  <1>12. ASSUME NEW k \in Flushes, MarkDone(k) PROVE NotCurated'
    BY <1>12 DEF MarkDone, Return, eventVars, queueVars, pageVars, flushVars, histVars,
        counts
  <1>13. ASSUME NEW k \in Flushes, MarkFails(k) PROVE NotCurated'
    BY <1>13 DEF MarkFails, Fault, Return, eventVars, queueVars, pageVars, flushVars,
        histVars, counts
  <1>14. ASSUME NEW p \in Pages, Seed(p) PROVE NotCurated'
    BY <1>14 DEF Seed, eventVars, queueVars, pageVars, flushVars, histVars, counts
  <1>15. ASSUME NEW p \in Pages, NEW m \in Modes, SetMode(p, m) PROVE NotCurated'
    BY <1>15 DEF SetMode, eventVars, queueVars, pageVars, flushVars, histVars, counts
  <1>16. ASSUME NEW S \in SUBSET Pages, Crash(S) PROVE NotCurated'
    BY <1>16 DEF Crash, Fault, eventVars, queueVars, pageVars, flushVars, histVars,
        counts
  <1>17. CASE UNCHANGED vars
    BY <1>1, <1>17 DEF vars, eventVars, queueVars, pageVars, flushVars, histVars, counts
  <1> HIDE DEF NotCurated, TypeOK, Modes
  <1> QED
    BY <1>1, <1>2, <1>3, <1>4, <1>5, <1>6, <1>7, <1>8, <1>9, <1>10, <1>11, <1>12, <1>13,
        <1>14, <1>15, <1>16, <1>17 DEF Next, Event, Flush, Route, RouteFails,
        EnqueueDirty, EnqueueFails, Mirror, Settle, GateCheck, GateFails, SkipPage,
        Fault, eventVars, queueVars, pageVars, flushVars, histVars, counts

\* The gate accounts for every channel with work.
LEMMA GateStep ==
    ASSUME TypeOK, FlushShape, GateCovers, [Next]_vars
    PROVE  GateCovers'
  <1> USE WikiAssumption DEF GateCovers, TypeOK, NoFacts
  <1>1. CASE UNCHANGED <<faults, pc, snap, chans, deferred, mode>>
    BY <1>1, BuiltStays
  <1>2. ASSUME NEW f \in Facts, RouteFails(f) PROVE GateCovers'
    BY <1>2, BuiltStays DEF RouteFails, Fault, eventVars, queueVars, pageVars,
        flushVars, histVars, counts
  <1>3. ASSUME NEW f \in Facts, EnqueueFails(f) PROVE GateCovers'
    BY <1>3, BuiltStays DEF EnqueueFails, Fault, eventVars, queueVars, pageVars,
        flushVars, histVars, counts
  <1>4. ASSUME Wake PROVE GateCovers'
    BY <1>4, BuiltStays DEF Wake, Begin, DirtyChannels, eventVars, queueVars, pageVars,
        flushVars, histVars, counts
  <1>5. ASSUME NEW k \in Flushes, Drain(k) PROVE GateCovers'
    BY <1>5, BuiltStays DEF Drain, Begin, DirtyChannels, eventVars, queueVars, pageVars,
        flushVars, histVars, counts
  <1>6. ASSUME NEW k \in Flushes, NEW c \in Channels, ClaimUpdate(k, c) PROVE
      GateCovers'
    BY <1>6, BuiltStays DEF ClaimUpdate, eventVars, queueVars, pageVars, flushVars,
        histVars, counts
  <1>7. ASSUME NEW k \in Flushes, NEW c \in Channels, GateCheck(k, c) PROVE GateCovers'
    BY <1>7, BuiltStays DEF GateCheck, eventVars, queueVars, pageVars, flushVars,
        histVars, counts
  <1>8. ASSUME NEW k \in Flushes, NEW c \in Channels, GateFails(k, c) PROVE GateCovers'
    BY <1>8, BuiltStays DEF GateFails, Fault, eventVars, queueVars, pageVars, flushVars,
        histVars, counts
  <1>9. ASSUME NEW k \in Flushes, ClaimFind(k) PROVE GateCovers'
    BY <1>9, BuiltStays DEF ClaimFind, Found, PagesOf, eventVars, queueVars, pageVars,
        flushVars, histVars, counts
  <1>10. ASSUME NEW k \in Flushes, ClaimFails(k) PROVE GateCovers'
    BY <1>10, BuiltStays DEF ClaimFails, Fault, eventVars, queueVars, pageVars,
        flushVars, histVars, counts
  <1>11. ASSUME NEW k \in Flushes, Merge(k) PROVE GateCovers'
    BY <1>11, BuiltStays DEF Merge, eventVars, queueVars, pageVars, flushVars, histVars,
        counts
  <1>12. ASSUME NEW k \in Flushes, Defer(k) PROVE GateCovers'
    BY <1>12, BuiltStays DEF Defer, eventVars, queueVars, pageVars, flushVars, histVars,
        counts
  <1>13. ASSUME NEW k \in Flushes, NEW p \in Pages, SkipPage(k, p) PROVE GateCovers'
    <2>1. /\ snap' \in [Flushes -> [Pages -> SUBSET Facts]]
          /\ p \in Pages => snap'[k][p] = {}
          /\ \A j \in Flushes, q \in Pages : j # k \/ q # p => snap'[j][q] = snap[j][q]
          /\ \A j \in Flushes : j # k => snap'[j] = snap[j]
      BY <1>13, LetGoEffect DEF SkipPage
    <2> QED
      BY <2>1, <1>13, BuiltStays DEF SkipPage, eventVars, queueVars, pageVars,
          flushVars, histVars, counts
  <1>14. ASSUME NEW k \in Flushes, NEW p \in Pages, ReadPage(k, p) PROVE GateCovers'
    BY <1>14, BuiltStays DEF ReadPage, eventVars, queueVars, pageVars, flushVars,
        histVars, counts
  <1>15. ASSUME NEW k \in Flushes, SavePage(k) PROVE GateCovers'
    <2>1. /\ snap' \in [Flushes -> [Pages -> SUBSET Facts]]
          /\ at[k] \in Pages => snap'[k][at[k]] = {}
          /\ \A j \in Flushes, q \in Pages : j # k \/ q # at[k] => snap'[j][q] =
              snap[j][q]
          /\ \A j \in Flushes : j # k => snap'[j] = snap[j]
      BY <1>15, LetGoEffect DEF SavePage
    <2> QED
      BY <2>1, <1>15, BuiltStays DEF SavePage, eventVars, queueVars, pageVars,
          flushVars, histVars, counts
  <1>16. ASSUME NEW k \in Flushes, RewriteFails(k) PROVE GateCovers'
    <2>1. /\ snap' \in [Flushes -> [Pages -> SUBSET Facts]]
          /\ at[k] \in Pages => snap'[k][at[k]] = {}
          /\ \A j \in Flushes, q \in Pages : j # k \/ q # at[k] => snap'[j][q] =
              snap[j][q]
          /\ \A j \in Flushes : j # k => snap'[j] = snap[j]
      BY <1>16, LetGoEffect DEF RewriteFails
    <2> QED
      BY <2>1, <1>16, BuiltStays DEF RewriteFails, Fault, eventVars, queueVars,
          pageVars, flushVars, histVars, counts
  <1>17. ASSUME NEW k \in Flushes, MarkDone(k) PROVE GateCovers'
    BY <1>17, BuiltStays DEF MarkDone, Return, eventVars, queueVars, pageVars,
        flushVars, histVars, counts
  <1>18. ASSUME NEW k \in Flushes, MarkFails(k) PROVE GateCovers'
    BY <1>18, BuiltStays DEF MarkFails, Fault, Return, eventVars, queueVars, pageVars,
        flushVars, histVars, counts
  <1>19. ASSUME NEW p \in Pages, Seed(p) PROVE GateCovers'
    BY <1>19, BuiltStays DEF Seed, eventVars, queueVars, pageVars, flushVars, histVars,
        counts
  <1>20. ASSUME NEW p \in Pages, NEW m \in Modes, SetMode(p, m) PROVE GateCovers'
    BY <1>20, BuiltStays DEF SetMode, eventVars, queueVars, pageVars, flushVars,
        histVars, counts
  <1>21. ASSUME NEW S \in SUBSET Pages, Crash(S) PROVE GateCovers'
    BY <1>21, BuiltStays DEF Crash, Fault, eventVars, queueVars, pageVars, flushVars,
        histVars, counts
  <1>22. CASE UNCHANGED vars
    BY <1>1, <1>22 DEF vars, eventVars, queueVars, pageVars, flushVars, histVars, counts
  <1> HIDE DEF GateCovers, TypeOK, NoFacts
  <1> QED
    BY <1>1, <1>2, <1>3, <1>4, <1>5, <1>6, <1>7, <1>8, <1>9, <1>10, <1>11, <1>12, <1>13,
        <1>14, <1>15, <1>16, <1>17, <1>18, <1>19, <1>20, <1>21, <1>22 DEF Next, Event,
        Flush, Route, EnqueueDirty, Mirror, Settle, eventVars, queueVars, pageVars,
        flushVars, histVars, counts

\* A page reaches the rewrite loop only if its channel is built.
LEMMA BuilderStep ==
    ASSUME TypeOK, FlushShape, GateCovers, BuilderFirst, [Next]_vars
    PROVE  BuilderFirst'
  <1> USE WikiAssumption DEF BuilderFirst, TypeOK, FlushShape, GateCovers, NoFacts
  <1>1. CASE UNCHANGED <<faults, pc, snap, mode>>
    BY <1>1, BuiltStays
  <1>2. ASSUME NEW f \in Facts, RouteFails(f) PROVE BuilderFirst'
    BY <1>2, BuiltStays DEF RouteFails, Fault, eventVars, queueVars, pageVars,
        flushVars, histVars, counts
  <1>3. ASSUME NEW f \in Facts, EnqueueFails(f) PROVE BuilderFirst'
    BY <1>3, BuiltStays DEF EnqueueFails, Fault, eventVars, queueVars, pageVars,
        flushVars, histVars, counts
  <1>4. ASSUME Wake PROVE BuilderFirst'
    BY <1>4, BuiltStays DEF Wake, Begin, DirtyChannels, eventVars, queueVars, pageVars,
        flushVars, histVars, counts
  <1>5. ASSUME NEW k \in Flushes, Drain(k) PROVE BuilderFirst'
    BY <1>5, BuiltStays DEF Drain, Begin, DirtyChannels, eventVars, queueVars, pageVars,
        flushVars, histVars, counts
  <1>6. ASSUME NEW k \in Flushes, NEW c \in Channels, ClaimUpdate(k, c) PROVE
      BuilderFirst'
    BY <1>6, BuiltStays DEF ClaimUpdate, eventVars, queueVars, pageVars, flushVars,
        histVars, counts
  <1>7. ASSUME NEW k \in Flushes, NEW c \in Channels, GateFails(k, c) PROVE
      BuilderFirst'
    BY <1>7, BuiltStays DEF GateFails, Fault, eventVars, queueVars, pageVars, flushVars,
        histVars, counts
  <1>8. ASSUME NEW k \in Flushes, ClaimFind(k) PROVE BuilderFirst'
    BY <1>8, BuiltStays DEF ClaimFind, Found, PagesOf, eventVars, queueVars, pageVars,
        flushVars, histVars, counts
  <1>9. ASSUME NEW k \in Flushes, ClaimFails(k) PROVE BuilderFirst'
    BY <1>9, BuiltStays DEF ClaimFails, Fault, eventVars, queueVars, pageVars,
        flushVars, histVars, counts
  <1>10. ASSUME NEW k \in Flushes, Merge(k) PROVE BuilderFirst'
    BY <1>10, BuiltStays DEF Merge, eventVars, queueVars, pageVars, flushVars, histVars,
        counts
  <1>11. ASSUME NEW k \in Flushes, Defer(k) PROVE BuilderFirst'
    <2> SUFFICES ASSUME faults' = 0, NEW j \in Flushes, NEW q \in Pages,
                        pc'[j] \in {"rewrite", "call"}, snap'[j][q] # {}
                 PROVE  Built(ChannelOf[q])'
      OBVIOUS
    <2>1. Built(ChannelOf[q])
      <3>1. CASE j = k
        <4>1. faults = 0 /\ pc[k] = "gate" /\ chans[k] = {}
          BY <1>11 DEF Defer, counts
        <4>2. snap'[k][q] = IF ChannelOf[q] \in deferred[k] THEN {} ELSE snap[k][q]
          BY <1>11 DEF Defer
        <4>3. ChannelOf[q] \notin deferred[k] /\ snap[k][q] # {}
          BY <3>1, <4>2
        <4> QED
          BY <4>1, <4>3
      <3>2. CASE j # k
        BY <1>11, <3>2 DEF Defer, counts
      <3> QED
        BY <3>1, <3>2
    <2> QED
      BY <2>1, BuiltStays
  <1>12. ASSUME NEW k \in Flushes, NEW p \in Pages, SkipPage(k, p) PROVE BuilderFirst'
    <2>1. /\ snap' \in [Flushes -> [Pages -> SUBSET Facts]]
          /\ p \in Pages => snap'[k][p] = {}
          /\ \A j \in Flushes, q \in Pages : j # k \/ q # p => snap'[j][q] = snap[j][q]
          /\ \A j \in Flushes : j # k => snap'[j] = snap[j]
      BY <1>12, LetGoEffect DEF SkipPage
    <2> SUFFICES ASSUME faults' = 0, NEW j \in Flushes, NEW q \in Pages,
                        pc'[j] \in {"rewrite", "call"}, snap'[j][q] # {}
                 PROVE  Built(ChannelOf[q])'
      OBVIOUS
    <2>2. Built(ChannelOf[q])
      <3>1. ~(j = k /\ q = p)
        BY <2>1
      <3>2. snap[j][q] # {}
        BY <2>1, <3>1
      <3>3. faults = 0 /\ pc[j] \in {"rewrite", "call"}
        BY <1>12 DEF SkipPage, counts
      <3> QED
        BY <3>2, <3>3
    <2> QED
      BY <2>2, BuiltStays
  <1>13. ASSUME NEW k \in Flushes, NEW p \in Pages, ReadPage(k, p) PROVE BuilderFirst'
    BY <1>13, BuiltStays DEF ReadPage, eventVars, queueVars, pageVars, flushVars,
        histVars, counts
  <1>14. ASSUME NEW k \in Flushes, SavePage(k) PROVE BuilderFirst'
    <2>1. /\ snap' \in [Flushes -> [Pages -> SUBSET Facts]]
          /\ at[k] \in Pages => snap'[k][at[k]] = {}
          /\ \A j \in Flushes, q \in Pages : j # k \/ q # at[k] => snap'[j][q] =
              snap[j][q]
          /\ \A j \in Flushes : j # k => snap'[j] = snap[j]
      BY <1>14, LetGoEffect DEF SavePage
    <2> QED
      BY <2>1, <1>14, BuiltStays DEF SavePage, eventVars, queueVars, pageVars,
          flushVars, histVars, counts
  <1>15. ASSUME NEW k \in Flushes, RewriteFails(k) PROVE BuilderFirst'
    <2>1. /\ snap' \in [Flushes -> [Pages -> SUBSET Facts]]
          /\ at[k] \in Pages => snap'[k][at[k]] = {}
          /\ \A j \in Flushes, q \in Pages : j # k \/ q # at[k] => snap'[j][q] =
              snap[j][q]
          /\ \A j \in Flushes : j # k => snap'[j] = snap[j]
      BY <1>15, LetGoEffect DEF RewriteFails
    <2> QED
      BY <2>1, <1>15, BuiltStays DEF RewriteFails, Fault, eventVars, queueVars,
          pageVars, flushVars, histVars, counts
  <1>16. ASSUME NEW k \in Flushes, MarkDone(k) PROVE BuilderFirst'
    BY <1>16, BuiltStays DEF MarkDone, Return, eventVars, queueVars, pageVars,
        flushVars, histVars, counts
  <1>17. ASSUME NEW k \in Flushes, MarkFails(k) PROVE BuilderFirst'
    BY <1>17, BuiltStays DEF MarkFails, Fault, Return, eventVars, queueVars, pageVars,
        flushVars, histVars, counts
  <1>18. ASSUME NEW p \in Pages, Seed(p) PROVE BuilderFirst'
    BY <1>18, BuiltStays DEF Seed, eventVars, queueVars, pageVars, flushVars, histVars,
        counts
  <1>19. ASSUME NEW p \in Pages, NEW m \in Modes, SetMode(p, m) PROVE BuilderFirst'
    BY <1>19, BuiltStays DEF SetMode, eventVars, queueVars, pageVars, flushVars,
        histVars, counts
  <1>20. ASSUME NEW S \in SUBSET Pages, Crash(S) PROVE BuilderFirst'
    BY <1>20, BuiltStays DEF Crash, Fault, eventVars, queueVars, pageVars, flushVars,
        histVars, counts
  <1>21. CASE UNCHANGED vars
    BY <1>1, <1>21 DEF vars, eventVars, queueVars, pageVars, flushVars, histVars, counts
  <1> HIDE DEF BuilderFirst, TypeOK, FlushShape, GateCovers, NoFacts
  <1> QED
    BY <1>1, <1>2, <1>3, <1>4, <1>5, <1>6, <1>7, <1>8, <1>9, <1>10, <1>11, <1>12, <1>13,
        <1>14, <1>15, <1>16, <1>17, <1>18, <1>19, <1>20, <1>21 DEF Next, Event, Flush,
        Route, EnqueueDirty, Mirror, Settle, GateCheck, eventVars, queueVars, pageVars,
        flushVars, histVars, counts

\* A fact moves from self._dirty to a snapshot and back, or is written.
LEMMA MemoryStep ==
    ASSUME TypeOK, FlushShape, SeenWritten, NotCurated, InMemoryUntilWritten,
        [Next]_vars
    PROVE  InMemoryUntilWritten'
  <1> USE WikiAssumption DEF InMemoryUntilWritten, TypeOK
  <1>1. CASE UNCHANGED <<faults, edits, stage, routed, written, dirty, snap>>
    BY <1>1
  <1>2. ASSUME NEW f \in Facts, NEW c \in Channels, NEW P \in SUBSET Pages, Route(f, c,
      P) PROVE InMemoryUntilWritten'
    BY <1>2 DEF Route, PagesOf, eventVars, queueVars, pageVars, flushVars, histVars,
        counts
  <1>3. ASSUME NEW f \in Facts, RouteFails(f) PROVE InMemoryUntilWritten'
    BY <1>3 DEF RouteFails, Fault, eventVars, queueVars, pageVars, flushVars, histVars,
        counts
  <1>4. ASSUME NEW f \in Facts, EnqueueFails(f) PROVE InMemoryUntilWritten'
    BY <1>4 DEF EnqueueFails, Fault, eventVars, queueVars, pageVars, flushVars,
        histVars, counts
  <1>5. ASSUME NEW f \in Facts, Mirror(f) PROVE InMemoryUntilWritten'
    BY <1>5 DEF Mirror, eventVars, queueVars, pageVars, flushVars, histVars, counts
  <1>6. ASSUME NEW k \in Flushes, NEW c \in Channels, GateFails(k, c) PROVE
      InMemoryUntilWritten'
    BY <1>6 DEF GateFails, Fault, eventVars, queueVars, pageVars, flushVars, histVars,
        counts
  <1>7. ASSUME NEW k \in Flushes, ClaimFind(k) PROVE InMemoryUntilWritten'
    BY <1>7 DEF ClaimFind, Found, PagesOf, FlushShape, eventVars, queueVars, pageVars,
        flushVars, histVars, counts
  <1>8. ASSUME NEW k \in Flushes, ClaimFails(k) PROVE InMemoryUntilWritten'
    BY <1>8 DEF ClaimFails, Fault, eventVars, queueVars, pageVars, flushVars, histVars,
        counts
  <1>9. ASSUME NEW k \in Flushes, Merge(k) PROVE InMemoryUntilWritten'
    BY <1>9 DEF Merge, NoFacts, eventVars, queueVars, pageVars, flushVars, histVars,
        counts
  <1>10. ASSUME NEW k \in Flushes, Defer(k) PROVE InMemoryUntilWritten'
    BY <1>10 DEF Defer, NoFacts, eventVars, queueVars, pageVars, flushVars, histVars,
        counts
  <1>11. ASSUME NEW k \in Flushes, NEW p \in Pages, SkipPage(k, p) PROVE
      InMemoryUntilWritten'
    <2>1. /\ snap' \in [Flushes -> [Pages -> SUBSET Facts]]
          /\ p \in Pages => snap'[k][p] = {}
          /\ \A j \in Flushes, q \in Pages : j # k \/ q # p => snap'[j][q] = snap[j][q]
          /\ \A j \in Flushes : j # k => snap'[j] = snap[j]
      BY <1>11, LetGoEffect DEF SkipPage
    <2>2. /\ faults' = faults /\ edits' = edits /\ stage' = stage /\ routed' = routed
          /\ written' = written /\ dirty' = dirty
      BY <1>11 DEF SkipPage, counts, eventVars, pageVars
    <2> SUFFICES ASSUME faults = 0, edits = 0, NEW f \in Facts, stage[f] = "over",
                        NEW q \in routed[f] \ Adaptive, f \notin written[q] \union
                            dirty[q]
                 PROVE  \E j \in Flushes : f \in snap'[j][q]
      BY <2>2
    <2>3. PICK j \in Flushes : f \in snap[j][q]
      OBVIOUS
    <2>4. CASE j = k /\ q = p
      <3>1. f \in TrulyNew(k, p)
        BY <2>3, <2>4 DEF TrulyNew, SeenWritten
      <3>2. mode[p] \in {"absent", "auto"} /\ p \notin Adaptive
        BY <2>4 DEF NotCurated
      <3> QED
        BY <3>1, <3>2, <1>11 DEF SkipPage, Skips
    <2>5. CASE ~(j = k /\ q = p)
      BY <2>1, <2>3, <2>5
    <2> QED
      BY <2>4, <2>5
  <1>12. ASSUME NEW k \in Flushes, SavePage(k) PROVE InMemoryUntilWritten'
    <2>1. /\ snap' \in [Flushes -> [Pages -> SUBSET Facts]]
          /\ at[k] \in Pages => snap'[k][at[k]] = {}
          /\ \A j \in Flushes, q \in Pages : j # k \/ q # at[k] => snap'[j][q] =
              snap[j][q]
          /\ \A j \in Flushes : j # k => snap'[j] = snap[j]
      BY <1>12, LetGoEffect DEF SavePage
    <2> QED
      BY <2>1, <1>12 DEF SavePage, FlushShape, eventVars, queueVars, pageVars,
          flushVars, histVars, counts
  <1>13. ASSUME NEW k \in Flushes, RewriteFails(k) PROVE InMemoryUntilWritten'
    <2>1. /\ snap' \in [Flushes -> [Pages -> SUBSET Facts]]
          /\ at[k] \in Pages => snap'[k][at[k]] = {}
          /\ \A j \in Flushes, q \in Pages : j # k \/ q # at[k] => snap'[j][q] =
              snap[j][q]
          /\ \A j \in Flushes : j # k => snap'[j] = snap[j]
      BY <1>13, LetGoEffect DEF RewriteFails
    <2> QED
      BY <2>1, <1>13 DEF RewriteFails, Fault, eventVars, queueVars, pageVars, flushVars,
          histVars, counts
  <1>14. ASSUME NEW k \in Flushes, MarkFails(k) PROVE InMemoryUntilWritten'
    BY <1>14 DEF MarkFails, Fault, Return, eventVars, queueVars, pageVars, flushVars,
        histVars, counts
  <1>15. ASSUME NEW p \in Pages, NEW m \in Modes, SetMode(p, m) PROVE
      InMemoryUntilWritten'
    BY <1>15 DEF SetMode, eventVars, queueVars, pageVars, flushVars, histVars, counts
  <1>16. ASSUME NEW S \in SUBSET Pages, Crash(S) PROVE InMemoryUntilWritten'
    BY <1>16 DEF Crash, Fault, eventVars, queueVars, pageVars, flushVars, histVars,
        counts
  <1>17. CASE UNCHANGED vars
    BY <1>1, <1>17 DEF vars, eventVars, queueVars, pageVars, flushVars, histVars, counts
  <1> HIDE DEF InMemoryUntilWritten, TypeOK
  <1> QED
    BY <1>1, <1>2, <1>3, <1>4, <1>5, <1>6, <1>7, <1>8, <1>9, <1>10, <1>11, <1>12, <1>13,
        <1>14, <1>15, <1>16, <1>17 DEF Next, Event, Flush, EnqueueDirty, Settle, Wake,
        Drain, ClaimUpdate, GateCheck, ReadPage, MarkDone, Seed, Begin, Return,
        eventVars, queueVars, pageVars, flushVars, histVars, counts

\* A process that has just started, with any pages, satisfies the invariant.
LEMMA WikiInit == Init => TypeOK /\ WikiInv
  <1> SUFFICES ASSUME Init PROVE TypeOK /\ WikiInv
    OBVIOUS
  <1>1. TypeOK
    <2>1. drainDue \in BOOLEAN
      BY DEF Init
    <2> QED
      BY <2>1, WikiAssumption DEF Init, TypeOK, Modes, NoFacts
  <1>2. FlushShape /\ RoutedQueued /\ RowsCovered /\ ClaimsCovered
    BY DEF Init, NoFacts, FlushShape, RoutedQueued, RowsCovered, ClaimsCovered
  <1>3. SeenWritten /\ NotCurated /\ GateCovers
    BY DEF Init, NoFacts, SeenWritten, NotCurated, GateCovers
  <1>4. InMemoryUntilWritten /\ BuilderFirst
    BY DEF Init, NoFacts, InMemoryUntilWritten, BuilderFirst
  <1> QED
    BY <1>1, <1>2, <1>3, <1>4 DEF WikiInv

\* The invariant is inductive.
LEMMA WikiStep == TypeOK /\ WikiInv /\ [Next]_vars => (TypeOK /\ WikiInv)'
  BY WikiTypeStep, ShapeStep, RoutedStep, RowsStep, ClaimsStep, SeenStep, CuratedStep,
     GateStep, BuilderStep, MemoryStep DEF WikiInv

\* The types and the invariant hold in every reachable state.
THEOREM WikiInvariant == Spec => [](TypeOK /\ WikiInv)
  BY WikiInit, WikiStep, PTL DEF Spec

\* The queue's rows, the page rows and every flush keep their types.
THEOREM WikiTypeCorrect == Spec => []TypeOK
  BY WikiInvariant, PTL

\* A fact that reached wiki_dirty_queue is written, or in a row the next
\* claim_dirty returns, or was late for the flush that marked its row done:
\* through any crash, failure and overlap of flushes.
THEOREM WikiQueuedUntilWritten == Spec => []QueuedUntilWritten
  <1>1. TypeOK /\ WikiInv => QueuedUntilWritten
    BY DEF TypeOK, WikiInv, RoutedQueued, RowsCovered, QueuedUntilWritten, Live
  <1> QED
    BY <1>1, WikiInvariant, PTL

\* While nothing fails and no page is curated, a fact that on_memory_changed
\* has announced is written or still in the maintainer's memory.
THEOREM WikiInMemoryUntilWritten == Spec => []InMemoryUntilWritten
  <1>1. WikiInv => InMemoryUntilWritten
    BY DEF WikiInv
  <1> QED
    BY <1>1, WikiInvariant, PTL

\* While nothing fails, a flush rewrites pages of built channels only.
THEOREM WikiBuilderFirst == Spec => []BuilderFirst
  <1>1. WikiInv => BuilderFirst
    BY DEF WikiInv
  <1> QED
    BY <1>1, WikiInvariant, PTL

=============================================================================

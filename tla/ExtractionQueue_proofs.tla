------------------------ MODULE ExtractionQueue_proofs ------------------------
(***************************************************************************)
(* Proofs about the extraction queue for every set of rows, channels and   *)
(* ticks, every backoff schedule, stale window and claim size, and every   *)
(* number of faults, resets and re-deliveries.  QueueInv is the inductive  *)
(* core; the claim, the settlement check, the announcement and the stored  *)
(* facts each add what they need to it.                                    *)
(***************************************************************************)
EXTENDS ExtractionQueue, TLAPS

\* _retry_backoff_seconds always returns an entry of the schedule.
LEMMA BackoffNat == ASSUME NEW n \in Nat PROVE Backoff(n) \in Nat
  BY QueueAssumption DEF Backoff, MaxRetries

\* _finalize_failed spends one attempt of a row that is still extracting, so
\* it had one left: the types and the budget survive.
LEMMA FinalizeTypes ==
    ASSUME QueueInv, NEW t \in Ticks, NEW S, NEW F, Finalize(t, S, F)
    PROVE  /\ status' \in [Msgs -> Status] /\ age' \in [Msgs -> 0..(StaleAfter + 1)]
           /\ attempts' \in [Msgs -> 0..MaxRetries] /\ wait' \in [Msgs -> Nat]
           /\ BudgetLeft' /\ AbsentFresh'
  <1> USE QueueAssumption DEF QueueInv, TypeOK, BudgetLeft, AbsentFresh, Status
  <1>1. \A m \in Msgs : Backoff(seen[t][m] + 1) \in Nat
    <2> TAKE m \in Msgs
    <2>1. seen[t][m] + 1 \in Nat
      OBVIOUS
    <2> QED
      BY <2>1, BackoffNat
  <1>2. wait' \in [Msgs -> Nat]
    BY <1>1 DEF Finalize
  <1> QED
    BY <1>2 DEF Finalize, Finalizable

\* So they do when a row that is still extracting becomes done.
LEMMA FinalizeDoneTypes ==
    ASSUME QueueInv, NEW S, FinalizeDone(S)
    PROVE  /\ status' \in [Msgs -> Status] /\ age' \in [Msgs -> 0..(StaleAfter + 1)]
           /\ BudgetLeft' /\ AbsentFresh'
  BY QueueAssumption
  DEF QueueInv, TypeOK, BudgetLeft, AbsentFresh, Status, FinalizeDone, Finalizable

\* Letting go of a channel keeps the tick's memory well formed.
LEMMA LetGoTypes ==
    ASSUME QueueInv, NEW t \in Ticks, NEW ch \in Channels, LetGo(t, ch, {ch})
    PROVE  /\ held' \in [Ticks -> SUBSET Msgs] /\ ok' \in [Ticks -> SUBSET Msgs]
           /\ bad' \in [Ticks -> SUBSET Msgs] /\ toCheck' \in [Ticks -> SUBSET Channels]
           /\ seen' \in [Ticks -> [Msgs -> 0..MaxRetries]]
           /\ OutcomesHeld'
  <1> USE QueueAssumption DEF QueueInv, TypeOK, OutcomesHeld, LetGo
  <1>1. seen' \in [Ticks -> [Msgs -> 0..MaxRetries]]
    OBVIOUS
  <1>2. /\ held' \in [Ticks -> SUBSET Msgs] /\ ok' \in [Ticks -> SUBSET Msgs]
        /\ bad' \in [Ticks -> SUBSET Msgs]
    OBVIOUS
  <1>3. toCheck' \in [Ticks -> SUBSET Channels]
    OBVIOUS
  <1>4. OutcomesHeld'
    OBVIOUS
  <1> QED
    BY <1>1, <1>2, <1>3, <1>4

\* Storing the facts of a sub-batch, or failing to, stays within the rows.
LEMMA StoreTypes ==
    ASSUME QueueInv, NEW S \in SUBSET Msgs, NEW cut \in SUBSET S,
           Stores(S, cut) \/ StoreFails(S, cut)
    PROVE  /\ facts' \subseteq Msgs /\ owed' \subseteq Msgs
           /\ missed' \subseteq Msgs /\ dropped' \subseteq Msgs
           /\ faults' \in 0..MaxFaults
  BY QueueAssumption DEF QueueInv, TypeOK, Stores, StoreFails

\* The empty collection satisfies the inductive core.
LEMMA QueueInit == Init => QueueInv
  BY QueueAssumption DEF Init, QueueInv, TypeOK, BudgetLeft, AbsentFresh, OutcomesHeld, Status

\* Every delivery, tick step, sweep, reset and crash preserves the core.
LEMMA QueueStep == QueueInv /\ [Next]_vars => QueueInv'
  <1> SUFFICES ASSUME QueueInv, [Next]_vars PROVE QueueInv'
    OBVIOUS
  <1> USE QueueAssumption DEF QueueInv, TypeOK, BudgetLeft, AbsentFresh, OutcomesHeld, Status,
        rowVars, tickVars, strayVars, storeVars, envVars, histVars
  <1>1. ASSUME NEW m \in Msgs, Insert(m) PROVE QueueInv'
    BY <1>1 DEF Insert
  <1>2. ASSUME NEW m \in Msgs, Redeliver(m) PROVE QueueInv'
    BY <1>2 DEF Redeliver
  <1>3. ASSUME NEW t \in Ticks, NEW S \in SUBSET Msgs, Claim(t, S) PROVE QueueInv'
    BY <1>3 DEF Claim, Claimable, Idle
  <1>4. ASSUME NEW t \in Ticks, NEW S \in SUBSET Msgs, ClaimFails(t, S) PROVE QueueInv'
    BY <1>4 DEF ClaimFails, Claimable, Idle
  <1>5. ASSUME NEW t \in Ticks, NEW ch \in Channels, NEW S \in SUBSET held[t],
         SubBatchSucceeds(t, ch, S) PROVE QueueInv'
    <2>1. S \in SUBSET Msgs /\ {} \in SUBSET S /\ Extract(t, S, {})
      BY <1>5 DEF SubBatchSucceeds
    <2>2. /\ facts' \subseteq Msgs /\ owed' \subseteq Msgs /\ missed' \subseteq Msgs
          /\ dropped' \subseteq Msgs /\ faults' \in 0..MaxFaults
      BY <2>1, StoreTypes DEF Extract
    <2> QED
      BY <1>5, <2>1, <2>2 DEF Extract
  <1>6. ASSUME NEW t \in Ticks, NEW ch \in Channels, NEW S \in SUBSET held[t], NEW cut \in SUBSET S,
         SubBatchHalved(t, ch, S, cut) PROVE QueueInv'
    <2>1. S \in SUBSET Msgs /\ Extract(t, S, cut)
      BY <1>6 DEF SubBatchHalved
    <2>2. /\ facts' \subseteq Msgs /\ owed' \subseteq Msgs /\ missed' \subseteq Msgs
          /\ dropped' \subseteq Msgs /\ faults' \in 0..MaxFaults
      BY <2>1, StoreTypes DEF Extract
    <2> QED
      BY <1>6, <2>1, <2>2 DEF Extract
  <1>7. ASSUME NEW t \in Ticks, NEW ch \in Channels, NEW S \in SUBSET held[t],
         SubBatchFails(t, ch, S) PROVE QueueInv'
    BY <1>7 DEF SubBatchFails, SubBatch
  <1>8. ASSUME NEW t \in Ticks, NEW S \in SUBSET ok[t], FinalizeSubBatch(t, S) PROVE QueueInv'
    <2>1. Finalizable(S) \in SUBSET Msgs
      BY <1>8 DEF Finalizable
    <2>2. dirty' \subseteq Channels
      BY <1>8, <2>1 DEF FinalizeSubBatch
    <2>3. /\ status' \in [Msgs -> Status] /\ age' \in [Msgs -> 0..(StaleAfter + 1)]
          /\ BudgetLeft' /\ AbsentFresh'
      BY <1>8, FinalizeDoneTypes DEF FinalizeSubBatch
    <2> QED
      BY <1>8, <2>2, <2>3 DEF FinalizeSubBatch, FinalizeDone
  <1>9. ASSUME NEW t \in Ticks, NEW ch \in Channels, FinishChannel(t, ch) PROVE QueueInv'
    <2>1. /\ status' \in [Msgs -> Status] /\ age' \in [Msgs -> 0..(StaleAfter + 1)]
          /\ attempts' \in [Msgs -> 0..MaxRetries] /\ wait' \in [Msgs -> Nat]
          /\ BudgetLeft' /\ AbsentFresh'
      BY <1>9, FinalizeTypes DEF FinishChannel, FinishAs
    <2>2. LetGo(t, ch, {ch})
      BY <1>9 DEF FinishChannel, FinishAs, Drop
    <2>3. /\ held' \in [Ticks -> SUBSET Msgs] /\ ok' \in [Ticks -> SUBSET Msgs]
          /\ bad' \in [Ticks -> SUBSET Msgs] /\ toCheck' \in [Ticks -> SUBSET Channels]
          /\ seen' \in [Ticks -> [Msgs -> 0..MaxRetries]]
          /\ OutcomesHeld'
      BY <2>2, LetGoTypes
    <2>4. announced' \subseteq Msgs /\ swallowed' \subseteq Msgs /\ dirty' \subseteq Channels
      BY <1>9 DEF FinishChannel, FinishAs, Good
    <2>5. UNCHANGED <<strayVars, faults>>
      BY <1>9 DEF FinishChannel, FinishAs
    <2>6. UNCHANGED <<settled, storeVars, resets, redeliveries, missed, dropped, unchecked,
                      broken>>
      BY <2>2 DEF LetGo
    <2> QED
      BY <2>1, <2>3, <2>4, <2>5, <2>6
  <1>10. ASSUME NEW t \in Ticks, NEW ch \in Channels, RaiseChannel(t, ch) PROVE QueueInv'
    <2>1. /\ status' \in [Msgs -> Status] /\ age' \in [Msgs -> 0..(StaleAfter + 1)]
          /\ attempts' \in [Msgs -> 0..MaxRetries] /\ wait' \in [Msgs -> Nat]
          /\ BudgetLeft' /\ AbsentFresh'
      BY <1>10, FinalizeTypes DEF RaiseChannel
    <2>2. LetGo(t, ch, {ch})
      BY <1>10 DEF RaiseChannel, Drop
    <2>3. /\ held' \in [Ticks -> SUBSET Msgs] /\ ok' \in [Ticks -> SUBSET Msgs]
          /\ bad' \in [Ticks -> SUBSET Msgs] /\ toCheck' \in [Ticks -> SUBSET Channels]
          /\ seen' \in [Ticks -> [Msgs -> 0..MaxRetries]]
          /\ OutcomesHeld'
      BY <2>2, LetGoTypes
    <2>4. /\ swallowed' \subseteq Msgs /\ dirty' \subseteq Channels /\ faults' \in 0..MaxFaults
          /\ stray' \subseteq Msgs /\ strayOk' \subseteq Msgs /\ announced' = announced
      BY <1>10 DEF RaiseChannel
    <2>6. UNCHANGED <<settled, storeVars, resets, redeliveries, missed, dropped, unchecked,
                      broken>>
      BY <2>2 DEF LetGo
    <2> QED
      BY <2>1, <2>3, <2>4, <2>6
  <1>11. ASSUME NEW t \in Ticks, NEW ch \in Channels, LoseChannel(t, ch) PROVE QueueInv'
    <2>1. LetGo(t, ch, {ch})
      BY <1>11 DEF LoseChannel, Drop
    <2>2. /\ held' \in [Ticks -> SUBSET Msgs] /\ ok' \in [Ticks -> SUBSET Msgs]
          /\ bad' \in [Ticks -> SUBSET Msgs] /\ toCheck' \in [Ticks -> SUBSET Channels]
          /\ seen' \in [Ticks -> [Msgs -> 0..MaxRetries]]
          /\ OutcomesHeld'
      BY <2>1, LetGoTypes
    <2>3. /\ swallowed' \subseteq Msgs /\ faults' \in 0..MaxFaults
          /\ UNCHANGED <<status, attempts, wait, age, strayVars, announced, dirty>>
      BY <1>11 DEF LoseChannel
    <2>4. UNCHANGED <<settled, storeVars, resets, redeliveries, missed, dropped, unchecked,
                      broken>>
      BY <2>1 DEF LetGo
    <2> QED
      BY <2>2, <2>3, <2>4
  <1>12. ASSUME NEW S \in SUBSET stray, StrayExtracts(S) PROVE QueueInv'
    <2>1. S \in SUBSET Msgs /\ {} \in SUBSET S /\ (Stores(S, {}) \/ StoreFails(S, {}))
      BY <1>12 DEF StrayExtracts
    <2>2. /\ facts' \subseteq Msgs /\ owed' \subseteq Msgs /\ missed' \subseteq Msgs
          /\ dropped' \subseteq Msgs /\ faults' \in 0..MaxFaults
      BY <2>1, StoreTypes
    <2> QED
      BY <1>12, <2>1, <2>2 DEF StrayExtracts
  <1>13. ASSUME NEW S \in SUBSET stray, StrayFails(S) PROVE QueueInv'
    BY <1>13 DEF StrayFails
  <1>14. ASSUME NEW S \in SUBSET strayOk, StrayFinalizes(S) PROVE QueueInv'
    <2>1. Finalizable(S) \in SUBSET Msgs
      BY <1>14 DEF Finalizable
    <2>2. dirty' \subseteq Channels /\ unchecked' \subseteq Channels
      BY <1>14, <2>1 DEF StrayFinalizes
    <2>3. /\ status' \in [Msgs -> Status] /\ age' \in [Msgs -> 0..(StaleAfter + 1)]
          /\ BudgetLeft' /\ AbsentFresh'
      BY <1>14, FinalizeDoneTypes DEF StrayFinalizes
    <2> QED
      BY <1>14, <2>2, <2>3 DEF StrayFinalizes, FinalizeDone
  <1>15. ASSUME NEW t \in Ticks, NEW ch \in Channels, SettleCheck(t, ch) PROVE QueueInv'
    BY <1>15 DEF SettleCheck, Check
  <1>16. ASSUME NEW t \in Ticks, NEW ch \in Channels, SettleCheckFails(t, ch) PROVE QueueInv'
    BY <1>16 DEF SettleCheckFails
  <1>17. CASE Sweep
    BY <1>17, SMTT(30) DEF Sweep, Stale
  <1>18. ASSUME NEW ch \in Channels, ResetDropFacts(ch) PROVE QueueInv'
    BY <1>18 DEF ResetDropFacts, Rows
  <1>19. ASSUME NEW ch \in Channels, ResetDropFails(ch) PROVE QueueInv'
    BY <1>19 DEF ResetDropFails
  <1>20. ASSUME NEW ch \in Channels, ResetFlipRows(ch) PROVE QueueInv'
    BY <1>20 DEF ResetFlipRows, FlipRows, Rows
  <1>21. CASE Crash
    <2>1. \A t \in Ticks : Touched(t) \subseteq Channels
      BY DEF Touched
    <2>2. unchecked' \subseteq Channels
      BY <1>21, <2>1 DEF Crash
    <2>3. swallowed' \subseteq Msgs
      BY <1>21 DEF Crash
    <2>4. /\ held' = [t \in Ticks |-> {}] /\ ok' = [t \in Ticks |-> {}]
          /\ bad' = [t \in Ticks |-> {}] /\ toCheck' = [t \in Ticks |-> {}]
          /\ seen' = [t \in Ticks |-> [m \in Msgs |-> 0]]
          /\ stray' = {} /\ strayOk' = {} /\ faults' \in 0..MaxFaults
      BY <1>21 DEF Crash
    <2>5. UNCHANGED <<rowVars, storeVars, resets, redeliveries, missed, dropped, announced,
                      broken, dirty>>
      BY <1>21 DEF Crash
    <2> QED
      BY <2>2, <2>3, <2>4, <2>5
  <1>22. CASE TimePasses
    BY <1>22 DEF TimePasses
  <1>23. CASE UNCHANGED vars
    BY <1>23 DEF vars
  <1>24. ASSUME NEW S \in SUBSET owed, Replay(S) PROVE QueueInv'
    BY <1>24 DEF Replay
  <1> QED
    BY <1>1, <1>2, <1>3, <1>4, <1>5, <1>6, <1>7, <1>8, <1>9, <1>10, <1>11, <1>12, <1>13,
       <1>14, <1>15, <1>16, <1>17, <1>18, <1>19, <1>20, <1>21, <1>22, <1>23, <1>24
    DEF Next, Progress, ClaimSome

\* Letting go of a channel leaves it among the channels the tick will check.
LEMMA LetGoTouched ==
    ASSUME QueueInv, NEW t \in Ticks, NEW ch \in Channels, LetGo(t, ch, {ch})
    PROVE  ch \in Touched(t)' /\ \A u \in Ticks : Touched(u) \subseteq Touched(u)'
  <1> USE QueueAssumption DEF QueueInv, TypeOK, LetGo, Touched, Rows
  <1>1. ch \in Touched(t)'
    OBVIOUS
  <1>2. ASSUME NEW u \in Ticks, NEW c \in Touched(u) PROVE c \in Touched(u)'
    <2>1. CASE c \in toCheck[u]
      BY <1>2, <2>1
    <2>2. CASE \E m \in held[u] : c = ChannelOf[m]
      <3> PICK m \in held[u] : c = ChannelOf[m]
        BY <2>2
      <3>1. CASE u = t /\ c = ch
        BY <1>1, <3>1
      <3>2. CASE u # t \/ c # ch
        <4>1. m \in held'[u]
          BY <3>2
        <4> QED
          BY <4>1
      <3> QED
        BY <3>1, <3>2
    <2> QED
      BY <1>2, <2>1, <2>2
  <1> QED
    BY <1>1, <1>2

\* A finalization moves no row outside the rows it is given.
LEMMA FinalizeLocal ==
    ASSUME QueueInv, NEW t \in Ticks, NEW ch \in Channels, NEW S, NEW F,
           S \subseteq Rows(ch), F \subseteq Rows(ch), Finalize(t, S, F)
    PROVE  \A c \in Channels : c # ch => (Drained(c)' <=> Drained(c))
  <1>1. \A c \in Channels : c # ch => \A m \in Rows(c) : status'[m] = status[m]
    BY DEF QueueInv, TypeOK, Finalize, Finalizable, Rows
  <1> QED
    BY <1>1 DEF Drained, Rows


\* A tick that finalizes its rows of a channel and lets go of them disturbs no
\* other tick's claim.
LEMMA LetGoClaim ==
    ASSUME QueueInv, ClaimInv, NEW t \in Ticks, NEW ch \in Channels, NEW S, NEW F,
           S \cup F \subseteq held[t] \cap Rows(ch), Finalize(t, S, F), LetGo(t, ch, {ch})
    PROVE  ClaimInv'
  <1>1. /\ broken' = broken
        /\ \A u \in Ticks : held'[u] \subseteq held[u]
        /\ held'[t] \cap Rows(ch) = {}
    BY DEF QueueInv, TypeOK, LetGo
  <1>2. \A m \in Msgs : m \notin held[t] \cap Rows(ch) => status'[m] = status[m]
    BY DEF Finalize, Finalizable
  <1>3. ClaimExclusive'
    BY <1>1 DEF ClaimInv, ClaimExclusive
  <1>4. ASSUME NEW u \in Ticks, NEW m \in held'[u], m \notin broken
        PROVE  status'[m] \in {"extracting", "done"}
    <2>1. m \in held[u] /\ m \in Msgs
      BY <1>1 DEF QueueInv, TypeOK
    <2>2. m \notin held[t] \cap Rows(ch)
      BY <1>1, <1>4, <2>1 DEF ClaimInv, ClaimExclusive
    <2> QED
      BY <1>2, <1>4, <2>1, <2>2 DEF ClaimInv, HeldInFlight
  <1> QED
    BY <1>1, <1>3, <1>4 DEF ClaimInv, HeldInFlight

\* A row is taken only from pending or failed, where no live tick holds it
\* unless a sweep or a reset took it away.
LEMMA ClaimStep == QueueInv /\ ClaimInv /\ [Next]_vars => ClaimInv'
  <1> SUFFICES ASSUME QueueInv, ClaimInv, [Next]_vars PROVE ClaimInv'
    OBVIOUS
  <1> USE QueueAssumption DEF QueueInv, TypeOK, OutcomesHeld, ClaimInv, ClaimExclusive,
        HeldInFlight, rowVars, tickVars, strayVars, storeVars, envVars, histVars
  <1>1. ASSUME NEW m \in Msgs, Insert(m) PROVE ClaimInv'
    BY <1>1 DEF Insert
  <1>2. ASSUME NEW m \in Msgs, Redeliver(m) PROVE ClaimInv'
    BY <1>2 DEF Redeliver
  <1>3. ASSUME NEW t \in Ticks, NEW S \in SUBSET Msgs, Claim(t, S) PROVE ClaimInv'
    <2>1. \A u \in Ticks : \A m \in held[u] : m \in S => m \in broken
      BY <1>3 DEF Claim, Claimable
    <2>2. held' = [held EXCEPT ![t] = S] /\ broken' = broken
      BY <1>3 DEF Claim
    <2>3. ClaimExclusive'
      BY <2>1, <2>2
    <2>4. HeldInFlight'
      BY <1>3, <2>1, <2>2 DEF Claim
    <2> QED
      BY <2>3, <2>4
  <1>4. ASSUME NEW t \in Ticks, NEW S \in SUBSET Msgs, ClaimFails(t, S) PROVE ClaimInv'
    BY <1>4 DEF ClaimFails, Claimable, Idle
  <1>5. ASSUME NEW t \in Ticks, NEW ch \in Channels, NEW S \in SUBSET held[t],
         SubBatchSucceeds(t, ch, S) PROVE ClaimInv'
    BY <1>5 DEF SubBatchSucceeds, SubBatch, Extract
  <1>6. ASSUME NEW t \in Ticks, NEW ch \in Channels, NEW S \in SUBSET held[t], NEW cut \in SUBSET S,
         SubBatchHalved(t, ch, S, cut) PROVE ClaimInv'
    BY <1>6 DEF SubBatchHalved, SubBatch, Extract
  <1>7. ASSUME NEW t \in Ticks, NEW ch \in Channels, NEW S \in SUBSET held[t],
         SubBatchFails(t, ch, S) PROVE ClaimInv'
    BY <1>7 DEF SubBatchFails, SubBatch
  <1>8. ASSUME NEW t \in Ticks, NEW S \in SUBSET ok[t], FinalizeSubBatch(t, S) PROVE ClaimInv'
    BY <1>8 DEF FinalizeSubBatch, FinalizeDone, Finalizable
  <1>9. ASSUME NEW t \in Ticks, NEW ch \in Channels, FinishChannel(t, ch) PROVE ClaimInv'
    <2>1. PICK S, F : S \cup F \subseteq held[t] \cap Rows(ch) /\ Finalize(t, S, F)
      BY <1>9 DEF FinishChannel, FinishAs, Good
    <2>2. LetGo(t, ch, {ch})
      BY <1>9 DEF FinishChannel, FinishAs, Good, Drop
    <2> QED
      BY <2>1, <2>2, LetGoClaim
  <1>10. ASSUME NEW t \in Ticks, NEW ch \in Channels, RaiseChannel(t, ch) PROVE ClaimInv'
    <2>1. PICK S, F : S \cup F \subseteq held[t] \cap Rows(ch) /\ Finalize(t, S, F)
      BY <1>10 DEF RaiseChannel
    <2>2. LetGo(t, ch, {ch})
      BY <1>10 DEF RaiseChannel, Drop
    <2> QED
      BY <2>1, <2>2, LetGoClaim
  <1>11. ASSUME NEW t \in Ticks, NEW ch \in Channels, LoseChannel(t, ch) PROVE ClaimInv'
    BY <1>11 DEF LoseChannel, Drop, LetGo, Rows
  <1>12. ASSUME NEW S \in SUBSET stray, StrayExtracts(S) PROVE ClaimInv'
    BY <1>12 DEF StrayExtracts
  <1>13. ASSUME NEW S \in SUBSET stray, StrayFails(S) PROVE ClaimInv'
    BY <1>13 DEF StrayFails
  <1>14. ASSUME NEW S \in SUBSET strayOk, StrayFinalizes(S) PROVE ClaimInv'
    BY <1>14 DEF StrayFinalizes, FinalizeDone, Finalizable
  <1>15. ASSUME NEW t \in Ticks, NEW ch \in Channels, SettleCheck(t, ch) PROVE ClaimInv'
    BY <1>15 DEF SettleCheck, Check
  <1>16. ASSUME NEW t \in Ticks, NEW ch \in Channels, SettleCheckFails(t, ch) PROVE ClaimInv'
    BY <1>16 DEF SettleCheckFails
  <1>17. CASE Sweep
    BY <1>17 DEF Sweep, Stale, HeldByLive
  <1>18. ASSUME NEW ch \in Channels, ResetDropFacts(ch) PROVE ClaimInv'
    BY <1>18 DEF ResetDropFacts
  <1>19. ASSUME NEW ch \in Channels, ResetDropFails(ch) PROVE ClaimInv'
    BY <1>19 DEF ResetDropFails
  <1>20. ASSUME NEW ch \in Channels, ResetFlipRows(ch) PROVE ClaimInv'
    BY <1>20 DEF ResetFlipRows, FlipRows, Rows, HeldByLive
  <1>21. CASE Crash
    BY <1>21 DEF Crash
  <1>22. CASE TimePasses
    BY <1>22 DEF TimePasses
  <1>23. CASE UNCHANGED vars
    BY <1>23 DEF vars
  <1>24. ASSUME NEW S \in SUBSET owed, Replay(S) PROVE ClaimInv'
    BY <1>24 DEF Replay
  <1> QED
    BY <1>1, <1>2, <1>3, <1>4, <1>5, <1>6, <1>7, <1>8, <1>9, <1>10, <1>11, <1>12, <1>13,
       <1>14, <1>15, <1>16, <1>17, <1>18, <1>19, <1>20, <1>21, <1>22, <1>23, <1>24
    DEF Next, Progress, ClaimSome

\* Whoever drains a channel is a tick that will still check it.
LEMMA DrainStep == QueueInv /\ NoMissedDrain /\ [Next]_vars => NoMissedDrain'
  <1> SUFFICES ASSUME QueueInv, NoMissedDrain, [Next]_vars PROVE NoMissedDrain'
    OBVIOUS
  <1> USE QueueAssumption DEF QueueInv, TypeOK, OutcomesHeld, NoMissedDrain, Drained, Touched, Rows,
        rowVars, tickVars, strayVars, storeVars, envVars, histVars
  <1>1. ASSUME NEW m \in Msgs, Insert(m) PROVE NoMissedDrain'
    BY <1>1 DEF Insert
  <1>2. ASSUME NEW m \in Msgs, Redeliver(m) PROVE NoMissedDrain'
    BY <1>2 DEF Redeliver
  <1>3. ASSUME NEW t \in Ticks, NEW S \in SUBSET Msgs, Claim(t, S) PROVE NoMissedDrain'
    <2>1. \A u \in Ticks : Touched(u) \subseteq Touched(u)'
      BY <1>3 DEF Claim, Idle
    <2>2. \A c \in Channels : Drained(c)' => Drained(c)
      BY <1>3 DEF Claim
    <2>3. dirty' = dirty /\ unchecked' = unchecked
      BY <1>3 DEF Claim
    <2> HIDE DEF Touched, Drained, Rows
    <2> QED
      BY <2>1, <2>2, <2>3
  <1>4. ASSUME NEW t \in Ticks, NEW S \in SUBSET Msgs, ClaimFails(t, S) PROVE NoMissedDrain'
    BY <1>4 DEF ClaimFails, Claimable, Idle
  <1>5. ASSUME NEW t \in Ticks, NEW ch \in Channels, NEW S \in SUBSET held[t],
         SubBatchSucceeds(t, ch, S) PROVE NoMissedDrain'
    BY <1>5 DEF SubBatchSucceeds, SubBatch, Extract
  <1>6. ASSUME NEW t \in Ticks, NEW ch \in Channels, NEW S \in SUBSET held[t], NEW cut \in SUBSET S,
         SubBatchHalved(t, ch, S, cut) PROVE NoMissedDrain'
    BY <1>6 DEF SubBatchHalved, SubBatch, Extract
  <1>7. ASSUME NEW t \in Ticks, NEW ch \in Channels, NEW S \in SUBSET held[t],
         SubBatchFails(t, ch, S) PROVE NoMissedDrain'
    BY <1>7 DEF SubBatchFails, SubBatch
  <1>8. ASSUME NEW t \in Ticks, NEW S \in SUBSET ok[t],
         FinalizeSubBatch(t, S) PROVE NoMissedDrain'
    <2>1. \A u \in Ticks : Touched(u)' = Touched(u)
      BY <1>8 DEF FinalizeSubBatch
    <2>2. \A m \in Finalizable(S) : m \in Msgs /\ ChannelOf[m] \in Touched(t)
      BY <1>8 DEF Finalizable
    <2>3. ASSUME NEW c \in dirty' \ unchecked', Drained(c)' PROVE \E u \in Ticks : c \in Touched(u)
      <3>1. CASE \E m \in Finalizable(S) : c = ChannelOf[m]
        BY <2>2, <3>1
      <3>2. CASE ~\E m \in Finalizable(S) : c = ChannelOf[m]
        <4>1. c \in dirty \ unchecked
          BY <1>8, <2>3, <3>2 DEF FinalizeSubBatch
        <4>2. \A m \in Rows(c) : status'[m] = status[m]
          BY <1>8, <3>2 DEF FinalizeSubBatch, FinalizeDone
        <4>3. Drained(c)
          BY <2>3, <4>2
        <4> QED
          BY <4>1, <4>3
      <3> QED
        BY <3>1, <3>2
    <2> HIDE DEF Touched, Drained
    <2> QED
      BY <2>1, <2>3
  <1>9. ASSUME NEW t \in Ticks, NEW ch \in Channels, FinishChannel(t, ch) PROVE NoMissedDrain'
    <2>1. \A c \in Channels : c # ch => (Drained(c)' <=> Drained(c))
      <3>1. PICK S, F : S \subseteq Rows(ch) /\ F \subseteq Rows(ch) /\ Finalize(t, S, F)
        BY <1>9 DEF FinishChannel, FinishAs, Good
      <3> QED
        BY <3>1, FinalizeLocal
    <2>2. LetGo(t, ch, {ch})
      BY <1>9 DEF FinishChannel, FinishAs, Good, Drop
    <2>3. ch \in Touched(t)' /\ \A u \in Ticks : Touched(u) \subseteq Touched(u)'
      BY <2>2, LetGoTouched
    <2>4. dirty' \subseteq dirty \cup {ch} /\ unchecked' = unchecked
      BY <1>9, <2>2 DEF FinishChannel, FinishAs, Good, LetGo
    <2> HIDE DEF Touched, Drained, Rows
    <2> QED
      BY <2>1, <2>3, <2>4
  <1>10. ASSUME NEW t \in Ticks, NEW ch \in Channels, RaiseChannel(t, ch) PROVE NoMissedDrain'
    <2>1. \A c \in Channels : c # ch => (Drained(c)' <=> Drained(c))
      <3>1. PICK S, F : S \subseteq Rows(ch) /\ F \subseteq Rows(ch) /\ Finalize(t, S, F)
        BY <1>10 DEF RaiseChannel
      <3> QED
        BY <3>1, FinalizeLocal
    <2>2. LetGo(t, ch, {ch})
      BY <1>10 DEF RaiseChannel, Drop
    <2>3. ch \in Touched(t)' /\ \A u \in Ticks : Touched(u) \subseteq Touched(u)'
      BY <2>2, LetGoTouched
    <2>4. dirty' \subseteq dirty \cup {ch} /\ unchecked' = unchecked
      BY <1>10, <2>2 DEF RaiseChannel, LetGo
    <2> HIDE DEF Touched, Drained, Rows
    <2> QED
      BY <2>1, <2>3, <2>4
  <1>11. ASSUME NEW t \in Ticks, NEW ch \in Channels, LoseChannel(t, ch) PROVE NoMissedDrain'
    <2>1. \A c \in Channels : Drained(c)' <=> Drained(c)
      BY <1>11 DEF LoseChannel
    <2>2. LetGo(t, ch, {ch})
      BY <1>11 DEF LoseChannel, Drop
    <2>3. ch \in Touched(t)' /\ \A u \in Ticks : Touched(u) \subseteq Touched(u)'
      BY <2>2, LetGoTouched
    <2>4. dirty' \subseteq dirty \cup {ch} /\ unchecked' = unchecked
      BY <1>11, <2>2 DEF LoseChannel, LetGo
    <2> HIDE DEF Touched, Drained, Rows
    <2> QED
      BY <2>1, <2>3, <2>4
  <1>12. ASSUME NEW S \in SUBSET stray, StrayExtracts(S) PROVE NoMissedDrain'
    BY <1>12 DEF StrayExtracts
  <1>13. ASSUME NEW S \in SUBSET stray, StrayFails(S) PROVE NoMissedDrain'
    BY <1>13 DEF StrayFails
  <1>14. ASSUME NEW S \in SUBSET strayOk, StrayFinalizes(S) PROVE NoMissedDrain'
    BY <1>14 DEF StrayFinalizes, FinalizeDone, Finalizable
  <1>15. ASSUME NEW t \in Ticks, NEW ch \in Channels, SettleCheck(t, ch) PROVE NoMissedDrain'
    BY <1>15 DEF SettleCheck, Check
  <1>16. ASSUME NEW t \in Ticks, NEW ch \in Channels, SettleCheckFails(t, ch) PROVE NoMissedDrain'
    BY <1>16 DEF SettleCheckFails
  <1>17. CASE Sweep
    BY <1>17 DEF Sweep, Stale
  <1>18. ASSUME NEW ch \in Channels, ResetDropFacts(ch) PROVE NoMissedDrain'
    BY <1>18 DEF ResetDropFacts
  <1>19. ASSUME NEW ch \in Channels, ResetDropFails(ch) PROVE NoMissedDrain'
    BY <1>19 DEF ResetDropFails
  <1>20. ASSUME NEW ch \in Channels, ResetFlipRows(ch) PROVE NoMissedDrain'
    BY <1>20 DEF ResetFlipRows, FlipRows, Rows
  <1>21. CASE Crash
    <2>1. \A u \in Ticks : Touched(u) \subseteq unchecked'
      <3> HIDE DEF Touched
      <3> QED BY <1>21 DEF Crash
    <2>2. dirty' = dirty /\ status' = status /\ unchecked \subseteq unchecked'
      BY <1>21 DEF Crash
    <2>3. ASSUME NEW c \in dirty' \ unchecked' PROVE ~Drained(c)'
      <3>1. c \in dirty \ unchecked /\ \A u \in Ticks : c \notin Touched(u)
        BY <2>1, <2>2, <2>3
      <3>2. ~Drained(c)
        BY <3>1
      <3> QED
        BY <2>2, <3>2
    <2> HIDE DEF Touched, Drained
    <2> QED
      BY <2>3
  <1>22. CASE TimePasses
    BY <1>22 DEF TimePasses
  <1>23. CASE UNCHANGED vars
    BY <1>23 DEF vars
  <1>24. ASSUME NEW S \in SUBSET owed, Replay(S) PROVE NoMissedDrain'
    BY <1>24 DEF Replay
  <1> QED
    BY <1>1, <1>2, <1>3, <1>4, <1>5, <1>6, <1>7, <1>8, <1>9, <1>10, <1>11, <1>12, <1>13,
       <1>14, <1>15, <1>16, <1>17, <1>18, <1>19, <1>20, <1>21, <1>22, <1>23, <1>24
    DEF Next, Progress, ClaimSome

\* A finished row is announced when its channel finishes; every other way to
\* lose the tick's memory of it is a fault that is accounted for.
LEMMA AnnounceStep == QueueInv /\ DoneIsAnnounced /\ [Next]_vars => DoneIsAnnounced'
  <1> SUFFICES ASSUME QueueInv, DoneIsAnnounced, [Next]_vars PROVE DoneIsAnnounced'
    OBVIOUS
  <1> USE QueueAssumption DEF QueueInv, TypeOK, OutcomesHeld, DoneIsAnnounced, Rows,
        rowVars, tickVars, strayVars, storeVars, envVars, histVars
  <1>1. ASSUME NEW m \in Msgs, Insert(m) PROVE DoneIsAnnounced'
    BY <1>1 DEF Insert
  <1>2. ASSUME NEW m \in Msgs, Redeliver(m) PROVE DoneIsAnnounced'
    BY <1>2 DEF Redeliver
  <1>3. ASSUME NEW t \in Ticks, NEW S \in SUBSET Msgs, Claim(t, S) PROVE DoneIsAnnounced'
    BY <1>3 DEF Claim, Claimable, Idle
  <1>4. ASSUME NEW t \in Ticks, NEW S \in SUBSET Msgs, ClaimFails(t, S) PROVE DoneIsAnnounced'
    BY <1>4 DEF ClaimFails, Claimable, Idle
  <1>5. ASSUME NEW t \in Ticks, NEW ch \in Channels, NEW S \in SUBSET held[t],
         SubBatchSucceeds(t, ch, S) PROVE DoneIsAnnounced'
    BY <1>5 DEF SubBatchSucceeds, SubBatch, Extract
  <1>6. ASSUME NEW t \in Ticks, NEW ch \in Channels, NEW S \in SUBSET held[t], NEW cut \in SUBSET S,
         SubBatchHalved(t, ch, S, cut) PROVE DoneIsAnnounced'
    BY <1>6 DEF SubBatchHalved, SubBatch, Extract
  <1>7. ASSUME NEW t \in Ticks, NEW ch \in Channels, NEW S \in SUBSET held[t],
         SubBatchFails(t, ch, S) PROVE DoneIsAnnounced'
    BY <1>7 DEF SubBatchFails, SubBatch
  <1>8. ASSUME NEW t \in Ticks, NEW S \in SUBSET ok[t],
         FinalizeSubBatch(t, S) PROVE DoneIsAnnounced'
    BY <1>8 DEF FinalizeSubBatch, FinalizeDone, Finalizable
  <1>9. ASSUME NEW t \in Ticks, NEW ch \in Channels, FinishChannel(t, ch) PROVE DoneIsAnnounced'
    BY <1>9 DEF FinishChannel, FinishAs, Good, Finalize, Finalizable, Drop, LetGo
  <1>10. ASSUME NEW t \in Ticks, NEW ch \in Channels, RaiseChannel(t, ch) PROVE DoneIsAnnounced'
    BY <1>10 DEF RaiseChannel, Finalize, Finalizable, Drop, LetGo
  <1>11. ASSUME NEW t \in Ticks, NEW ch \in Channels, LoseChannel(t, ch) PROVE DoneIsAnnounced'
    BY <1>11 DEF LoseChannel, Drop, LetGo
  <1>12. ASSUME NEW S \in SUBSET stray, StrayExtracts(S) PROVE DoneIsAnnounced'
    BY <1>12 DEF StrayExtracts
  <1>13. ASSUME NEW S \in SUBSET stray, StrayFails(S) PROVE DoneIsAnnounced'
    BY <1>13 DEF StrayFails
  <1>14. ASSUME NEW S \in SUBSET strayOk, StrayFinalizes(S) PROVE DoneIsAnnounced'
    BY <1>14 DEF StrayFinalizes, FinalizeDone, Finalizable
  <1>15. ASSUME NEW t \in Ticks, NEW ch \in Channels, SettleCheck(t, ch) PROVE DoneIsAnnounced'
    BY <1>15 DEF SettleCheck, Check
  <1>16. ASSUME NEW t \in Ticks, NEW ch \in Channels,
         SettleCheckFails(t, ch) PROVE DoneIsAnnounced'
    BY <1>16 DEF SettleCheckFails
  <1>17. CASE Sweep
    BY <1>17 DEF Sweep, Stale
  <1>18. ASSUME NEW ch \in Channels, ResetDropFacts(ch) PROVE DoneIsAnnounced'
    BY <1>18 DEF ResetDropFacts
  <1>19. ASSUME NEW ch \in Channels, ResetDropFails(ch) PROVE DoneIsAnnounced'
    BY <1>19 DEF ResetDropFails
  <1>20. ASSUME NEW ch \in Channels, ResetFlipRows(ch) PROVE DoneIsAnnounced'
    BY <1>20 DEF ResetFlipRows, FlipRows, Rows
  <1>21. CASE Crash
    BY <1>21 DEF Crash
  <1>22. CASE TimePasses
    BY <1>22 DEF TimePasses
  <1>23. CASE UNCHANGED vars
    BY <1>23 DEF vars
  <1>24. ASSUME NEW S \in SUBSET owed, Replay(S) PROVE DoneIsAnnounced'
    BY <1>24 DEF Replay
  <1> QED
    BY <1>1, <1>2, <1>3, <1>4, <1>5, <1>6, <1>7, <1>8, <1>9, <1>10, <1>11, <1>12, <1>13,
       <1>14, <1>15, <1>16, <1>17, <1>18, <1>19, <1>20, <1>21, <1>22, <1>23, <1>24
    DEF Next, Progress, ClaimSome

\* Facts leave the store only by a reset, which is under way or has recorded the
\* rows that were extracted already, so every success stays accounted for.
LEMMA StoredStep == QueueInv /\ StoredInv /\ [Next]_vars => StoredInv'
  <1> SUFFICES ASSUME QueueInv, StoredInv, [Next]_vars PROVE StoredInv'
    OBVIOUS
  <1> USE QueueAssumption DEF QueueInv, TypeOK, OutcomesHeld, StoredInv, OutcomesStored,
        DoneMeansStored, Accounted,
        rowVars, tickVars, strayVars, storeVars, envVars, histVars
  <1>1. ASSUME NEW m \in Msgs, Insert(m) PROVE StoredInv'
    BY <1>1 DEF Insert
  <1>2. ASSUME NEW m \in Msgs, Redeliver(m) PROVE StoredInv'
    BY <1>2 DEF Redeliver
  <1>3. ASSUME NEW t \in Ticks, NEW S \in SUBSET Msgs, Claim(t, S) PROVE StoredInv'
    BY <1>3 DEF Claim, Claimable, Idle
  <1>4. ASSUME NEW t \in Ticks, NEW S \in SUBSET Msgs, ClaimFails(t, S) PROVE StoredInv'
    BY <1>4 DEF ClaimFails, Claimable, Idle
  <1>5. ASSUME NEW t \in Ticks, NEW ch \in Channels, NEW S \in SUBSET held[t],
         SubBatchSucceeds(t, ch, S) PROVE StoredInv'
    BY <1>5 DEF SubBatchSucceeds, SubBatch, Extract, Stores, StoreFails
  <1>6. ASSUME NEW t \in Ticks, NEW ch \in Channels, NEW S \in SUBSET held[t], NEW cut \in SUBSET S,
         SubBatchHalved(t, ch, S, cut) PROVE StoredInv'
    BY <1>6 DEF SubBatchHalved, SubBatch, Extract, Stores, StoreFails
  <1>7. ASSUME NEW t \in Ticks, NEW ch \in Channels, NEW S \in SUBSET held[t],
         SubBatchFails(t, ch, S) PROVE StoredInv'
    BY <1>7 DEF SubBatchFails, SubBatch
  <1>8. ASSUME NEW t \in Ticks, NEW S \in SUBSET ok[t], FinalizeSubBatch(t, S) PROVE StoredInv'
    BY <1>8 DEF FinalizeSubBatch, FinalizeDone, Finalizable
  <1>9. ASSUME NEW t \in Ticks, NEW ch \in Channels, FinishChannel(t, ch) PROVE StoredInv'
    BY <1>9 DEF FinishChannel, FinishAs, Good, Finalize, Finalizable, Drop, LetGo
  <1>10. ASSUME NEW t \in Ticks, NEW ch \in Channels, RaiseChannel(t, ch) PROVE StoredInv'
    BY <1>10 DEF RaiseChannel, Finalize, Finalizable, Drop, LetGo
  <1>11. ASSUME NEW t \in Ticks, NEW ch \in Channels, LoseChannel(t, ch) PROVE StoredInv'
    BY <1>11 DEF LoseChannel, Drop, LetGo
  <1>12. ASSUME NEW S \in SUBSET stray, StrayExtracts(S) PROVE StoredInv'
    BY <1>12 DEF StrayExtracts, Stores, StoreFails
  <1>13. ASSUME NEW S \in SUBSET stray, StrayFails(S) PROVE StoredInv'
    BY <1>13 DEF StrayFails
  <1>14. ASSUME NEW S \in SUBSET strayOk, StrayFinalizes(S) PROVE StoredInv'
    BY <1>14 DEF StrayFinalizes, FinalizeDone, Finalizable
  <1>15. ASSUME NEW t \in Ticks, NEW ch \in Channels, SettleCheck(t, ch) PROVE StoredInv'
    BY <1>15 DEF SettleCheck, Check
  <1>16. ASSUME NEW t \in Ticks, NEW ch \in Channels, SettleCheckFails(t, ch) PROVE StoredInv'
    BY <1>16 DEF SettleCheckFails
  <1>17. CASE Sweep
    BY <1>17 DEF Sweep, Stale
  <1>18. ASSUME NEW ch \in Channels, ResetDropFacts(ch) PROVE StoredInv'
    BY <1>18 DEF ResetDropFacts, Extracted, Rows
  <1>19. ASSUME NEW ch \in Channels, ResetDropFails(ch) PROVE StoredInv'
    BY <1>19 DEF ResetDropFails
  <1>20. ASSUME NEW ch \in Channels, ResetFlipRows(ch) PROVE StoredInv'
    BY <1>20 DEF ResetFlipRows, FlipRows, Rows
  <1>21. CASE Crash
    BY <1>21 DEF Crash
  <1>22. CASE TimePasses
    BY <1>22 DEF TimePasses
  <1>23. CASE UNCHANGED vars
    BY <1>23 DEF vars
  <1>24. ASSUME NEW S \in SUBSET owed, Replay(S) PROVE StoredInv'
    BY <1>24 DEF Replay
  <1> QED
    BY <1>1, <1>2, <1>3, <1>4, <1>5, <1>6, <1>7, <1>8, <1>9, <1>10, <1>11, <1>12, <1>13,
       <1>14, <1>15, <1>16, <1>17, <1>18, <1>19, <1>20, <1>21, <1>22, <1>23, <1>24
    DEF Next, Progress, ClaimSome

\* What one step may do to one row.
RowStep(m) ==
    \/ status'[m] = status[m] /\ attempts'[m] = attempts[m]
    \/ status[m] = "absent" /\ status'[m] = "pending" /\ attempts[m] = 0 /\ attempts'[m] = 0
    \/ /\ status[m] = "pending" \/ (status[m] = "failed" /\ attempts[m] < MaxRetries)
       /\ status'[m] = "extracting" /\ attempts'[m] = attempts[m]
    \/ status[m] = "extracting" /\ status'[m] \in {"done", "pending"} /\ attempts'[m] = attempts[m]
    \/ status[m] = "extracting" /\ status'[m] = "failed" /\ attempts'[m] = attempts[m] + 1
    \/ status[m] # "absent" /\ status'[m] = "pending" /\ attempts'[m] = 0

\* Every action moves every row along RowStep.
LEMMA RowStepLemma == QueueInv /\ [Next]_vars => \A r \in Msgs : RowStep(r)
  <1> SUFFICES ASSUME QueueInv, [Next]_vars PROVE \A r \in Msgs : RowStep(r)
    OBVIOUS
  <1> USE QueueAssumption DEF QueueInv, TypeOK, AbsentFresh, RowStep,
        rowVars, tickVars, strayVars, storeVars, envVars, histVars
  <1>1. ASSUME NEW m \in Msgs, Insert(m) PROVE \A r \in Msgs : RowStep(r)
    BY <1>1 DEF Insert
  <1>2. ASSUME NEW m \in Msgs, Redeliver(m) PROVE \A r \in Msgs : RowStep(r)
    BY <1>2 DEF Redeliver
  <1>3. ASSUME NEW t \in Ticks, NEW S \in SUBSET Msgs,
         Claim(t, S) PROVE \A r \in Msgs : RowStep(r)
    BY <1>3 DEF Claim, Claimable, Idle
  <1>4. ASSUME NEW t \in Ticks, NEW S \in SUBSET Msgs,
         ClaimFails(t, S) PROVE \A r \in Msgs : RowStep(r)
    BY <1>4 DEF ClaimFails, Claimable, Idle
  <1>5. ASSUME NEW t \in Ticks, NEW ch \in Channels, NEW S \in SUBSET held[t],
         SubBatchSucceeds(t, ch, S) PROVE \A r \in Msgs : RowStep(r)
    BY <1>5 DEF SubBatchSucceeds, SubBatch, Extract
  <1>6. ASSUME NEW t \in Ticks, NEW ch \in Channels, NEW S \in SUBSET held[t], NEW cut \in SUBSET S,
         SubBatchHalved(t, ch, S, cut) PROVE \A r \in Msgs : RowStep(r)
    BY <1>6 DEF SubBatchHalved, SubBatch, Extract
  <1>7. ASSUME NEW t \in Ticks, NEW ch \in Channels, NEW S \in SUBSET held[t],
         SubBatchFails(t, ch, S) PROVE \A r \in Msgs : RowStep(r)
    BY <1>7 DEF SubBatchFails, SubBatch
  <1>8. ASSUME NEW t \in Ticks, NEW S \in SUBSET ok[t],
         FinalizeSubBatch(t, S) PROVE \A r \in Msgs : RowStep(r)
    BY <1>8 DEF FinalizeSubBatch, FinalizeDone, Finalizable
  <1>9. ASSUME NEW t \in Ticks, NEW ch \in Channels,
         FinishChannel(t, ch) PROVE \A r \in Msgs : RowStep(r)
    BY <1>9 DEF FinishChannel, FinishAs, Good, Finalize, Finalizable, Drop, LetGo
  <1>10. ASSUME NEW t \in Ticks, NEW ch \in Channels,
         RaiseChannel(t, ch) PROVE \A r \in Msgs : RowStep(r)
    BY <1>10 DEF RaiseChannel, Finalize, Finalizable, Drop, LetGo
  <1>11. ASSUME NEW t \in Ticks, NEW ch \in Channels,
         LoseChannel(t, ch) PROVE \A r \in Msgs : RowStep(r)
    BY <1>11 DEF LoseChannel, Drop, LetGo
  <1>12. ASSUME NEW S \in SUBSET stray, StrayExtracts(S) PROVE \A r \in Msgs : RowStep(r)
    BY <1>12 DEF StrayExtracts
  <1>13. ASSUME NEW S \in SUBSET stray, StrayFails(S) PROVE \A r \in Msgs : RowStep(r)
    BY <1>13 DEF StrayFails
  <1>14. ASSUME NEW S \in SUBSET strayOk, StrayFinalizes(S) PROVE \A r \in Msgs : RowStep(r)
    BY <1>14 DEF StrayFinalizes, FinalizeDone, Finalizable
  <1>15. ASSUME NEW t \in Ticks, NEW ch \in Channels,
         SettleCheck(t, ch) PROVE \A r \in Msgs : RowStep(r)
    BY <1>15 DEF SettleCheck, Check
  <1>16. ASSUME NEW t \in Ticks, NEW ch \in Channels,
         SettleCheckFails(t, ch) PROVE \A r \in Msgs : RowStep(r)
    BY <1>16 DEF SettleCheckFails
  <1>17. CASE Sweep
    BY <1>17 DEF Sweep, Stale
  <1>18. ASSUME NEW ch \in Channels, ResetDropFacts(ch) PROVE \A r \in Msgs : RowStep(r)
    BY <1>18 DEF ResetDropFacts
  <1>19. ASSUME NEW ch \in Channels, ResetDropFails(ch) PROVE \A r \in Msgs : RowStep(r)
    BY <1>19 DEF ResetDropFails
  <1>20. ASSUME NEW ch \in Channels, ResetFlipRows(ch) PROVE \A r \in Msgs : RowStep(r)
    BY <1>20 DEF ResetFlipRows, FlipRows, Rows
  <1>21. CASE Crash
    BY <1>21 DEF Crash
  <1>22. CASE TimePasses
    BY <1>22 DEF TimePasses
  <1>23. CASE UNCHANGED vars
    BY <1>23 DEF vars
  <1>24. ASSUME NEW S \in SUBSET owed, Replay(S) PROVE \A r \in Msgs : RowStep(r)
    BY <1>24 DEF Replay
  <1> QED
    BY <1>1, <1>2, <1>3, <1>4, <1>5, <1>6, <1>7, <1>8, <1>9, <1>10, <1>11, <1>12, <1>13,
       <1>14, <1>15, <1>16, <1>17, <1>18, <1>19, <1>20, <1>21, <1>22, <1>23, <1>24
    DEF Next, Progress, ClaimSome

\* A row's step is a step of the abstract item.
LEMMA RowRefines ==
    ASSUME QueueInv, QueueInv', NEW m \in Msgs, RowStep(m)
    PROVE  \/ RQ!Stay(m) \/ RQ!Add(m) \/ RQ!Take(m) \/ RQ!Finish(m)
           \/ RQ!Return(m) \/ RQ!Fail(m) \/ RQ!Reopen(m)
  BY DEF QueueInv, TypeOK, Status, BudgetLeft, RowStep, ItemOf, RQ!Move,
         RQ!Stay, RQ!Add, RQ!Take, RQ!Finish, RQ!Return, RQ!Fail, RQ!Reopen

\* The inductive core holds in every reachable state.
LEMMA QueueInvariant == Spec => []QueueInv
  BY QueueInit, QueueStep, PTL DEF Spec

\* The queue keeps its types, for every set of rows, ticks and channels, every
\* schedule and every bound on faults, resets and re-deliveries.
THEOREM QueueTypeCorrect == Spec => []TypeOK
  <1>1. QueueInv => TypeOK
    BY DEF QueueInv
  <1> QED
    BY QueueInvariant, <1>1, PTL

\* No finalization, late or repeated, overdraws a row's retry budget.
THEOREM QueueBudgetLeft == Spec => []BudgetLeft
  <1>1. QueueInv => BudgetLeft
    BY DEF QueueInv
  <1> QED
    BY QueueInvariant, <1>1, PTL

\* Two live ticks share a row only if a sweep or a reset took it from one.
THEOREM QueueClaimExclusive == Spec => []ClaimExclusive
  <1>1. Init => ClaimInv
    BY DEF Init, ClaimInv, ClaimExclusive, HeldInFlight
  <1>2. ClaimInv => ClaimExclusive
    BY DEF ClaimInv
  <1> QED
    BY QueueInvariant, <1>1, <1>2, ClaimStep, PTL DEF Spec

\* No drain of a channel goes unnoticed.
THEOREM QueueNoMissedDrain == Spec => []NoMissedDrain
  <1>1. Init => NoMissedDrain
    BY DEF Init, NoMissedDrain
  <1> QED
    BY QueueInvariant, <1>1, DrainStep, PTL DEF Spec

\* Facts of a done row were announced, will be, or were lost to a fault.
THEOREM QueueDoneIsAnnounced == Spec => []DoneIsAnnounced
  <1>1. Init => DoneIsAnnounced
    BY DEF Init, DoneIsAnnounced
  <1> QED
    BY QueueInvariant, <1>1, AnnounceStep, PTL DEF Spec

\* A done row's facts are stored, or it is known which of four things took them:
\* a store failure that left them in a write intent, a halved batch that cut the
\* row, or a reset before or after the row was finalized.  However ticks
\* overlap, whatever fails and however often channels are reset.
THEOREM QueueDoneMeansStored == Spec => []DoneMeansStored
  <1>1. Init => StoredInv
    BY DEF Init, StoredInv, OutcomesStored, DoneMeansStored
  <1>2. StoredInv => DoneMeansStored
    BY DEF StoredInv
  <1> QED
    BY QueueInvariant, <1>1, <1>2, StoredStep, PTL DEF Spec

\* The queue with its ticks, sweeps, crashes and late finalizations implements
\* the retry queue.
THEOREM QueueImplementsRetryQueue == Spec => ImplementsRetryQueue
  <1>1. Init => RQ!Init
    BY QueueAssumption DEF Init, RQ!Init, ItemOf
  <1>2. QueueInv /\ QueueInv' /\ [Next]_vars => RQ!Step
    BY RowStepLemma, RowRefines DEF RQ!Step
  <1> QED
    BY QueueInvariant, <1>1, <1>2, PTL DEF Spec, ImplementsRetryQueue, RQ!Spec
=============================================================================

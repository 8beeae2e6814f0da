-------------------------- MODULE WriteIntents_proofs --------------------------
(***************************************************************************)
(* Proofs about the outbox for every set of batches of every kind and      *)
(* every number of failures and crashes: the marks of an intent never run  *)
(* ahead of its writes.                                                    *)
(***************************************************************************)
EXTENDS WriteIntents, TLAPS

\* The facts of a batch are in their store, or there are none.
FactsIn(i) == i \in NoFacts \/ facts[i] # "absent"

\* So is the graph, or it was skipped, or its failure reported.
GraphIn(i) == i \in SkipGraph \cup reported \cup graph

\* The persister has written what it is about to mark.
PersisterAhead ==
    \A i \in Intents \ dropped : persister[i].pc # "done" =>
        /\ persister[i].weaviate \in {"written", "ok"} => FactsIn(i)
        /\ persister[i].neo4j # "todo" => GraphIn(i)

\* So has the replay, and the marks it read were true.
ReplayAhead ==
    /\ \A i \in replay.w \ dropped : FactsIn(i)
    /\ \A i \in replay.g \ dropped : GraphIn(i)
    /\ replay.pc \in {"markfacts", "graph", "complete"} =>
           \A i \in replay.at \ dropped : FactsIn(i)
    /\ replay.pc = "complete" => \A i \in replay.at \ dropped : GraphIn(i)

MarksInv == TypeOK /\ WritesNotForgotten /\ PersisterAhead /\ ReplayAhead

ReplayType ==
    [pc : {"idle", "next", "facts", "markfacts", "graph", "complete"},
     todo : SUBSET Intents, w : SUBSET Intents, g : SUBSET Intents,
     at : SUBSET Intents]

\* Turning to the next intent leaves the pass well formed.
LEMMA NextIntentType ==
    ASSUME TypeOK, NextIntent
    PROVE  replay' \in ReplayType
  <1>1. CASE replay.todo = {}
    BY <1>1 DEF NextIntent, NoReplay, ReplayType
  <1>2. CASE replay.todo # {}
    <2>1. replay' = [replay EXCEPT !.pc = "next", !.w = @ \ replay.at,
                                   !.g = @ \ replay.at, !.at = {}]
      BY <1>2 DEF NextIntent
    <2> QED
      BY <2>1 DEF TypeOK, ReplayType
  <1> QED
    BY <1>1, <1>2

\* Every variable keeps its type (write_intents rows and the two stores).
LEMMA TypeStep ==
    ASSUME TypeOK, [Next]_vars
    PROVE  TypeOK'
  <1> USE IntentAssumption
      DEF TypeOK, rowVars, storeVars, histVars, NoReplay, Persisted, Mark, Fault
  <1>1. CASE UNCHANGED vars
    BY <1>1 DEF vars
  <1>2. ASSUME NEW i \in Intents, CreateIntent(i) PROVE TypeOK'
    BY <1>2 DEF CreateIntent
  <1>3. ASSUME NEW i \in Intents, Persist(i) PROVE TypeOK'
    <2>1. CASE UpsertFacts(i)
      BY <2>1 DEF UpsertFacts
    <2>2. CASE MarkFacts(i)
      BY <2>2 DEF MarkFacts
    <2>3. CASE UpsertGraph(i)
      BY <2>3 DEF UpsertGraph
    <2>4. CASE MarkGraph(i)
      BY <2>4 DEF MarkGraph
    <2>5. CASE Finish(i)
      BY <2>5 DEF Finish
    <2> QED
      BY <1>3, <2>1, <2>2, <2>3, <2>4, <2>5 DEF Persist
  <1>4. ASSUME NEW i \in Intents, FactsFail(i) PROVE TypeOK'
    BY <1>4 DEF FactsFail
  <1>5. ASSUME NEW i \in Intents, GraphFails(i) PROVE TypeOK'
    BY <1>5 DEF GraphFails
  <1>6. CASE RunOnce
    <2>1. PICK old \in SUBSET Pending :
            replay' = [NoReplay EXCEPT !.pc = "next", !.todo = old,
                                       !.w = old \cap weaviateDone, !.g = old \cap neo4jDone]
      BY <1>6 DEF RunOnce
    <2>2. replay' = [pc |-> "next", todo |-> old, w |-> old \cap weaviateDone,
                     g |-> old \cap neo4jDone, at |-> {}]
      BY <2>1
    <2>3. old \subseteq Intents
      BY DEF Pending
    <2> QED
      BY <1>6, <2>2, <2>3 DEF RunOnce
  <1>7. CASE ReplayFails
    <2>1. replay' \in ReplayType
      BY <1>7, NextIntentType DEF ReplayFails
    <2> QED
      BY <1>7, <2>1 DEF ReplayFails, ReplayType
  <1>8. ASSUME NEW i \in Intents, BeginIntent(i) PROVE TypeOK'
    <2>1. replay' = [pc |-> "facts", todo |-> replay.todo \ {i}, w |-> replay.w,
                     g |-> replay.g, at |-> {i}]
      BY <1>8 DEF BeginIntent
    <2>2. replay' \in ReplayType
      BY <2>1 DEF ReplayType
    <2> QED
      BY <1>8, <2>2 DEF BeginIntent, ReplayType
  <1>9. ASSUME NEW i \in Intents, ReplayFacts(i) PROVE TypeOK'
    BY <1>9 DEF ReplayFacts
  <1>10. ASSUME NEW i \in Intents, MarkReplayedFacts(i) PROVE TypeOK'
    BY <1>10 DEF MarkReplayedFacts
  <1>11. ASSUME NEW i \in Intents, ReplayGraph(i) PROVE TypeOK'
    BY <1>11 DEF ReplayGraph
  <1>12. ASSUME NEW i \in Intents, CompleteIntent(i) PROVE TypeOK'
    <2>1. replay' \in ReplayType
      BY <1>12, NextIntentType DEF CompleteIntent
    <2> QED
      BY <1>12, <2>1 DEF CompleteIntent, ReplayType
  <1>13. CASE PurgeGraph \/ PurgeFacts \/ PurgeIntents
    BY <1>13 DEF PurgeGraph, PurgeFacts, PurgeIntents
  <1>14. CASE Crash
    BY <1>14 DEF Crash
  <1> QED
    BY <1>1, <1>2, <1>3, <1>4, <1>5, <1>6, <1>7, <1>8, <1>9, <1>10, <1>11, <1>12,
       <1>13, <1>14 DEF Next

LEMMA InitTypes ==
    ASSUME Init
    PROVE  TypeOK
  <1>1. replay \in ReplayType
    BY DEF Init, NoReplay, ReplayType
  <1>2. /\ created \subseteq Intents /\ weaviateDone \subseteq created
        /\ neo4jDone \subseteq created /\ graph \subseteq Intents
        /\ facts \in [Intents -> {"absent", "owned", "unnamed"}]
        /\ faults \in 0..MaxFaults /\ reported \subseteq Intents
        /\ dropped \subseteq Intents
        /\ purge \in {"idle", "facts", "intents", "over"}
    BY IntentAssumption DEF Init
  <1>3. persister \in [Intents -> [pc : {"new", "gather", "done"},
                                   weaviate : {"todo", "written", "ok", "failed"},
                                   neo4j : {"todo", "written", "ok", "failed"}]]
    BY DEF Init
  <1> QED
    BY <1>1, <1>2, <1>3 DEF TypeOK, ReplayType

\* In Spec every variable has its type.
THEOREM IntentsTypeCorrect == Spec => []TypeOK
  <1>1. Init => TypeOK
    BY InitTypes
  <1> QED
    BY <1>1, TypeStep, PTL DEF Spec

-----------------------------------------------------------------------------
(* Marks and writes.                                                        *)

\* Only a purge takes data away, and then the batch is dropped.
StoresKept ==
    /\ dropped \subseteq dropped'
    /\ \A i \in Intents \ dropped' :
           (FactsIn(i) => FactsIn(i)') /\ (GraphIn(i) => GraphIn(i)')

LEMMA StoresStep ==
    ASSUME TypeOK, [Next]_vars
    PROVE  StoresKept
  <1> USE DEF StoresKept, FactsIn, GraphIn, TypeOK, rowVars, storeVars, histVars
  <1>1. CASE UNCHANGED vars
    BY <1>1 DEF vars
  <1>2. ASSUME NEW i \in Intents,
               CreateIntent(i) \/ FactsFail(i) \/ MarkFacts(i) \/ MarkGraph(i) \/ Finish(i)
        PROVE  StoresKept
    BY <1>2 DEF CreateIntent, FactsFail, MarkFacts, MarkGraph, Finish
  <1>3. ASSUME NEW i \in Intents, UpsertFacts(i) PROVE StoresKept
    BY <1>3 DEF UpsertFacts
  <1>4. ASSUME NEW i \in Intents, UpsertGraph(i) \/ GraphFails(i) PROVE StoresKept
    BY <1>4 DEF UpsertGraph, GraphFails
  <1>5. ASSUME NEW i \in Intents,
               BeginIntent(i) \/ MarkReplayedFacts(i) \/ CompleteIntent(i)
        PROVE  StoresKept
    BY <1>5 DEF BeginIntent, MarkReplayedFacts, CompleteIntent
  <1>6. ASSUME NEW i \in Intents, ReplayFacts(i) PROVE StoresKept
    BY <1>6 DEF ReplayFacts
  <1>7. ASSUME NEW i \in Intents, ReplayGraph(i) PROVE StoresKept
    BY <1>7 DEF ReplayGraph
  <1>8. CASE RunOnce \/ ReplayFails \/ PurgeIntents \/ Crash
    BY <1>8 DEF RunOnce, ReplayFails, PurgeIntents, Crash
  <1>9. CASE PurgeGraph \/ PurgeFacts
    BY <1>9 DEF PurgeGraph, PurgeFacts
  <1> QED
    BY <1>1, <1>2, <1>3, <1>4, <1>5, <1>6, <1>7, <1>8, <1>9 DEF Next, Persist

\* What the persister and the replay still have to mark stays written.
LEMMA MarksStep ==
    ASSUME MarksInv, [Next]_vars
    PROVE  MarksInv'
  <1>1. TypeOK' /\ StoresKept
    BY TypeStep, StoresStep DEF MarksInv
  <1> USE <1>1
      DEF MarksInv, WritesNotForgotten, PersisterAhead, ReplayAhead, TypeOK, StoresKept,
          rowVars, storeVars, histVars, FactsIn, GraphIn, Mark
  <1>2. CASE UNCHANGED vars
    BY <1>2 DEF vars
  <1>3. ASSUME NEW i \in Intents, CreateIntent(i) PROVE MarksInv'
    <2>1. WritesNotForgotten'
      BY <1>3 DEF CreateIntent
    <2>2. PersisterAhead'
      BY <1>3 DEF CreateIntent
    <2>3. ReplayAhead'
      BY <1>3 DEF CreateIntent
    <2> QED
      BY <2>1, <2>2, <2>3
  <1>4. ASSUME NEW i \in Intents, UpsertFacts(i) PROVE MarksInv'
    <2>1. WritesNotForgotten'
      BY <1>4 DEF UpsertFacts
    <2>2. PersisterAhead'
      BY <1>4 DEF UpsertFacts
    <2>3. ReplayAhead'
      BY <1>4 DEF UpsertFacts
    <2> QED
      BY <2>1, <2>2, <2>3
  <1>5. ASSUME NEW i \in Intents, MarkFacts(i) PROVE MarksInv'
    <2>1. WritesNotForgotten'
      BY <1>5 DEF MarkFacts
    <2>2. PersisterAhead'
      BY <1>5 DEF MarkFacts
    <2>3. ReplayAhead'
      BY <1>5 DEF MarkFacts
    <2> QED
      BY <2>1, <2>2, <2>3
  <1>6. ASSUME NEW i \in Intents, FactsFail(i) PROVE MarksInv'
    <2>1. WritesNotForgotten'
      BY <1>6 DEF FactsFail
    <2>2. PersisterAhead'
      BY <1>6 DEF FactsFail
    <2>3. ReplayAhead'
      BY <1>6 DEF FactsFail
    <2> QED
      BY <2>1, <2>2, <2>3
  <1>7. ASSUME NEW i \in Intents, UpsertGraph(i) PROVE MarksInv'
    <2>1. WritesNotForgotten'
      BY <1>7 DEF UpsertGraph
    <2>2. PersisterAhead'
      BY <1>7 DEF UpsertGraph
    <2>3. ReplayAhead'
      BY <1>7 DEF UpsertGraph
    <2> QED
      BY <2>1, <2>2, <2>3
  <1>8. ASSUME NEW i \in Intents, MarkGraph(i) PROVE MarksInv'
    <2>1. WritesNotForgotten'
      BY <1>8 DEF MarkGraph
    <2>2. PersisterAhead'
      BY <1>8 DEF MarkGraph
    <2>3. ReplayAhead'
      BY <1>8 DEF MarkGraph
    <2> QED
      BY <2>1, <2>2, <2>3
  <1>9. ASSUME NEW i \in Intents, GraphFails(i) PROVE MarksInv'
    <2>1. WritesNotForgotten'
      BY <1>9 DEF GraphFails
    <2>2. PersisterAhead'
      BY <1>9 DEF GraphFails
    <2>3. ReplayAhead'
      BY <1>9 DEF GraphFails
    <2> QED
      BY <2>1, <2>2, <2>3
  <1>10. ASSUME NEW i \in Intents, Finish(i) PROVE MarksInv'
    <2>1. WritesNotForgotten'
      BY <1>10 DEF Finish, Completes, Persisted
    <2>2. PersisterAhead'
      BY <1>10 DEF Finish, Completes, Persisted
    <2>3. ReplayAhead'
      BY <1>10 DEF Finish, Completes, Persisted
    <2> QED
      BY <2>1, <2>2, <2>3
  <1>11. ASSUME NEW i \in Intents, BeginIntent(i) PROVE MarksInv'
    <2>1. WritesNotForgotten'
      BY <1>11 DEF BeginIntent
    <2>2. PersisterAhead'
      BY <1>11 DEF BeginIntent
    <2>3. ReplayAhead'
      <3>1. replay'.pc = "facts" /\ replay'.w = replay.w /\ replay'.g = replay.g
        BY <1>11, ZenonT(60) DEF BeginIntent
      <3> QED
        BY <1>11, <3>1 DEF BeginIntent
    <2> QED
      BY <2>1, <2>2, <2>3
  <1>12. ASSUME NEW i \in Intents, ReplayFacts(i) PROVE MarksInv'
    <2>1. WritesNotForgotten'
      BY <1>12 DEF ReplayFacts
    <2>2. PersisterAhead'
      BY <1>12 DEF ReplayFacts
    <2>3. ReplayAhead'
      BY <1>12 DEF ReplayFacts
    <2> QED
      BY <2>1, <2>2, <2>3
  <1>13. ASSUME NEW i \in Intents, MarkReplayedFacts(i) PROVE MarksInv'
    <2>1. WritesNotForgotten'
      BY <1>13 DEF MarkReplayedFacts
    <2>2. PersisterAhead'
      BY <1>13 DEF MarkReplayedFacts
    <2>3. ReplayAhead'
      BY <1>13 DEF MarkReplayedFacts
    <2> QED
      BY <2>1, <2>2, <2>3
  <1>14. ASSUME NEW i \in Intents, ReplayGraph(i) PROVE MarksInv'
    <2>1. WritesNotForgotten'
      BY <1>14 DEF ReplayGraph
    <2>2. PersisterAhead'
      BY <1>14 DEF ReplayGraph
    <2>3. ReplayAhead'
      BY <1>14 DEF ReplayGraph
    <2> QED
      BY <2>1, <2>2, <2>3
  <1>15. ASSUME NEW i \in Intents, CompleteIntent(i) PROVE MarksInv'
    <2>1. WritesNotForgotten'
      BY <1>15 DEF CompleteIntent, NextIntent, NoReplay
    <2>2. PersisterAhead'
      BY <1>15 DEF CompleteIntent, NextIntent, NoReplay
    <2>3. ReplayAhead'
      BY <1>15 DEF CompleteIntent, NextIntent, NoReplay
    <2> QED
      BY <2>1, <2>2, <2>3
  <1>16. CASE RunOnce
    <2>1. WritesNotForgotten'
      BY <1>16 DEF RunOnce, Pending, NoReplay
    <2>2. PersisterAhead'
      BY <1>16 DEF RunOnce, Pending, NoReplay
    <2>3. ReplayAhead'
      BY <1>16 DEF RunOnce, Pending, NoReplay
    <2> QED
      BY <2>1, <2>2, <2>3
  <1>17. CASE ReplayFails
    <2>1. WritesNotForgotten'
      BY <1>17 DEF ReplayFails, NextIntent, NoReplay
    <2>2. PersisterAhead'
      BY <1>17 DEF ReplayFails, NextIntent, NoReplay
    <2>3. ReplayAhead'
      BY <1>17 DEF ReplayFails, NextIntent, NoReplay
    <2> QED
      BY <2>1, <2>2, <2>3
  <1>18. CASE PurgeGraph
    <2>1. WritesNotForgotten'
      BY <1>18 DEF PurgeGraph
    <2>2. PersisterAhead'
      BY <1>18 DEF PurgeGraph
    <2>3. ReplayAhead'
      BY <1>18 DEF PurgeGraph
    <2> QED
      BY <2>1, <2>2, <2>3
  <1>19. CASE PurgeFacts
    <2>1. WritesNotForgotten'
      BY <1>19 DEF PurgeFacts
    <2>2. PersisterAhead'
      BY <1>19 DEF PurgeFacts
    <2>3. ReplayAhead'
      BY <1>19 DEF PurgeFacts
    <2> QED
      BY <2>1, <2>2, <2>3
  <1>20. CASE PurgeIntents
    <2>1. WritesNotForgotten'
      BY <1>20 DEF PurgeIntents
    <2>2. PersisterAhead'
      BY <1>20 DEF PurgeIntents
    <2>3. ReplayAhead'
      BY <1>20 DEF PurgeIntents
    <2> QED
      BY <2>1, <2>2, <2>3
  <1>21. CASE Crash
    <2>1. WritesNotForgotten'
      BY <1>21 DEF Crash, NoReplay, Persisted
    <2>2. PersisterAhead'
      BY <1>21 DEF Crash, NoReplay, Persisted
    <2>3. ReplayAhead'
      BY <1>21 DEF Crash, NoReplay, Persisted
    <2> QED
      BY <2>1, <2>2, <2>3
  <1> QED
    BY <1>2, <1>3, <1>4, <1>5, <1>6, <1>7, <1>8, <1>9, <1>10, <1>11, <1>12,
       <1>13, <1>14, <1>15, <1>16, <1>17, <1>18, <1>19, <1>20, <1>21
    DEF Next, Persist

\* An intent marked done has its data in the store it is marked for, but for
\* what a purge took and graph failures that were reported (persister.py
\* 367-773).
THEOREM IntentsWritesNotForgotten == Spec => []WritesNotForgotten
  <1>1. Init => MarksInv
    <2> SUFFICES ASSUME Init PROVE MarksInv
      OBVIOUS
    <2>1. TypeOK
      BY InitTypes
    <2> QED
      BY <2>1 DEF Init, MarksInv, WritesNotForgotten, PersisterAhead, ReplayAhead, NoReplay
  <1>2. MarksInv => WritesNotForgotten
    BY DEF MarksInv
  <1> QED
    BY <1>1, <1>2, MarksStep, PTL DEF Spec
=============================================================================

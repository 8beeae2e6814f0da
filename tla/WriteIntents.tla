----------------------------- MODULE WriteIntents -----------------------------
(***************************************************************************)
(* The outbox of one channel: PersisterAgent writes a batch to the fact    *)
(* store and the graph under a WriteIntent (agents/ingestion/persister.py),*)
(* WriteReconciler replays what is not marked (services/reconciler.py), and*)
(* a channel purge deletes data and intents (services/channel_deletion.py).*)
(*                                                                         *)
(* An intent stands for its batch.  The links between facts, entities and  *)
(* media that the persister adds after the two writes are best-effort and  *)
(* left out.  Nothing in the program starts the reconciler's loop, so its  *)
(* actions carry no fairness.                                              *)
(*                                                                         *)
(* The items of an intent are the extractor's output as it came; none of   *)
(* them carries a channel_id, which only the models built from them get.   *)
(***************************************************************************)
EXTENDS Naturals, FiniteSets

CONSTANTS
    Intents,      \* batches, each persisted under an intent of its own
    NoFacts,      \* those without facts
    SkipGraph,    \* those persisted with skip_graph_writes
    MaxFaults     \* bound: failed calls and crashes

ASSUME IntentAssumption ==
    /\ NoFacts \subseteq Intents /\ SkipGraph \subseteq Intents
    /\ MaxFaults \in Nat

VARIABLES
    \* write_intents
    created, weaviateDone, neo4jDone,
    \* the stores, per batch
    facts,        \* "absent", "owned" by the channel, or without a channel
    graph,        \* batches whose entities and relationships are in the graph
    \* processes
    persister,    \* per batch: progress of the two writes
    replay,       \* the reconciler's pass: intents read and the one at work
    purge,        \* the purge's stage
    faults,
    \* history variables
    reported,     \* batches whose graph failure is in persist_result
    dropped       \* batches a purge took data of

rowVars   == <<created, weaviateDone, neo4jDone>>
storeVars == <<facts, graph>>
histVars  == <<reported, dropped>>
vars == <<rowVars, storeVars, persister, replay, purge, faults, histVars>>

Persisted == [pc |-> "done", weaviate |-> "todo", neo4j |-> "todo"]
NoReplay == [pc |-> "idle", todo |-> {}, w |-> {}, g |-> {}, at |-> {}]

Fault == faults < MaxFaults /\ faults' = faults + 1

\* mutant: the update inserts the row again
MarkUpserting(i, rows) == rows \cup {i}

\* Updates of an intent that a purge has deleted match nothing.
Mark(i, rows) == rows \cup ({i} \cap created)

Pending == {i \in created : i \notin weaviateDone \/ i \notin neo4jDone}

Init ==
    /\ created = {} /\ weaviateDone = {} /\ neo4jDone = {}
    /\ facts = [i \in Intents |-> "absent"] /\ graph = {}
    /\ persister = [i \in Intents |-> [pc |-> "new", weaviate |-> "todo", neo4j |-> "todo"]]
    /\ replay = NoReplay
    /\ purge = "idle"
    /\ faults = 0
    /\ reported = {} /\ dropped = {}

-----------------------------------------------------------------------------
(* PersisterAgent.                                                          *)

\* create_write_intent.
CreateIntent(i) ==
    /\ persister[i].pc = "new"
    /\ persister' = [persister EXCEPT ![i].pc = "gather"]
    /\ created' = created \cup {i}
    /\ UNCHANGED <<weaviateDone, neo4jDone, storeVars, replay, purge, faults, histVars>>

\* _upsert_weaviate: facts first, then the mark; without facts neither.
UpsertFacts(i) ==
    /\ persister[i].pc = "gather" /\ persister[i].weaviate = "todo"
    /\ IF i \in NoFacts
       THEN /\ persister' = [persister EXCEPT ![i].weaviate = "ok"]
            /\ UNCHANGED facts
       ELSE /\ persister' = [persister EXCEPT ![i].weaviate = "written"]
            /\ facts' = [facts EXCEPT ![i] = "owned"]
    /\ UNCHANGED <<rowVars, graph, replay, purge, faults, histVars>>

MarkFacts(i) ==
    /\ persister[i].pc = "gather" /\ persister[i].weaviate = "written"
    /\ persister' = [persister EXCEPT ![i].weaviate = "ok"]
    /\ weaviateDone' = Mark(i, weaviateDone)
    /\ UNCHANGED <<created, neo4jDone, storeVars, replay, purge, faults, histVars>>

FactsFail(i) ==
    /\ persister[i].pc = "gather" /\ persister[i].weaviate \in {"todo", "written"}
    /\ i \notin NoFacts
    /\ Fault
    /\ persister' = [persister EXCEPT ![i].weaviate = "failed"]
    /\ UNCHANGED <<rowVars, storeVars, replay, purge, histVars>>

\* _upsert_graph: entities and relationships unless skipped, then the mark.
UpsertGraph(i) ==
    /\ persister[i].pc = "gather" /\ persister[i].neo4j = "todo"
    /\ persister' = [persister EXCEPT ![i].neo4j = "written"]
    /\ graph' = IF i \in SkipGraph THEN graph ELSE graph \cup {i}
    /\ UNCHANGED <<rowVars, facts, replay, purge, faults, histVars>>

MarkGraph(i) ==
    /\ persister[i].pc = "gather" /\ persister[i].neo4j = "written"
    /\ persister' = [persister EXCEPT ![i].neo4j = "ok"]
    /\ neo4jDone' = Mark(i, neo4jDone)
    /\ UNCHANGED <<created, weaviateDone, storeVars, replay, purge, faults, histVars>>

GraphFails(i) ==
    /\ persister[i].pc = "gather" /\ persister[i].neo4j \in {"todo", "written"}
    /\ Fault
    /\ persister' = [persister EXCEPT ![i].neo4j = "failed"]
    /\ reported' = reported \cup {i}
    /\ UNCHANGED <<rowVars, storeVars, replay, purge, dropped>>

\* mutant: the intent is completed although Weaviate failed
CompletesAlways(i) == TRUE

\* weaviate_failed: only a failed fact write keeps the intent pending.
Completes(i) == persister[i].weaviate # "failed"

\* After the gather: mark_intent_complete sets both marks.
Finish(i) ==
    /\ persister[i].pc = "gather"
    /\ persister[i].weaviate \in {"ok", "failed"} /\ persister[i].neo4j \in {"ok", "failed"}
    /\ persister' = [persister EXCEPT ![i] = Persisted]
    /\ \/ /\ Completes(i)
          /\ weaviateDone' = Mark(i, weaviateDone) /\ neo4jDone' = Mark(i, neo4jDone)
          /\ UNCHANGED faults
       \/ ~Completes(i) /\ UNCHANGED <<weaviateDone, neo4jDone, faults>>
       \/ Completes(i) /\ Fault /\ UNCHANGED <<weaviateDone, neo4jDone>>
    /\ UNCHANGED <<created, storeVars, replay, purge, histVars>>

-----------------------------------------------------------------------------
(* WriteReconciler.                                                         *)

NextIntent ==
    replay' = IF replay.todo = {} THEN NoReplay
              ELSE [replay EXCEPT !.pc = "next", !.w = @ \ replay.at,
                                  !.g = @ \ replay.at, !.at = {}]

\* run_once: the pending intents older than the interval, with their marks as
\* they are now.
RunOnce ==
    /\ replay.pc = "idle"
    /\ \E old \in SUBSET Pending \ {{}} :
           replay' = [NoReplay EXCEPT !.pc = "next", !.todo = old,
                                      !.w = old \cap weaviateDone, !.g = old \cap neo4jDone]
    /\ UNCHANGED <<rowVars, storeVars, persister, purge, faults, histVars>>

\* _reconcile_intent, one intent after the other.
BeginIntent(i) ==
    /\ replay.pc = "next" /\ i \in replay.todo
    /\ replay' = [replay EXCEPT !.pc = "facts", !.todo = @ \ {i}, !.at = {i}]
    /\ UNCHANGED <<rowVars, storeVars, persister, purge, faults, histVars>>

\* Facts that were not marked are written again.  The filter for channels that
\* are being purged goes by the channel_id of an item, which none has, so it
\* leaves nothing out; nor has the fact that is written a channel.
ReplayFacts(i) ==
    /\ replay.pc = "facts" /\ replay.at = {i}
    /\ facts' = IF i \in replay.w \/ i \in NoFacts THEN facts
                ELSE [facts EXCEPT ![i] = "unnamed"]
    /\ replay' = [replay EXCEPT !.pc = "markfacts"]
    /\ UNCHANGED <<rowVars, graph, persister, purge, faults, histVars>>

MarkReplayedFacts(i) ==
    /\ replay.pc = "markfacts" /\ replay.at = {i}
    /\ weaviateDone' = IF i \in replay.w THEN weaviateDone ELSE Mark(i, weaviateDone)
    /\ replay' = [replay EXCEPT !.pc = "graph"]
    /\ UNCHANGED <<created, neo4jDone, storeVars, persister, purge, faults, histVars>>

\* Entities and relationships, which pass the filter too.
ReplayGraph(i) ==
    /\ replay.pc = "graph" /\ replay.at = {i}
    /\ graph' = IF i \in replay.g THEN graph ELSE graph \cup {i}
    /\ replay' = [replay EXCEPT !.pc = "complete"]
    /\ UNCHANGED <<rowVars, facts, persister, purge, faults, histVars>>

\* mark_intent_neo4j_done and mark_intent_complete.
CompleteIntent(i) ==
    /\ replay.pc = "complete" /\ replay.at = {i}
    /\ weaviateDone' = Mark(i, weaviateDone) /\ neo4jDone' = Mark(i, neo4jDone)
    /\ NextIntent
    /\ UNCHANGED <<created, storeVars, persister, purge, faults, histVars>>

\* A write raises: the intent is left as it is and the pass goes on.
ReplayFails ==
    /\ replay.at # {}
    /\ Fault
    /\ NextIntent
    /\ UNCHANGED <<rowVars, storeVars, persister, purge, histVars>>

-----------------------------------------------------------------------------
(* The purge of the channel, and the process.                               *)

\* The stages of the fan-out in their order; ChannelPurge has the lock.
PurgeGraph ==
    /\ purge = "idle"
    /\ graph' = {}
    /\ dropped' = dropped \cup graph
    /\ purge' = "facts"
    /\ UNCHANGED <<rowVars, facts, persister, replay, faults, reported>>

\* delete_by_channel finds the facts that carry the channel.
PurgeFacts ==
    /\ purge = "facts"
    /\ facts' = [i \in Intents |-> IF facts[i] = "owned" THEN "absent" ELSE facts[i]]
    /\ dropped' = dropped \cup {i \in Intents : facts[i] = "owned"}
    /\ purge' = "intents"
    /\ UNCHANGED <<rowVars, graph, persister, replay, faults, reported>>

PurgeIntents ==
    /\ purge = "intents"
    /\ created' = {} /\ weaviateDone' = {} /\ neo4jDone' = {}
    /\ purge' = "over"
    /\ UNCHANGED <<storeVars, persister, replay, faults, histVars>>

\* The process ends: the persister's batch and the reconciler's pass are lost.
Crash ==
    /\ Fault
    /\ persister' = [i \in Intents |-> IF persister[i].pc = "gather"
                                       THEN Persisted ELSE persister[i]]
    /\ replay' = NoReplay
    /\ UNCHANGED <<rowVars, storeVars, purge, histVars>>

Persist(i) == UpsertFacts(i) \/ MarkFacts(i) \/ UpsertGraph(i) \/ MarkGraph(i) \/ Finish(i)

Next ==
    \/ \E i \in Intents : CreateIntent(i) \/ Persist(i) \/ FactsFail(i) \/ GraphFails(i)
    \/ RunOnce \/ ReplayFails
    \/ \E i \in Intents : BeginIntent(i) \/ ReplayFacts(i) \/ MarkReplayedFacts(i)
                          \/ ReplayGraph(i) \/ CompleteIntent(i)
    \/ PurgeGraph \/ PurgeFacts \/ PurgeIntents
    \/ Crash

Spec == Init /\ [][Next]_vars

-----------------------------------------------------------------------------
(* Properties.                                                              *)

\* Every variable has its type.
TypeOK ==
    /\ created \subseteq Intents /\ weaviateDone \subseteq created /\ neo4jDone \subseteq created
    /\ facts \in [Intents -> {"absent", "owned", "unnamed"}] /\ graph \subseteq Intents
    /\ persister \in [Intents -> [pc : {"new", "gather", "done"},
                                  weaviate : {"todo", "written", "ok", "failed"},
                                  neo4j : {"todo", "written", "ok", "failed"}]]
    /\ replay \in [pc : {"idle", "next", "facts", "markfacts", "graph", "complete"},
                   todo : SUBSET Intents, w : SUBSET Intents, g : SUBSET Intents,
                   at : SUBSET Intents]
    /\ purge \in {"idle", "facts", "intents", "over"}
    /\ faults \in 0..MaxFaults
    /\ reported \subseteq Intents /\ dropped \subseteq Intents

\* An intent marked done for the fact store has its facts there, and one
\* marked done for the graph its entities, whatever failed or crashed between
\* the writes and the marks of the persister and of a replay that overlaps it
\* (persister.py 367-773).  The exceptions are data a purge took and a graph
\* failure the persister reported: that intent is completed all the same.
WritesNotForgotten ==
    \A i \in created \ dropped :
        /\ i \in weaviateDone => i \in NoFacts \/ facts[i] # "absent"
        /\ i \in neo4jDone => i \in SkipGraph \cup reported \cup graph
=============================================================================

----------------------------- MODULE Consolidation -----------------------------
(***************************************************************************)
(* Consolidation of one channel that is not being purged, in decoupled     *)
(* mode with deferred summaries: the two-flag debounce of server/app.py,   *)
(* services/pipeline_orchestrator.py, the rebuild of api/topics.py, and    *)
(* what ConsolidationService (services/consolidation.py) does to the fact  *)
(* and cluster rows of the vector store.                                   *)
(*                                                                         *)
(* The facts of an extraction batch are one unit, called by the batch.     *)
(* Which cluster a fact is nearest to, which one is oversized and which    *)
(* two are similar is any choice; the texts of summaries, the links and    *)
(* the wiki maintainer that is told of them are left out.  A row is read   *)
(* and written as a whole, as in the code.                                 *)
(***************************************************************************)
EXTENDS Naturals, FiniteSets

CONSTANTS
    Batches,      \* extraction batches, each announced once
    Clusters,     \* ids of cluster rows; an id nothing refers to is used again
    Runs,         \* bound: consolidation tasks, in the order of creation
    Settles,      \* bound: memory_settled events
    MaxTriggers,  \* bound: runs and rebuilds asked for outside the debounce
    MaxFaults,    \* bound: failed calls
    None

ASSUME ConsolidationAssumption ==
    /\ IsFiniteSet(Batches) /\ IsFiniteSet(Clusters) /\ IsFiniteSet(Settles)
    /\ Runs \in Nat /\ MaxTriggers \in Nat /\ MaxFaults \in Nat
    /\ None \notin Clusters \cup 1..Runs

VARIABLES
    stored,       \* batches whose facts are in the vector store
    clusterOf,    \* cluster_id of a batch's facts, None for "__none__"
    cluster,      \* cluster rows; no members, no row
    running,      \* _consolidation_running[channel]
    pending,      \* _consolidation_pending[channel]
    debounce,     \* pc of each batch's _run_with_debounce task
    gate,         \* channel in _channels_pending_summary
    registered,   \* _consolidation_tasks[channel]: a run or None
    con,          \* the _run_consolidation tasks and the API's rebuilds
    settle,       \* the summarize_settled_for_channel tasks
    triggers,
    faults,
    dropped,      \* history: a summary failed, or a rebuild wrote back a row that
                  \* it had listed before it was summarised
    lost          \* history: a summary was written with members that were no longer
                  \* the row's

factVars  == <<stored, clusterOf, cluster>>
flagVars  == <<running, pending, debounce>>
boundVars == <<triggers, faults, dropped, lost>>
vars == <<factVars, flagVars, gate, registered, con, settle, boundVars>>

Tasks == 1..Runs

NoRow == [members |-> {}, dirty |-> FALSE, summary |-> FALSE]
NoCon == [pc |-> "none", full |-> FALSE, read |-> {}, view |-> [k \in Clusters |-> NoRow],
          to |-> [b \in Batches |-> None], todo |-> {}, keep |-> None, last |-> None]
NoSettle == [pc |-> "none", on |-> None, todo |-> {},
             view |-> [k \in Clusters |-> NoRow]]

Init ==
    /\ stored = {}
    /\ clusterOf = [b \in Batches |-> None]
    /\ cluster = [k \in Clusters |-> NoRow]
    /\ running = FALSE /\ pending = FALSE
    /\ debounce = [b \in Batches |-> "none"]
    /\ gate = FALSE
    /\ registered = None
    /\ con = [t \in Tasks |-> NoCon]
    /\ settle = [s \in Settles |-> NoSettle]
    /\ triggers = 0 /\ faults = 0 /\ dropped = FALSE /\ lost = FALSE

Fault == faults < MaxFaults /\ faults' = faults + 1

Rows(view) == {k \in Clusters : view[k] # NoRow}

\* The rows a task still has to do something with, as they are in the store.
Listed(ks) == [k \in Clusters |-> IF k \in ks THEN cluster[k] ELSE NoRow]

\* get_cluster_members; facts that are not stored yet have no cluster.
FactsOf(k) == {b \in Batches : clusterOf[b] = k}

-----------------------------------------------------------------------------
(* _spawn_consolidation.                                                    *)

Live(r) == con[r].pc \notin {"none", "over"}

Fresh == {r \in Tasks : con[r].pc = "none"}

IsNext(r) == r \in Fresh /\ \A q \in Fresh : r <= q

Start(r) ==
    /\ registered' = r
    /\ con' = [con EXCEPT ![r] = [NoCon EXCEPT !.pc = "policy"]]

\* mutant: a task is created whether or not one is running
SpawnAlways == \E r \in Tasks : IsNext(r) /\ Start(r)

\* A task is created unless the registered one is still running.
Spawn ==
    IF registered # None /\ Live(registered)
    THEN UNCHANGED <<registered, con>>
    ELSE \E r \in Tasks : IsNext(r) /\ Start(r)

-----------------------------------------------------------------------------
(* The subscriber of extraction_done.                                       *)

\* A batch's facts are stored and announced; its debounce task is created.
Announce(b) ==
    /\ b \notin stored
    /\ stored' = stored \cup {b}
    /\ debounce' = [debounce EXCEPT ![b] = "arrive"]
    /\ UNCHANGED <<clusterOf, cluster, running, pending, gate, registered, con,
                   settle, boundVars>>

\* _run_with_debounce: with another task in its loop, pending is set;
\* otherwise this one enters the loop.
Arrive(b) ==
    /\ debounce[b] = "arrive"
    /\ \/ /\ running /\ pending' = TRUE
          /\ debounce' = [debounce EXCEPT ![b] = "over"]
          /\ UNCHANGED running
       \/ /\ ~running
          /\ running' = TRUE /\ pending' = FALSE
          /\ debounce' = [debounce EXCEPT ![b] = "spawn"]
    /\ UNCHANGED <<factVars, gate, registered, con, settle, boundVars>>

\* mutant: the loop ends without looking at pending
LoopOnce(b) ==
    /\ running' = FALSE
    /\ debounce' = [debounce EXCEPT ![b] = "over"]
    /\ UNCHANGED pending

\* The end of a turn of the loop: once more when pending was set meanwhile.
Loop(b) ==
    /\ pending' = FALSE
    /\ running' = pending
    /\ debounce' = [debounce EXCEPT ![b] = IF pending THEN "spawn" ELSE "over"]

\* The policy and the purge snapshot have been read: consolidate_only sets the
\* gate and spawns, without waiting for the task it spawned.
ConsolidateOnly(b) ==
    /\ debounce[b] = "spawn"
    /\ gate' = TRUE
    /\ Spawn
    /\ Loop(b)
    /\ UNCHANGED <<factVars, settle, boundVars>>

\* The policy cannot be resolved: the batch is skipped.
PolicyFails(b) ==
    /\ debounce[b] = "spawn"
    /\ Fault
    /\ Loop(b)
    /\ UNCHANGED <<factVars, gate, registered, con, settle, triggers, dropped, lost>>

\* trigger_consolidation, which the scheduler calls, and on_ingestion_complete.
Trigger ==
    /\ triggers < MaxTriggers /\ triggers' = triggers + 1
    /\ Spawn
    /\ UNCHANGED <<factVars, flagVars, gate, settle, faults, dropped, lost>>

-----------------------------------------------------------------------------
(* _run_consolidation, and the passes over the store that the rebuild shares. *)

Con(t, from, new) == con[t].pc = from /\ con' = [con EXCEPT ![t] = new]

\* mutant: the gate is left to whoever spawned the task
BeginWithoutGate(r) ==
    /\ Con(r, "policy", [con[r] EXCEPT !.pc = "read"])
    /\ UNCHANGED <<factVars, flagVars, gate, registered, settle, boundVars>>

\* The gate is set before the first await of the pass.
Begin(r) ==
    /\ Con(r, "policy", [con[r] EXCEPT !.pc = "read"])
    /\ gate' = TRUE
    /\ UNCHANGED <<factVars, flagVars, registered, settle, boundVars>>

\* get_unclustered_facts.
Unclustered == {b \in stored : clusterOf[b] = None}

\* Without such facts a pass goes on to the links and a rebuild is over.
ReadFacts(t) ==
    /\ Con(t, "read", [con[t] EXCEPT !.read = Unclustered,
                           !.pc = IF Unclustered # {} THEN "list"
                                  ELSE IF con[t].full THEN "over" ELSE "links"])
    /\ UNCHANGED <<factVars, flagVars, gate, registered, settle, boundVars>>

\* An id that stands for a new one: no row, fact or task refers to it.
New(k) ==
    /\ cluster[k] = NoRow /\ FactsOf(k) = {}
    /\ \A t \in Tasks : /\ con[t].view[k] = NoRow
                        /\ k \notin con[t].todo \cup {con[t].last}
                        /\ \A b \in Batches : con[t].to[b] # k
    /\ \A s \in Settles : settle[s].view[k] = NoRow /\ k \notin settle[s].todo

\* The clusters are listed and each fact is given a cluster, an existing or a
\* new one.
ListClusters(t) ==
    /\ \E to \in [con[t].read -> {k \in Clusters : cluster[k] # NoRow \/ New(k)}] :
           Con(t, "list",
               LET touched == {to[b] : b \in con[t].read}
               IN  [con[t] EXCEPT !.pc = "assign", !.view = Listed(touched),
                                  !.to = [b \in Batches |-> IF b \in con[t].read
                                                            THEN to[b] ELSE None],
                                  !.todo = touched])
    /\ UNCHANGED <<factVars, flagVars, gate, registered, settle, boundVars>>

\* batch_update_fact_clusters.
Move(t) == clusterOf' = [b \in Batches |-> IF b \in con[t].read THEN con[t].to[b]
                                           ELSE clusterOf[b]]

AssignFacts(t) ==
    /\ Con(t, "assign", [con[t] EXCEPT !.pc = "upsert"])
    /\ Move(t)
    /\ UNCHANGED <<stored, cluster, flagVars, gate, registered, settle, boundVars>>

Touched(t) == {k \in Clusters : \E b \in con[t].read : con[t].to[b] = k}

\* The row of a touched cluster, as it was listed, with its new members; after
\* the last one a rebuild has the touched clusters to summarise.
UpsertTouched(t) ==
    \E k \in con[t].todo :
        LET rest == con[t].todo \ {k}
            new  == {b \in con[t].read : con[t].to[b] = k}
        IN  /\ Con(t, "upsert",
                   IF rest # {} THEN [con[t] EXCEPT !.todo = rest, !.view[k] = NoRow]
                   ELSE IF con[t].full
                        THEN [NoCon EXCEPT !.pc = "fetch", !.full = TRUE,
                                           !.todo = Touched(t)]
                        ELSE [NoCon EXCEPT !.pc = "links"])
            /\ cluster' = [cluster EXCEPT ![k] =
                   [con[t].view[k] EXCEPT !.members = @ \cup new, !.dirty = TRUE]]
            /\ UNCHANGED <<stored, clusterOf, flagVars, gate, registered, settle,
                           boundVars>>

AfterLinks(t) == [NoCon EXCEPT !.pc = IF con[t].full THEN "over" ELSE "health",
                               !.full = con[t].full]

\* _apply_cross_cluster_links lists the rows and, when there are two or more,
\* writes back those whose links changed.
ListForLinks(t) ==
    /\ \E changed \in SUBSET Rows(cluster) :
           (Cardinality(Rows(cluster)) < 2 => changed = {}) /\ Con(t, "links",
               IF changed = {} THEN AfterLinks(t)
               ELSE [con[t] EXCEPT !.pc = "relink", !.todo = changed,
                                   !.view = Listed(changed)])
    /\ UNCHANGED <<factVars, flagVars, gate, registered, settle, boundVars>>

Stale(row) == row.members # {} /\ (row.dirty \/ ~row.summary)

UpsertLinked(t) ==
    \E k \in con[t].todo :
        LET rest == con[t].todo \ {k}
        IN  /\ Con(t, "relink", IF rest = {} THEN AfterLinks(t)
                                ELSE [con[t] EXCEPT !.todo = rest, !.view[k] = NoRow])
            /\ cluster' = [cluster EXCEPT ![k] = con[t].view[k]]
            /\ dropped' = (dropped \/ (con[t].full /\ Stale(con[t].view[k])))
            /\ UNCHANGED <<stored, clusterOf, flagVars, gate, registered, settle,
                           triggers, faults, lost>>

-----------------------------------------------------------------------------
(* _health_check: no row is ever without members, so none is swept.         *)

ListForHealth(r) ==
    /\ Con(r, "health", [con[r] EXCEPT !.pc = "tidy", !.view = cluster,
                                       !.todo = Rows(cluster)])
    /\ UNCHANGED <<factVars, flagVars, gate, registered, settle, boundVars>>

\* The facts that move to another cluster, and the two rows that follow.
Regroup(r, facts, k, keep, last, view, todo) ==
    Con(r, "tidy", [con[r] EXCEPT !.pc = "move", !.read = facts,
                        !.to = [b \in Batches |-> IF b \in facts THEN k ELSE None],
                        !.keep = keep, !.last = last, !.view = view, !.todo = todo])

\* _split_cluster: half of an oversized cluster's facts go to a new one.
SplitCluster(r) ==
    /\ \E k \in con[r].todo, new \in {n \in Clusters : New(n)} :
       \E half \in SUBSET FactsOf(k) \ {{}, FactsOf(k)} :
           Regroup(r, half, new, k, new,
               [con[r].view EXCEPT
                    ![k]   = [@ EXCEPT !.members = FactsOf(k) \ half, !.dirty = TRUE],
                    ![new] = [members |-> half, dirty |-> TRUE, summary |-> FALSE]],
               con[r].todo \ {k})
    /\ UNCHANGED <<factVars, flagVars, gate, registered, settle, boundVars>>

\* _merge_similar_clusters: b's facts go to a, and b's row with them.  The
\* splits are over by then.
MergeClusters(r) ==
    /\ \E a, b \in Rows(con[r].view) :
           LET both == con[r].view[a].members \cup con[r].view[b].members
           IN  a # b /\ Regroup(r, con[r].view[b].members, a, a, b,
                   [con[r].view EXCEPT ![a] = [@ EXCEPT !.members = both, !.dirty = TRUE],
                                       ![b] = NoRow],
                   {})
    /\ UNCHANGED <<factVars, flagVars, gate, registered, settle, boundVars>>

MoveFacts(r) ==
    /\ Con(r, "move", [con[r] EXCEPT !.pc = "keep"])
    /\ Move(r)
    /\ UNCHANGED <<stored, cluster, flagVars, gate, registered, settle, boundVars>>

UpsertKept(r) ==
    /\ Con(r, "keep", [con[r] EXCEPT !.pc = "last"])
    /\ cluster' = [cluster EXCEPT ![con[r].keep] = con[r].view[con[r].keep]]
    /\ UNCHANGED <<stored, clusterOf, flagVars, gate, registered, settle, boundVars>>

\* Back to the list of rows, in which a split's new one is not.
NextOne(r) == [NoCon EXCEPT !.pc = "tidy", !.todo = con[r].todo,
                            !.view = [con[r].view EXCEPT ![con[r].last] = NoRow]]

\* The new row of a split is written; the emptied one of a merge is deleted.
WriteLast(r) ==
    /\ Con(r, "last", NextOne(r))
    /\ cluster' = [cluster EXCEPT ![con[r].last] = con[r].view[con[r].last]]
    /\ UNCHANGED <<stored, clusterOf, flagVars, gate, registered, settle, boundVars>>

HealthChecked(r) ==
    /\ Con(r, "tidy", [NoCon EXCEPT !.pc = "done"])
    /\ UNCHANGED <<factVars, flagVars, gate, registered, settle, boundVars>>

\* mutant: the registration is left to the next spawn to replace
DoneStaysRegistered(r) ==
    /\ Con(r, "done", [NoCon EXCEPT !.pc = "over"])
    /\ UNCHANGED <<factVars, flagVars, gate, registered, settle, boundVars>>

\* The counter is reset, the activity logged and the registration popped,
\* whichever task it names.
Done(r) ==
    /\ Con(r, "done", [NoCon EXCEPT !.pc = "over"])
    /\ registered' = None
    /\ UNCHANGED <<factVars, flagVars, gate, settle, boundVars>>

Splitting(r) == con[r].pc \in {"move", "keep", "last"} /\ con[r].view[con[r].last] # NoRow

\* A call raises: what has been written stays.  A split that fails is left
\* halfway and the next row is looked at; assign_clusters_only catches the other
\* exceptions and lets the task go on to its end.
RunFails(r) ==
    /\ Live(r) /\ ~con[r].full
    /\ Fault
    /\ \/ /\ con[r].pc \in {"policy", "done"}
          /\ con' = [con EXCEPT ![r] = [NoCon EXCEPT !.pc = "over"]]
          /\ registered' = None
       \/ /\ con[r].pc \notin {"policy", "done"}
          /\ con' = [con EXCEPT ![r] = IF Splitting(r) THEN NextOne(r)
                                       ELSE [NoCon EXCEPT !.pc = "done"]]
          /\ UNCHANGED registered
    /\ UNCHANGED <<factVars, flagVars, gate, settle, triggers, dropped, lost>>

-----------------------------------------------------------------------------
(* The subscriber of memory_settled.                                        *)

Settle(s, from, new) == settle[s].pc = from /\ settle' = [settle EXCEPT ![s] = new]

\* summarize_settled_for_channel: nothing to do without the gate; with it, the
\* gate is taken and a running consolidation is waited for.
Settled(s) ==
    /\ stored # {}
    /\ \/ /\ ~gate
          /\ Settle(s, "none", [NoSettle EXCEPT !.pc = "over"])
          /\ UNCHANGED gate
       \/ /\ gate /\ gate' = FALSE
          /\ \/ /\ registered # None
                /\ Settle(s, "none", [NoSettle EXCEPT !.pc = "await", !.on = registered])
             \/ /\ registered = None
                /\ Settle(s, "none", [NoSettle EXCEPT !.pc = "list"])
    /\ UNCHANGED <<factVars, flagVars, registered, con, boundVars>>

Awaited(s) == con[settle[s].on].pc = "over"

AwaitRun(s) ==
    /\ settle[s].pc = "await" /\ Awaited(s)
    /\ Settle(s, "await", [settle[s] EXCEPT !.pc = "list", !.on = None])
    /\ UNCHANGED <<factVars, flagVars, gate, registered, con, boundVars>>

\* _select_clusters_needing_summary: dirty, or written without a summary.
NeedsSummary(k) == Stale(cluster[k])

ListDirty(s) ==
    LET dirty == {k \in Clusters : NeedsSummary(k)}
    IN  /\ Settle(s, "list", [settle[s] EXCEPT !.todo = dirty,
                                  !.pc = IF dirty = {} THEN "over" ELSE "fetch"])
        /\ UNCHANGED <<factVars, flagVars, gate, registered, con, boundVars>>

\* Before the LLM calls _generate_summaries fetches the rows, and leaves out
\* those that are gone or that no fact belongs to.
Found(todo) == {k \in todo : cluster[k] # NoRow /\ FactsOf(k) # {}}

FetchRows(s) ==
    LET found == Found(settle[s].todo)
    IN  /\ Settle(s, "fetch", IF found = {} THEN [NoSettle EXCEPT !.pc = "over"]
                              ELSE [settle[s] EXCEPT !.pc = "write", !.todo = found,
                                                     !.view = Listed(found)])
        /\ UNCHANGED <<factVars, flagVars, gate, registered, con, boundVars>>

Rest(s, k) ==
    LET rest == settle[s].todo \ {k}
    IN  Settle(s, "write", IF rest = {} THEN [NoSettle EXCEPT !.pc = "over"]
                           ELSE [settle[s] EXCEPT !.todo = rest, !.view[k] = NoRow])

\* The row as it was fetched, clean, with what the LLM gave as its summary.
Summarised(row, given) == [row EXCEPT !.dirty = FALSE, !.summary = given]

WriteSummary(s) ==
    \E k \in settle[s].todo :
        /\ Rest(s, k)
        /\ cluster' = [cluster EXCEPT ![k] = Summarised(settle[s].view[k], TRUE)]
        /\ lost' = (lost \/ cluster[k].members # settle[s].view[k].members)
        /\ UNCHANGED <<stored, clusterOf, flagVars, gate, registered, con, triggers,
                       faults, dropped>>

\* The LLM or the store raises for one cluster, or for the whole pass, or the
\* LLM's answer has no summary in it: the gate is not set again.
SummaryFails(s) ==
    /\ settle[s].pc \in {"list", "fetch", "write"}
    /\ Fault /\ dropped' = TRUE
    /\ \/ \E k \in settle[s].todo :
              /\ Rest(s, k)
              /\ cluster' \in {cluster,
                     [cluster EXCEPT ![k] = Summarised(settle[s].view[k], FALSE)]}
       \/ /\ settle' = [settle EXCEPT ![s] = [NoSettle EXCEPT !.pc = "over"]]
          /\ UNCHANGED cluster
    /\ UNCHANGED <<stored, clusterOf, flagVars, gate, registered, con, triggers, lost>>

-----------------------------------------------------------------------------
(* The API's rebuild, full_reconsolidate in a task of its own: no registry,  *)
(* no gate, no waiting for the tasks that are running.                      *)

Rebuild(t) ==
    /\ triggers < MaxTriggers /\ triggers' = triggers + 1
    /\ IsNext(t)
    /\ Con(t, "none", [NoCon EXCEPT !.pc = "wipe", !.full = TRUE, !.todo = Rows(cluster)])
    /\ UNCHANGED <<factVars, flagVars, gate, registered, settle, faults, dropped, lost>>

\* The listed rows are deleted one by one.
DeleteRow(t) ==
    /\ \E k \in con[t].todo :
           /\ Con(t, "wipe", [con[t] EXCEPT !.todo = @ \ {k}])
           /\ cluster' = [cluster EXCEPT ![k] = NoRow]
    /\ UNCHANGED <<stored, clusterOf, flagVars, gate, registered, settle, boundVars>>

\* The facts' cluster ids are reset, in one batch.
ResetFacts(t) ==
    /\ con[t].todo = {}
    /\ Con(t, "wipe", [con[t] EXCEPT !.pc = "read"])
    /\ clusterOf' = [b \in Batches |-> None]
    /\ UNCHANGED <<stored, cluster, flagVars, gate, registered, settle, boundVars>>

\* _generate_summaries of the touched clusters, as for a settled channel.
FetchTouched(t) ==
    LET found == Found(con[t].todo)
    IN  /\ Con(t, "fetch", IF found = {} THEN [NoCon EXCEPT !.pc = "links", !.full = TRUE]
                           ELSE [con[t] EXCEPT !.pc = "write", !.todo = found,
                                               !.view = Listed(found)])
        /\ UNCHANGED <<factVars, flagVars, gate, registered, settle, boundVars>>

RestOf(t, k) ==
    LET rest == con[t].todo \ {k}
    IN  Con(t, "write", IF rest = {} THEN [NoCon EXCEPT !.pc = "links", !.full = TRUE]
                        ELSE [con[t] EXCEPT !.todo = rest, !.view[k] = NoRow])

WriteTouched(t) ==
    \E k \in con[t].todo :
        /\ RestOf(t, k)
        /\ cluster' = [cluster EXCEPT ![k] = Summarised(con[t].view[k], TRUE)]
        /\ UNCHANGED <<stored, clusterOf, flagVars, gate, registered, settle, boundVars>>

\* A summary fails as above, or a call raises and the rebuild ends where it is.
RebuildFails(t) ==
    /\ Live(t) /\ con[t].full
    /\ Fault
    /\ dropped' = (dropped \/ con[t].pc \in {"upsert", "fetch", "write"})
    /\ \/ \E k \in con[t].todo :
              /\ RestOf(t, k)
              /\ cluster' \in {cluster,
                     [cluster EXCEPT ![k] = Summarised(con[t].view[k], FALSE)]}
       \/ /\ con' = [con EXCEPT ![t] = [NoCon EXCEPT !.pc = "over", !.full = TRUE]]
          /\ UNCHANGED cluster
    /\ UNCHANGED <<stored, clusterOf, flagVars, gate, registered, settle, triggers, lost>>

-----------------------------------------------------------------------------

ClusterStep(t) ==
    \/ ReadFacts(t) \/ ListClusters(t) \/ AssignFacts(t) \/ UpsertTouched(t)
    \/ ListForLinks(t) \/ UpsertLinked(t)

HealthStep(t) ==
    \/ ListForHealth(t) \/ SplitCluster(t) \/ MergeClusters(t) \/ MoveFacts(t)
    \/ UpsertKept(t) \/ WriteLast(t) \/ HealthChecked(t)

RebuildStep(t) == DeleteRow(t) \/ ResetFacts(t) \/ FetchTouched(t) \/ WriteTouched(t)

TaskStep(t) == Begin(t) \/ ClusterStep(t) \/ HealthStep(t) \/ RebuildStep(t) \/ Done(t)

SettleStep(s) == AwaitRun(s) \/ ListDirty(s) \/ FetchRows(s) \/ WriteSummary(s)

Next ==
    \/ \E b \in Batches : Announce(b) \/ Arrive(b) \/ ConsolidateOnly(b) \/ PolicyFails(b)
    \/ Trigger
    \/ \E t \in Tasks : Rebuild(t) \/ TaskStep(t) \/ RunFails(t) \/ RebuildFails(t)
    \/ \E s \in Settles : Settled(s) \/ SettleStep(s) \/ SummaryFails(s)

\* The event loop runs every task on.
Fairness ==
    /\ \A b \in Batches : WF_vars(Arrive(b) \/ ConsolidateOnly(b))
    /\ \A t \in Tasks : WF_vars(TaskStep(t))
    /\ \A s \in Settles : WF_vars(SettleStep(s))

Spec == Init /\ [][Next]_vars /\ Fairness

-----------------------------------------------------------------------------
(* Properties.                                                              *)

Row == [members : SUBSET Batches, dirty : BOOLEAN, summary : BOOLEAN]

ConTask == [pc : {"none", "policy", "wipe", "read", "list", "assign", "upsert",
                  "fetch", "write", "links", "relink", "health", "tidy", "move", "keep",
                  "last", "done", "over"},
            full : BOOLEAN,
            read : SUBSET Batches, view : [Clusters -> Row],
            to : [Batches -> Clusters \cup {None}], todo : SUBSET Clusters,
            keep : Clusters \cup {None}, last : Clusters \cup {None}]

SettleTask == [pc : {"none", "await", "list", "fetch", "write", "over"},
               on : Tasks \cup {None}, todo : SUBSET Clusters,
               view : [Clusters -> Row]]

\* Every variable has its type, and the registered task is a run that goes on.
TypeOK ==
    /\ stored \subseteq Batches
    /\ clusterOf \in [Batches -> Clusters \cup {None}]
    /\ cluster \in [Clusters -> Row]
    /\ running \in BOOLEAN /\ pending \in BOOLEAN
    /\ gate \in BOOLEAN /\ dropped \in BOOLEAN /\ lost \in BOOLEAN
    /\ debounce \in [Batches -> {"none", "arrive", "spawn", "over"}]
    /\ registered \in Tasks \cup {None}
    /\ registered # None => Live(registered) /\ ~con[registered].full
    /\ con \in [Tasks -> ConTask]
    /\ settle \in [Settles -> SettleTask]
    /\ triggers \in 0..MaxTriggers /\ faults \in 0..MaxFaults

\* An event that came while a debounce task was in its loop is not forgotten
\* (server/app.py 811-827): the pending flag is only ever set while exactly one
\* task is left to see it, so one more turn of the loop follows.
PendingIsSeen ==
    /\ pending => running
    /\ Cardinality({b \in Batches : debounce[b] = "spawn"}) = IF running THEN 1 ELSE 0

Summarises(t, k) == \/ con[t].full /\ con[t].pc = "upsert" /\ k \in Touched(t)
                    \/ con[t].pc \in {"fetch", "write"} /\ k \in con[t].todo

\* A cluster that has facts and needs a summary is owed one
\* (pipeline_orchestrator.py 183-192 and 334-352): the channel is in
\* _channels_pending_summary, or a summary pass that took it out has not listed
\* the clusters yet or has this one to do, or a rebuild has it to do.  Only a
\* summary that failed, or a rebuild that wrote back an old row, leaves a dirty
\* cluster nobody will come back to.
DirtyIsOwed ==
    dropped \/ \A k \in Clusters : NeedsSummary(k) /\ FactsOf(k) # {} =>
        \/ gate
        \/ \E s \in Settles : \/ settle[s].pc \in {"await", "list"}
                              \/ settle[s].pc \in {"fetch", "write"} /\ k \in settle[s].todo
        \/ \E t \in Tasks : Summarises(t, k)

Writes(t, k) == \/ con[t].pc = "upsert" /\ k \in con[t].todo
                \/ con[t].pc \in {"keep", "last"} /\ k \in {con[t].keep, con[t].last}

\* A fact is in a cluster that has a row (consolidation.py 433-462, 1828-1843 and
\* 1869-1877): a pass moves the facts before it writes, creates or deletes the
\* rows, and no other pass works from a list of rows that is no longer true.  A
\* call that failed, a rebuild, or a summary that took members out of a row may
\* leave facts behind.
NoOrphans ==
    \/ faults > 0 \/ lost
    \/ \E t \in Tasks : con[t].full
    \/ \A b \in Batches : clusterOf[b] # None =>
           \/ cluster[clusterOf[b]] # NoRow
           \/ \E t \in Tasks : Writes(t, clusterOf[b])

\* The facts of every batch are clustered: after the pass in flight "it drains
\* the pending flag and runs once more, incorporating all facts from the
\* remaining batches" (server/app.py 742-744).
EveryBatchClustered == \A b \in Batches : b \in stored ~> clusterOf[b] # None
=============================================================================

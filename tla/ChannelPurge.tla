----------------------------- MODULE ChannelPurge -----------------------------
(***************************************************************************)
(* The hard purge of a channel (services/channel_deletion.py), its durable *)
(* lock (stores/mongodb_store.py) and the reaper that runs unfinished      *)
(* purges again (services/scheduler.py), composed with the channel's       *)
(* writers: the syncs of ChannelSync and an extraction tick.               *)
(*                                                                         *)
(* One set of facts stands for every derived store (graph, Weaviate, QA    *)
(* history, wiki pages and cache, chat history): each is written for the   *)
(* channel's messages and emptied by a stage of its own in the same way.   *)
(* Connections, policy, timers and media are stages that may only fail.    *)
(***************************************************************************)
EXTENDS ChannelSync

CONSTANT Runs     \* purge_channel calls that may be in flight at once

VARIABLES
    run,          \* the stage each purge_channel call is at, and its errors
    listed,       \* the reaper listed the channel and has not purged it yet
    facts,        \* messages with data in the derived stores
    done,         \* rows whose extraction_status is done
    tick,         \* the extraction tick in flight
    \* history variables
    late,         \* a writer the purge's guards do not stop was in flight
    outlived      \* a lock went stale under a purge that is still running

purgeVars == <<run, listed, facts, done, tick, late, outlived>>
allVars   == <<syncVars, purgeVars>>

NotRunning == [pc |-> "idle", err |-> FALSE]
NoTick     == [pc |-> "idle", batch |-> {}]

InFlight(p) == run[p].pc # "idle"

Init ==
    /\ SyncInit
    /\ run = [p \in Runs |-> NotRunning] /\ listed = FALSE
    /\ facts = {} /\ done = {} /\ tick = NoTick
    /\ late = FALSE /\ outlived = FALSE

-----------------------------------------------------------------------------
(* The lock.                                                                *)

\* mutant: the claim does not look at the lock
ClaimAlways(p) ==
    /\ lock' = "fresh"
    /\ run' = [run EXCEPT ![p] = [pc |-> "cancel", err |-> FALSE]]

\* claim_purge: granted when there is no lock or it is stale.
Claim(p) ==
    /\ lock # "fresh"
    /\ lock' = "fresh"
    /\ run' = [run EXCEPT ![p] = [pc |-> "cancel", err |-> FALSE]]

\* A user asks for the purge; one already in progress is left alone.
RequestPurge(p) ==
    /\ ~InFlight(p)
    /\ Claim(p)
    /\ UNCHANGED <<history, storeVars, active, task, faults, histVars,
                   listed, facts, done, tick, late, outlived>>

\* mutant: the reaper never finds a stale lock
ReaperListsNothing ==
    /\ FALSE
    /\ UNCHANGED allVars

\* _purge_reaper_tick: the stale locks are listed first, and each channel is
\* purged in its turn, whatever became of its lock meanwhile.
ReaperList ==
    /\ lock = "stale" /\ ~listed
    /\ listed' = TRUE
    /\ UNCHANGED <<syncVars, run, facts, done, tick, late, outlived>>

ReaperPurge(p) ==
    /\ listed /\ ~InFlight(p)
    /\ listed' = FALSE
    /\ Claim(p) \/ (lock = "fresh" /\ UNCHANGED <<lock, run>>)
    /\ UNCHANGED <<history, storeVars, active, task, faults, histVars,
                   facts, done, tick, late, outlived>>

\* PURGE_LOCK_STALE_AFTER_S pass.
GoStale ==
    /\ lock = "fresh"
    /\ lock' = "stale"
    /\ outlived' = \E p \in Runs : InFlight(p)
    /\ UNCHANGED <<history, storeVars, active, task, faults, histVars,
                   run, listed, facts, done, tick, late>>

-----------------------------------------------------------------------------
(* The fan-out.                                                             *)

Step(p, pc) == run' = [run EXCEPT ![p].pc = pc]

\* Steps 1-3: cancel_sync ends the registered task, if it runs, and drops the
\* entry; consolidation, connections, policy and timers follow.
Cancel(p) ==
    /\ run[p].pc = "cancel"
    /\ task' = IF IsTaskActive THEN [task EXCEPT ![active] = Quiet] ELSE task
    /\ active' = NoSlot
    /\ late' = \/ \E s \in Slots : task'[s].pc # "idle"
               \/ tick.pc # "idle" \/ outlived
               \/ \E q \in Runs \ {p} : InFlight(q)
    /\ Step(p, "derived")
    /\ UNCHANGED <<history, storeVars, lock, faults, histVars,
                   listed, facts, done, tick, outlived>>

\* Steps 4-9: the derived stores.
PurgeDerived(p) ==
    /\ run[p].pc = "derived"
    /\ facts' = {}
    /\ Step(p, "rows")
    /\ UNCHANGED <<syncVars, listed, done, tick, late, outlived>>

\* mutant: the extraction state of the rows outlives the rows
PurgeRowsOnly(p) ==
    /\ run[p].pc = "rows"
    /\ rows' = {} /\ done' = done
    /\ lost' = {} /\ skipped' = {}
    /\ Step(p, "state")
    /\ UNCHANGED <<history, cursor, jobs, active, task, lock, faults,
                   listed, facts, tick, late, outlived>>

\* Step 10, mongodb.purge_channel: the messages first.  A failure to delete
\* the imported copies is an error, but the aggregator goes on.
PurgeRows(p) ==
    /\ run[p].pc = "rows"
    /\ rows' = {} /\ done' = {}
    /\ lost' = {} /\ skipped' = {}
    /\ \/ Step(p, "state") /\ UNCHANGED faults
       \/ Fault /\ run' = [run EXCEPT ![p] = [pc |-> "state", err |-> TRUE]]
    /\ UNCHANGED <<history, cursor, jobs, active, task, lock,
                   listed, facts, tick, late, outlived>>

\* mutant: the sync state is left in place
PurgeJobsOnly(p) ==
    /\ run[p].pc = "state"
    /\ jobs' = <<>>
    /\ task' = [s \in Slots |-> [task[s] EXCEPT !.stale = NoSlot]]
    /\ Step(p, "audit")
    /\ UNCHANGED <<history, rows, cursor, active, lock, faults, histVars,
                   listed, facts, done, tick, late, outlived>>

\* ... and the sync state with the job rows last.
PurgeState(p) ==
    /\ run[p].pc = "state"
    /\ cursor' = 0 /\ jobs' = <<>>
    /\ task' = [s \in Slots |-> [task[s] EXCEPT !.stale = NoSlot]]
    /\ Step(p, "audit")
    /\ UNCHANGED <<history, rows, active, lock, faults, histVars,
                   listed, facts, done, tick, late, outlived>>

\* Step 11 and the audit record.
Audit(p) ==
    /\ run[p].pc = "audit"
    /\ Step(p, "release")
    /\ UNCHANGED <<syncVars, listed, facts, done, tick, late, outlived>>

\* A stage raises: its error is recorded and the next stage runs.  A raise in
\* the MongoDB aggregator skips the rest of the aggregator.
StageFails(p) ==
    /\ run[p].pc \in {"cancel", "derived", "rows", "state", "audit"}
    /\ Fault
    /\ run' = [run EXCEPT ![p] =
                  [pc |-> CASE @.pc = "cancel"  -> "derived"
                            [] @.pc = "derived" -> "rows"
                            [] @.pc \in {"rows", "state"} -> "audit"
                            [] @.pc = "audit"   -> "release",
                   err |-> TRUE]]
    /\ UNCHANGED <<history, storeVars, active, task, lock, histVars,
                   listed, facts, done, tick, late, outlived>>

\* No stage has failed.
MayRelease(p) == ~run[p].err

\* release_purge after a clean run; it deletes the channel's lock whoever
\* holds it.  With errors, or when the delete fails, the lock is kept.
Release(p) ==
    /\ run[p].pc = "release"
    /\ run' = [run EXCEPT ![p] = NotRunning]
    /\ \/ /\ MayRelease(p)
          /\ lock' = "free" /\ late' = (late \/ outlived)
          /\ UNCHANGED faults
       \/ ~MayRelease(p) /\ UNCHANGED <<lock, late, faults>>
       \/ MayRelease(p) /\ Fault /\ UNCHANGED <<lock, late>>
    /\ outlived' = (outlived /\ \E q \in Runs \ {p} : InFlight(q))
    /\ UNCHANGED <<history, storeVars, active, task, histVars,
                   listed, facts, done, tick>>

-----------------------------------------------------------------------------
(* The extraction tick as a writer of the channel.                          *)

\* mutant: the tick does not ask for the channels being purged
TickUnfiltered == TRUE

TickFilter == ~IsPurging

\* get_purging_channel_ids once per tick; when it fails nothing is filtered.
TickBegin ==
    /\ tick.pc = "idle"
    /\ \/ TickFilter /\ UNCHANGED <<faults, late>>
       \/ IsPurging /\ Fault /\ late' = TRUE
    /\ tick' = [tick EXCEPT !.pc = "claim"]
    /\ UNCHANGED <<history, storeVars, active, task, lock, histVars,
                   run, listed, facts, done, outlived>>

TickClaim ==
    /\ tick.pc = "claim"
    /\ tick' = IF rows \subseteq done THEN NoTick
               ELSE [pc |-> "store", batch |-> rows \ done]
    /\ UNCHANGED <<syncVars, run, listed, facts, done, late, outlived>>

\* Facts are stored whether or not the rows still exist; rows that are gone
\* are not finalized.
TickStore ==
    /\ tick.pc = "store"
    /\ facts' = facts \cup tick.batch
    /\ done' = done \cup (tick.batch \cap rows)
    /\ tick' = NoTick
    /\ UNCHANGED <<syncVars, run, listed, late, outlived>>

-----------------------------------------------------------------------------

RestartAll ==
    /\ Restart
    /\ run' = [p \in Runs |-> NotRunning] /\ listed' = FALSE
    /\ tick' = NoTick /\ outlived' = FALSE
    /\ UNCHANGED <<facts, done, late>>

Stage(p) == Cancel(p) \/ PurgeDerived(p) \/ PurgeRows(p) \/ PurgeState(p)
            \/ Audit(p) \/ Release(p)

Next ==
    \/ SyncWork /\ UNCHANGED purgeVars
    \/ RestartAll \/ ReaperList \/ GoStale \/ TickBegin \/ TickClaim \/ TickStore
    \/ \E p \in Runs : RequestPurge(p) \/ ReaperPurge(p) \/ Stage(p) \/ StageFails(p)

\* A purge in this process is run on, time passes, and the reaper's schedule
\* fires.  Each subscript is a variable that every such step changes.
Fairness ==
    /\ \A p \in Runs : WF_run(Stage(p))
    /\ WF_lock(GoStale) /\ WF_listed(ReaperList)
    /\ WF_listed(\E p \in Runs : ReaperPurge(p))

Spec == Init /\ [][Next]_allVars /\ Fairness

-----------------------------------------------------------------------------
(* Properties.                                                              *)

\* Every variable has its type.
PurgeTypeOK ==
    /\ TypeOK
    /\ run \in [Runs -> [pc : {"idle", "cancel", "derived", "rows", "state",
                                "audit", "release"}, err : BOOLEAN]]
    /\ listed \in BOOLEAN /\ late \in BOOLEAN /\ outlived \in BOOLEAN
    /\ facts \subseteq Timestamps /\ done \subseteq rows
    /\ tick \in [pc : {"idle", "claim", "store"}, batch : SUBSET Timestamps]

\* claim_purge lets one purge of the channel run at a time, and it holds a
\* fresh lock all along, unless a purge outlives the stale window: a user, a
\* second user and the reaper never run the fan-out together otherwise.
OnePurger ==
    ~outlived => \A p, q \in Runs : InFlight(p) /\ InFlight(q) => p = q /\ IsPurging

\* When the lock is released nothing of the channel is left in any store,
\* unless a writer that had passed its guard before the purge was still at
\* work after cancel_sync, or the purge outlived its lock: no start_sync, no
\* tick and no earlier failed run slips in between the stages.
PurgedIsGone ==
    [][lock # "free" /\ lock' = "free"
         => \/ rows = {} /\ facts = {} /\ cursor = 0 /\ jobs = <<>>
            \/ late \/ outlived]_allVars

\* After a purge without such a writer the channel's cursor is as honest as
\* before: a channel that is synced again has no message behind its cursor
\* that the purge took away.
CursorCoversAfterPurge == lock = "free" /\ ~late => CursorCovers

\* A purge that was begun is brought to its end: failed stages, a crash or a
\* lost release leave the lock, which goes stale and is reaped, so that it is
\* always freed again.
PurgeConverges == []<>(lock = "free")
=============================================================================

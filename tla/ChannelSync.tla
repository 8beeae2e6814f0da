------------------------------ MODULE ChannelSync ------------------------------
(***************************************************************************)
(* Syncs of one platform channel: SyncRunner (services/sync_runner.py) and *)
(* the sync_jobs, channel_sync_state and channel_messages collections it   *)
(* writes (stores/mongodb_store.py).  A slot stands for one start_sync     *)
(* call and the background task it launches; slots are used again.         *)
(*                                                                         *)
(* A step is the code between two awaits that others can observe.  Message *)
(* timestamps are positions in the platform's history.  Of a job row only  *)
(* whether it says running is kept (completed, completed_with_errors,      *)
(* failed and orphaned are all final); its counters, its activity log and  *)
(* file-imported channels are left out.                                    *)
(***************************************************************************)
EXTENDS Naturals, Sequences, FiniteSets

CONSTANTS
    Slots,        \* start_sync calls that may be in flight or running at once
    Limit,        \* msg_limit: the policy's max_messages or sync_max_messages
    Page,         \* messages SyncRunner asks fetch_history for (500)
    Cap,          \* messages the platform's bridge returns at most
    Forward,      \* whether the bridge begins at `since` and goes forward
    MaxPosts,     \* bound: messages on the platform
    MaxFaults     \* bound: failed calls, crashes and cancellations

NoSlot == 0

ASSUME SyncAssumption ==
    /\ IsFiniteSet(Slots) /\ Slots \subseteq Nat \ {NoSlot}
    /\ Limit \in Nat \ {0} /\ Page \in Nat \ {0} /\ Cap \in Nat \ {0}
    /\ Forward \in BOOLEAN
    /\ MaxPosts \in Nat /\ MaxFaults \in Nat

VARIABLES
    history,      \* the platform: 0 for a top-level message, else its parent
    rows,         \* channel_messages: timestamps of stored messages
    cursor,       \* last_sync_ts; 0 when the channel has no sync state
    jobs,         \* sync_jobs: slots whose job row is running, oldest first
    active,       \* _active_tasks[channel]: the registered task, or NoSlot
    task,         \* the call or task of each slot
    lock,         \* channel_purge_locks: free, fresh, or stale when older than
                  \* PURGE_LOCK_STALE_AFTER_S
    faults,
    \* history variables
    lost,         \* top-level messages whose last upsert failed
    skipped       \* messages older than the budget a full fetch was cut to

storeVars == <<rows, cursor, jobs>>
histVars  == <<lost, skipped>>
syncVars  == <<history, storeVars, active, task, lock, faults, histVars>>

-----------------------------------------------------------------------------
(* Helpers.                                                                 *)

Timestamps == 1..MaxPosts

\* What fetch_history can return: top-level messages posted so far.
Tops == {t \in DOMAIN history : history[t] = 0}

\* What fetch_thread can return for the parents in S, without the parents.
Replies(S) == {t \in DOMAIN history : history[t] \in S}

\* The n messages of S with the least, and with the greatest timestamps.
Oldest(S, n) == {t \in S : Cardinality({u \in S : u < t}) < n}
Newest(S, n) == {t \in S : Cardinality({u \in S : u > t}) < n}

Greatest(S) == CHOOSE t \in S : \A u \in S : u <= t
Least(S)    == CHOOSE t \in S : \A u \in S : t <= u

Quiet == [pc |-> "idle", full |-> FALSE, since |-> 0, at |-> 0,
          got |-> {}, stale |-> NoSlot]

StartPcs == {"recover", "guard", "close", "mode", "orphan", "insert", "register"}
TaskPcs  == {"fetch", "threads", "upsert", "complete", "advance", "finish"}

Starting(s) == task[s].pc \in StartPcs
Live(s)     == task[s].pc \in TaskPcs

\* _is_task_active: the registered task has not finished.
IsTaskActive == active # NoSlot /\ Live(active)

\* is_purging: a stale lock does not count.
IsPurging == lock = "fresh"

\* The running rows that are left, in their order, when those in gone are final.
Without(seq, gone) ==
    LET kept[i \in 0..Len(seq)] ==
            IF i = 0 THEN <<>>
            ELSE IF seq[i] \in gone THEN kept[i - 1] ELSE Append(kept[i - 1], seq[i])
    IN  kept[Len(seq)]

\* complete_sync_job: by id, whatever the row says; the row of slot s, if it
\* still exists, is final.
CompleteJob(s) == jobs' = Without(jobs, {s})

Goto(s, pc) == task' = [task EXCEPT ![s].pc = pc]

Fault == faults < MaxFaults /\ faults' = faults + 1

\* The slot's call or task is over.
Over(s) == task' = [task EXCEPT ![s] = Quiet]

SyncInit ==
    /\ history = <<>>
    /\ rows = {} /\ cursor = 0
    /\ jobs = <<>>
    /\ active = NoSlot
    /\ task = [s \in Slots |-> Quiet]
    /\ lock = "free"
    /\ faults = 0
    /\ lost = {} /\ skipped = {}

-----------------------------------------------------------------------------
(* The platform.                                                            *)

Post ==
    /\ Len(history) < MaxPosts
    /\ \E parent \in {0} \cup Tops : history' = Append(history, parent)
    /\ UNCHANGED <<storeVars, active, task, lock, faults, histVars>>

-----------------------------------------------------------------------------
(* start_sync.                                                              *)

\* The entry: a channel that is being purged is refused.
Enter(s) ==
    /\ task[s].pc = "idle"
    /\ ~IsPurging
    /\ Goto(s, "recover")
    /\ UNCHANGED <<history, storeVars, active, lock, faults, histVars>>

\* Running jobs older than stale_job_threshold_hours are failed unless a task
\* is active.  A job whose call has not returned yet is younger than that.
RecoverStale(s) ==
    /\ task[s].pc = "recover"
    /\ \E old \in SUBSET {j \in Slots : ~Starting(j)} :
           jobs' = IF IsTaskActive THEN jobs ELSE Without(jobs, old)
    /\ Goto(s, "guard")
    /\ UNCHANGED <<history, rows, cursor, active, lock, faults, histVars>>

\* mutant: a running row refuses the start, whether or not its task lives
GuardByRow(s) ==
    /\ task[s].pc = "guard"
    /\ \/ jobs # <<>> /\ Over(s)
       \/ jobs = <<>> /\ Goto(s, "mode")
    /\ UNCHANGED <<history, storeVars, active, lock, faults, histVars>>

\* get_sync_status prefers the newest running row.  With an active task it
\* refuses the start; without one the row was left behind and is to be closed.
Guard(s) ==
    /\ task[s].pc = "guard"
    /\ \/ jobs # <<>> /\ IsTaskActive /\ Over(s)
       \/ /\ jobs # <<>> /\ ~IsTaskActive
          /\ task' = [task EXCEPT ![s].pc = "close", ![s].stale = jobs[Len(jobs)]]
       \/ jobs = <<>> /\ Goto(s, "mode")
    /\ UNCHANGED <<history, storeVars, active, lock, faults, histVars>>

CloseStale(s) ==
    /\ task[s].pc = "close"
    /\ CompleteJob(task[s].stale)
    /\ task' = [task EXCEPT ![s].pc = "mode", ![s].stale = NoSlot]
    /\ UNCHANGED <<history, rows, cursor, active, lock, faults, histVars>>

\* auto is incremental once there is a sync state; an incremental sync goes on
\* from the cursor.
ReadState(s) ==
    /\ task[s].pc = "mode"
    /\ \E type \in {"auto", "full", "incremental"} :
           LET full == type = "full" \/ (type = "auto" /\ cursor = 0)
           IN  task' = [task EXCEPT ![s].pc = "orphan", ![s].full = full,
                                    ![s].since = IF full THEN 0 ELSE cursor]
    /\ UNCHANGED <<history, storeVars, active, lock, faults, histVars>>

\* create_sync_job: running rows are orphaned, then the new row is inserted.
OrphanRunning(s) ==
    /\ task[s].pc = "orphan"
    /\ jobs' = <<>>
    /\ Goto(s, "insert")
    /\ UNCHANGED <<history, rows, cursor, active, lock, faults, histVars>>

\* The slot now names the new row: who meant its earlier one, which is final,
\* does nothing.
InsertJob(s) ==
    /\ task[s].pc = "insert"
    /\ jobs' = Append(jobs, s)
    /\ task' = [u \in Slots |->
                  IF u = s THEN [task[s] EXCEPT !.pc = "register"]
                  ELSE IF task[u].stale = s THEN [task[u] EXCEPT !.stale = NoSlot]
                  ELSE task[u]]
    /\ UNCHANGED <<history, rows, cursor, active, lock, faults, histVars>>

\* The task is created and registered; the call returns the job id.
Register(s) ==
    /\ task[s].pc = "register"
    /\ active' = s
    /\ task' = [task EXCEPT ![s].pc = "fetch", ![s].at = task[s].since]
    /\ UNCHANGED <<history, storeVars, lock, faults, histVars>>

\* A call of the store, the policy or the connection raises out of start_sync.
StartFails(s) ==
    /\ Starting(s) /\ task[s].pc # "register"
    /\ Fault
    /\ Over(s)
    /\ UNCHANGED <<history, storeVars, active, lock, histVars>>

-----------------------------------------------------------------------------
(* _fetch_then_run: the history, page by page, then the threads.            *)

\* The fetch is over.  An incremental one that found nothing starts again as
\* a full one.
Fetched(s, got) ==
    task' = [task EXCEPT ![s] =
                IF got = {} /\ ~@.full
                THEN [@ EXCEPT !.full = TRUE, !.since = 0, !.at = 0, !.got = {}]
                ELSE [Quiet EXCEPT !.pc = "threads", !.got = got]]

Served == IF Cap < Page THEN Cap ELSE Page   \* messages in a full reply

\* fetch_history with since and order=asc.  Slack takes since for `oldest` and
\* answers with what follows it, the message at the cursor included; Discord
\* drops it, Teams and Mattermost go back from the newest message and cut.
Ahead(at) ==
    IF Forward THEN Oldest({t \in Tops : t >= at}, Served) ELSE Newest(Tops, Served)

\* fetch_history with before, or with no bound, and order=desc.
Behind(at) == Newest({t \in Tops : at = 0 \/ t < at}, Served)

\* The source the paging loops are written for: since is where a page begins,
\* and a short page means that there is nothing older.
PagingSource == Forward /\ Cap >= Page

\* Strictly newer than the cursor, and not fetched before.
Newer(s) == {t \in Ahead(task[s].at) : t > task[s].at} \ task[s].got

\* mutant: the next page is asked for from one message too far
NextAfter(s, got) == [task[s] EXCEPT !.got = got, !.at = Greatest(got) + 1]

NextFrom(s, got) == [task[s] EXCEPT !.got = got, !.at = Greatest(got)]

\* _fetch_all_messages with a cursor: ascending pages, cut to the budget.
FetchNewer(s) ==
    LET batch == Newer(s)
        got   == task[s].got \cup Oldest(batch, Limit - Cardinality(task[s].got))
    IN  /\ task[s].pc = "fetch" /\ task[s].since # 0
        /\ IF batch = {} \/ Cardinality(got) >= Limit
           THEN Fetched(s, got)
           ELSE task' = [task EXCEPT ![s] = NextFrom(s, got)]
        /\ UNCHANGED <<history, storeVars, active, lock, faults, histVars>>

\* _fetch_recent_messages: pages walk back from the newest message until one is
\* shorter than was asked for, and what they collect is cut to the newest Limit.
FetchRecent(s) ==
    LET batch == Behind(task[s].at)
        got   == task[s].got \cup batch
        kept  == Newest(got, Limit)
        spent == Cardinality(got) >= Limit
    IN  /\ task[s].pc = "fetch" /\ task[s].since = 0
        /\ IF Cardinality(batch) < Page \/ spent
           THEN /\ Fetched(s, kept)
                /\ skipped' = skipped \cup {t \in Tops : spent /\ \A u \in kept : t < u}
           ELSE /\ task' = [task EXCEPT ![s].got = got, ![s].at = Least(batch)]
                /\ UNCHANGED skipped
        /\ UNCHANGED <<history, storeVars, active, lock, faults, lost>>

\* _fetch_thread_replies and the channel's name; a thread that cannot be
\* fetched is left out.
FetchThreads(s) ==
    /\ task[s].pc = "threads"
    /\ \/ /\ task' = [task EXCEPT ![s].pc = "upsert", ![s].got = @ \cup Replies(@)]
          /\ UNCHANGED faults
       \/ /\ Fault
          /\ \E p \in task[s].got :
                 /\ Replies({p}) # {}
                 /\ task' = [task EXCEPT ![s].pc = "upsert",
                                         ![s].got = @ \cup Replies(@ \ {p})]
    /\ UNCHANGED <<history, storeVars, active, lock, histVars>>

\* The bridge raises: the job is failed, if that write succeeds.  The entry in
\* _active_tasks stays, with a task that is done.
FetchFails(s) ==
    /\ task[s].pc \in {"fetch", "threads"}
    /\ Fault
    /\ CompleteJob(s) \/ UNCHANGED jobs
    /\ Over(s)
    /\ UNCHANGED <<history, rows, cursor, active, lock, histVars>>

-----------------------------------------------------------------------------
(* _run_sync.                                                               *)

\* upsert_channel_messages, best-effort: on a failure any part of the
\* unordered bulk write may have been applied, and the sync goes on.
Upsert(s) ==
    /\ task[s].pc = "upsert"
    /\ \/ /\ rows' = rows \cup task[s].got
          /\ lost' = lost \ task[s].got
          /\ UNCHANGED faults
       \/ /\ Fault
          /\ \E part \in SUBSET task[s].got :
                 /\ rows' = rows \cup part
                 /\ lost' = (lost \cup (task[s].got \cap Tops)) \ rows'
    /\ Goto(s, "complete")
    /\ UNCHANGED <<history, cursor, jobs, active, lock, skipped>>

\* Inline extraction, if any, and complete_sync_job whatever its outcome.
Complete(s) ==
    /\ task[s].pc = "complete"
    /\ CompleteJob(s)
    /\ Goto(s, "advance")
    /\ UNCHANGED <<history, rows, cursor, active, lock, faults, histVars>>

\* mutant: the cursor is the latest message of all, replies included
AdvanceOverReplies(s) ==
    /\ task[s].pc = "advance"
    /\ cursor' = IF task[s].got = {} THEN cursor ELSE Greatest(task[s].got)
    /\ Goto(s, "finish")
    /\ UNCHANGED <<history, rows, jobs, active, lock, faults, histVars>>

\* The cursor becomes the latest top-level timestamp fetched, whether or not
\* it was stored, and whatever another sync wrote meanwhile.
Advance(s) ==
    /\ task[s].pc = "advance"
    /\ cursor' = LET top == task[s].got \cap Tops
                 IN  IF top = {} THEN cursor ELSE Greatest(top)
    /\ Goto(s, "finish")
    /\ UNCHANGED <<history, rows, jobs, active, lock, faults, histVars>>

\* log_activity, on_ingestion_complete and the finally clause, which pops the
\* channel's entry whichever task it names.
Finish(s) ==
    /\ task[s].pc = "finish"
    /\ active' = NoSlot
    /\ Over(s)
    /\ UNCHANGED <<history, storeVars, lock, faults, histVars>>

\* A step raises: the job is failed, if that write succeeds, and the entry
\* popped.
RunFails(s) ==
    /\ task[s].pc \in {"upsert", "complete", "advance", "finish"}
    /\ Fault
    /\ CompleteJob(s) \/ UNCHANGED jobs
    /\ active' = NoSlot
    /\ Over(s)
    /\ UNCHANGED <<history, rows, cursor, lock, histVars>>

-----------------------------------------------------------------------------
(* The process and the operator.                                            *)

\* The process ends, by shutdown or by a crash, and is started again.
Restart ==
    /\ Fault
    /\ active' = NoSlot
    /\ task' = [s \in Slots |-> Quiet]
    /\ UNCHANGED <<history, storeVars, lock, histVars>>

\* clear_channel_sync_state, as the clear-data endpoint and the reset use it.
ClearSyncState ==
    /\ Fault
    /\ cursor' = 0
    /\ jobs' = <<>>
    /\ task' = [s \in Slots |-> [task[s] EXCEPT !.stale = NoSlot]]
    /\ UNCHANGED <<history, rows, active, lock, histVars>>

StartStep(s) ==
    \/ RecoverStale(s) \/ Guard(s) \/ CloseStale(s) \/ ReadState(s)
    \/ OrphanRunning(s) \/ InsertJob(s) \/ Register(s)

TaskStep(s) ==
    \/ FetchNewer(s) \/ FetchRecent(s) \/ FetchThreads(s) \/ Upsert(s)
    \/ Complete(s) \/ Advance(s) \/ Finish(s)

SyncWork ==
    \/ Post \/ ClearSyncState
    \/ \E s \in Slots : Enter(s) \/ StartStep(s) \/ StartFails(s)
                        \/ TaskStep(s) \/ FetchFails(s) \/ RunFails(s)

SyncNext == SyncWork \/ Restart

\* A call or task of this process is run on by the event loop; the scheduler
\* starts a sync of the channel time and again.
SyncFairness ==
    /\ \A s \in Slots : WF_syncVars(StartStep(s) \/ TaskStep(s))
    /\ WF_syncVars(\E s \in Slots : Enter(s))

SyncSpec == SyncInit /\ [][SyncNext]_syncVars /\ SyncFairness

-----------------------------------------------------------------------------
(* Properties.                                                              *)

Task == [pc : {"idle"} \cup StartPcs \cup TaskPcs, full : BOOLEAN,
         since : 0..MaxPosts, at : 0..MaxPosts,
         got : SUBSET Timestamps, stale : Slots \cup {NoSlot}]

\* Every variable has its type.
TypeOK ==
    /\ history \in Seq(0..MaxPosts) /\ Len(history) <= MaxPosts
    /\ rows \subseteq Timestamps /\ cursor \in 0..MaxPosts
    /\ jobs \in Seq(Slots)
    /\ active \in Slots \cup {NoSlot}
    /\ task \in [Slots -> Task]
    /\ lock \in {"free", "fresh", "stale"} /\ faults \in 0..MaxFaults
    /\ lost \subseteq Timestamps /\ skipped \subseteq Timestamps

\* No top-level message is left behind the cursor (sync_runner.py 1066-1186):
\* each one up to last_sync_ts is stored, unless its own upsert failed or the
\* budget of a full fetch was spent on newer messages, whatever syncs overlap,
\* fail, are restarted or move the cursor back.  An incremental sync never
\* fetches what is behind the cursor, so such a message would be missing for
\* good.  It holds for a PagingSource.
CursorCovers ==
    \A t \in Tops : t <= cursor => t \in rows \cup lost \cup skipped

\* Time and again every top-level message of the platform is stored, but for
\* failed upserts and messages beyond the budget of a full fetch: syncs that refuse, orphan,
\* fail and overtake each other, and cursors that move back, never keep the
\* channel from catching up with a PagingSource.
CatchesUp == []<>(Tops \subseteq rows \cup lost \cup skipped)

\* No job row says running for ever: its task settles it, or a later
\* start_sync fails or orphans what a crash or a failed write left behind.
JobsSettle == []<>(jobs = <<>>)
=============================================================================

# Beever Atlas: a TLA+ verification project

Beever Atlas ingests chat messages, extracts facts from them with an LLM
pipeline, and keeps a wiki per channel up to date with those facts. This
directory holds TLA+ models of the parts of the backend
(`src/src/beever_atlas/`) whose correctness depends on interleaving, failure and
recovery, the TLC configurations that check them, and TLAPS proofs of their
main safety properties.

Paths below are relative to `src/src/beever_atlas/` unless they start with
`src/`. `PROJECT.json` lists every run, mutant, theorem, finding and hazard and
maps each definition to the source lines it models.

## 1. Inventory

### The pipeline

```
 chat platforms -> SyncRunner / push API / file import
                        | upsert_channel_messages
                        v
              channel_messages (MongoDB: the extraction queue)
                        | claim            ^ sweep, reset
                        v                  |
                 ExtractionWorker tick -- finalize
                        | sub-batches
                        v
   BatchProcessor -- CircuitBreaker -- LLM      persister -> Weaviate, graph
                        |
        memory_changed / memory_settled (callbacks)
             |                         |
             v                         v
   WikiMaintainer  --  wiki_dirty_queue     AutoOverviewSubscriber -> WikiBuilder
             |                                          |
             +-------------- wiki_pages ----------------+---- operator (curation mode)
```

### Components

| component | state | operations | what makes it hard | what makes it correct |
|---|---|---|---|---|
| LLM outage breaker (`services/circuit_breaker.py`) | state, failure count, two clock readings | `allow`, `record_success`, `record_failure` | outcomes of calls admitted in an earlier state; probes that never report | never wedged, probes spaced, closes when the provider is back |
| Extraction queue (`stores/mongodb_store.py`, `services/extraction_worker.py`, `services/batch_processor.py`) | row status, attempts, due time, `updated_at`; per tick the claimed rows and sub-batch outcomes | upsert, claim, extract, finalize, announce, settle check, sweep | overlapping ticks, sweep of live ticks, late finalization, partial failure, crash | exclusive claims, bounded retries, a done row's facts are stored or accounted for, nothing announced is lost, no drain goes unnoticed, every row comes to rest |
| Channel reset (`services/channel_deletion.py`) | none of its own | drop derived data, flip rows | runs beside ticks | every message is extracted again |
| Wiki maintainer (`services/wiki_maintainer.py`), dirty queue (`stores/mongodb_store.py`), page store (`wiki/page_store.py`) | durable queue rows, in-memory `_dirty`, one flush task, page rows | on memory changed/settled, flush, `apply_update`, mark done | two copies of the work list, overlapping flushes, read - LLM call - save, restart | a queued fact is written or still queued; nothing is written before the first build; a scheduled flush writes |
| Wiki Builder (`wiki/builder.py`), auto overview (`services/auto_overview_subscriber.py`) | page rows | seed, drain | writes rows the maintainer owns | its flush comes after its build |
| Sync runner (`services/sync_runner.py`) | task registry, job rows, cursor | start, fetch, upsert, finish, cancel | check-then-act across awaits; cursor moves although the upsert failed; a registry entry popped by another task; a bridge that ignores `since` or returns less than it is asked for | from a source that pages forward, no message left behind the cursor and the channel catches up; no job runs for ever |
| Scheduler (`services/scheduler.py`) | schedules | tick, sweep, reaper, policy syncs | jobs may overlap; the reaper acts on a list read before | ticks and syncs recur for ever; an unfinished purge is found |
| Hard purge (`services/channel_deletion.py`, locks in `stores/mongodb_store.py`) | lock with start time | claim, fan-out, audit, release, reap | stale reclaim, release without owner, writers in flight, failing stages | one purger; a released channel is empty; a purge converges |
| Write intents and reconciler (`agents/ingestion/persister.py`, `services/reconciler.py`) | intent with two done flags | create, write, mark, replay | two stores, crash between write and mark, replay against a purge | a mark never runs ahead of its write |
| LLM routing and dispatch (`llm/provider.py`, `services/llm_dispatch.py`) | one breaker per endpoint | resolve, fail over, call, report | breakers are read and not asked; late outcomes | only outages trip a breaker |
| LLM throttle (`services/llm_throttle.py`) | sliding window, cooldown | acquire, sleep, report 429 | callers that wake together, halved limits, oversized requests | the limits hold in every window; nobody waits for room that nobody takes |
| Consolidation (`server/app.py`, `services/pipeline_orchestrator.py`, `services/consolidation.py`, `api/topics.py`) | two flags and a task per channel, a summary gate, fact and cluster rows | debounce, spawn, cluster, link, split, merge, summarize, rebuild | events during a pass, a settle that overtakes it, whole-row writes, a rebuild outside the registry | no event forgotten, no stale cluster left, no fact in a cluster without a row |
| Agents, query, media, vector and graph stores, MCP, bot, web | see `PROJECT.json` | | LLM output, I/O, user interface | not modelled, or seen through the modules above |

Events are plain callbacks: the worker awaits nothing of what they start, and
each event is a task of its own (`server/app.py:541-547`), so `memory_settled`
may overtake a `memory_changed` that was emitted before it. There is one
asyncio event loop per process: code between two awaits is atomic, MongoDB
updates are atomic per document, everything else interleaves.

## 2. Modules

| module | models | proofs | runs |
|---|---|---|---|
| `CircuitBreaker` | breaker and the sub-batch attempts that drive it | `CircuitBreaker_proofs` | `breaker` |
| `RetryQueue` | abstract: a work queue with a retry budget | | |
| `ExtractionQueue` | rows, ticks, sub-batches, sweep, reset, re-delivery, crash; refines `RetryQueue` | `ExtractionQueue_proofs` | `queue_*` |
| `WikiDirtyQueue` | events, durable queue, memory, overlapping flushes, page rows, Builder, operator, crash | `WikiDirtyQueue_proofs` | `wiki` |
| `ChannelSync` | overlapping syncs of a channel: guard, jobs, registry, paged fetch, cursor, restart | `ChannelSync_proofs` | `sync`, `sync_capped` |
| `ChannelPurge` | extends `ChannelSync` by the purge, its lock, the reaper and an extraction tick | `ChannelPurge_proofs` | `purge` |
| `WriteIntents` | persister, reconciler and purge over two stores | `WriteIntents_proofs` | `intents` |
| `LLMDispatch` | choice of the endpoint, throttle, outcome, endpoint breakers | `LLMDispatch_proofs` | `dispatch` |
| `Consolidation` | debounce, orchestrator, clustering, health check, summaries, rebuild | `Consolidation_proofs` | `consolidation`, `consolidation_followup` |
| `MC...` | small instances for TLC | | |

### CircuitBreaker

`allow()` and `record_*()` hold an `asyncio.Lock` around code without awaits:
each is one step. A clock reading is an age that saturates at the bound the
code compares it with; the failure counter saturates at the threshold. A caller
is one sub-batch: it starts, asks `allow()` before every attempt (`AdmitCall`,
`AdmitProbe`, or `Outage` when denied), and ends with at most one recorded
outcome: `Succeed`, `Fail` (counted) or `GiveUp` (an error that is not an outage,
or a cancelled task: nothing is recorded). `GoDown`/`ComeUp` are the provider.

### ExtractionQueue

One action per awaited operation. `Claim` is the loop of `find_one_and_update`
calls of one tick: other ticks that claim in between are the choice of which
claimable rows it gets. A sub-batch succeeds, is halved (its tail is dropped and
`missed`) or fails. A sub-batch that succeeds has its facts stored, or the fact store
failed inside the persister and nobody noticed (`StoreFails`): the facts are then in
a write intent (`owed`), which the reconciler may replay (`Replay`). Rows are finalized by the sub-batch itself
(`FinalizeSubBatch`, errors swallowed) and again by the channel's end
(`FinishChannel`), where success announces the facts. `RaiseChannel` is an
exception out of `process_messages`; its unfinished sub-batches run on as
`stray` work that nobody waits for. `LoseChannel` is a channel task that crashed
and whose repair failed too. `SettleCheck` is the loop at the end of `tick()`.
Finalization admits rows that are `extracting` now, whoever claimed them. A reset
drops the facts and flips the rows in two steps; `dropped` remembers facts it took
from a tick that has still to finalize.

Left out: rows that cannot be turned back into messages (no caller of the upsert
produces them); the progress counters. The purge filter of the claim is in
`ChannelPurge`. How a claim is cut into sub-batches is any partition.

### WikiDirtyQueue

A page row is its curation mode and the facts its prose integrates. A
`memory_changed` event announces one fact, is routed to some pages of a channel
(`Route`), enqueues it page by page (`EnqueueDirty`, which may fail half way) and
mirrors it into `_dirty` (`Mirror`). A flush is the sequence of `_flush_dirty`:
per channel `ClaimUpdate` and `ClaimFind` (the two calls of `claim_dirty`),
`Merge`, `GateCheck` per channel, `Defer`, per page `SkipPage` or `ReadPage` and
then `SavePage` or `RewriteFails` with the LLM call between them, `MarkDone`. The
flush in `_flush_task` and the one that `AutoOverviewSubscriber` runs after a
build may overlap: nothing in the code excludes it.

`Seed` is the Builder's save of a default row, `SetMode` the operator, `Crash` a
restart including `recover_stale_flushing`, whose age threshold is the choice of
which flushing rows it returns. History variables (`written`, `unqueued`, `late`,
`missed`) record what happened to a fact; no guard reads them.

Only auto mode is modelled: in manual mode a settle event returns at once.
`maintain_now`, `apply_pending_updates`, splitting and merging pages, and partial
fact loads are not modelled; `cleanup_done_dirty` has no callers. A drain that an
operator's manual regeneration does not perform is over-approximated: every
build may be followed by one.

### ChannelSync

A slot is one `start_sync` call and the task it launches. The call's steps are
the awaits of `start_sync`: the purge check (`Enter`), the recovery of stale jobs,
the guard (`Guard`: refuse, close a job left behind, or go on), the mode, the two
writes of `create_sync_job`, `Register`. Between the guard and `Register` any other
call may do the same. The task fetches page by page, upwards from the cursor
(`FetchNewer`) or back from the newest message (`FetchRecent`), then threads, the
best-effort `Upsert`, `Complete`, `Advance`, `Finish`, whose `finally` pops the
registry entry whichever task it names. A timestamp is a position in the
platform's history; a message is a top-level message or a reply to one.

What a page holds depends on the bridge (`src/bot/src/bridge.ts`), and two constants
stand for it: `Forward` says whether it begins at `since` and goes forward (Slack
does; Discord ignores `since`, Teams and Mattermost go back from the newest message),
`Cap` how many messages it returns at most (Discord: 100 of the 500 asked for).
`PagingSource == Forward /\ Cap >= Page` is the source the two paging loops are
written for; the properties of the cursor are claimed for it alone. Failures
are a raise of a call (`StartFails`, `FetchFails`, `RunFails`), a bulk write applied
in part, a thread that cannot be fetched, a restart, and the clearing of the sync
state. History variables: `lost` (top-level messages whose upsert failed),
`skipped` (older than the window a full fetch is cut to).

### ChannelPurge

Extends `ChannelSync` and takes all of its actions. `Claim` is the
compare-and-set of `claim_purge` (a lock is free, fresh or stale), the stages are
those of `_purge_fanout` in their order, each of which may fail and let the next run,
`Release` deletes the lock by channel. `ReaperList` and `ReaperPurge` are the two
halves of the reaper. `TickBegin`, `TickClaim`, `TickStore` are an extraction tick
as a writer of the channel, with its filter read once. The derived stores are one
set of facts, because each is written for the channel's messages and emptied by a
stage of its own. History variables: `late` (a writer that no guard of the purge
stops was in flight after `cancel_sync`), `outlived` (a lock went stale under a
running purge).

### WriteIntents

An intent stands for its batch. The persister's two writes run in parallel, each
followed by its mark; `Finish` is what comes after the gather. The reconciler reads
the pending intents with their marks (`RunOnce`), and for each the set of purging
channels (`BeginIntent`), and replays what was not marked. The purge deletes the
graph, the facts that carry the channel, and the intents. The items of an intent are
the extractor's raw output, which carries no channel
(`agents/ingestion/persister.py:189-194` and 228): the reconciler's purge filter finds
nothing to skip, and a fact it replays belongs to no channel. Two constants select
the kinds of batches: without facts, without graph writes.

### LLMDispatch

A member of `Calls` is a call, or (`Recurring`) a caller that makes it again, at most
once in a window (`Again`), so that a bucket need not run empty. A call is resolved
(`Resolve`, `FailOver`, `FallbackUnread`), waits for its bucket
(`Acquire`, `Wake`: one turn of the loop each), and ends with an answer, a 429, a
failure, or because its caller lost patience (`GivesUp`). The arithmetic of
`effective_limits`, `trim` and `_compute_wait` is translated as it stands, over ages
that saturate past the window. The endpoint breakers are here as the dispatcher
uses them: it never calls `allow()`, so they are closed or open.

### Consolidation

Decoupled mode with deferred summaries. A batch is the unit of facts. `Arrive` and
`Loop` are the two-flag debounce, `Spawn` the orchestrator's rule that one task per
channel runs. The task is `assign_clusters_only`: facts without a cluster are read
(`ReadFacts`), clusters listed (`ListClusters`), facts assigned, rows upserted as they
were listed (`UpsertTouched`), links written back (`UpsertLinked`), and the health check,
which moves facts that are clustered: `SplitCluster` and `MergeClusters` are each followed by
the move, the upsert of the cluster that stays and the write of the last row, a new one
after a split, a deleted one after a merge. `Settled` to `WriteSummary` is
`summarize_settled_for_channel` with its gate; it takes clusters that are dirty or
have no summary yet (`NeedsSummary`).

`Rebuild` is `full_reconsolidate` as the API runs it (`api/topics.py:312`): a task of its own, in no
registry, beside whatever runs. It deletes the rows it listed, resets the cluster of
every fact, clusters anew with the same steps as a run (`full` tells them apart),
summarises and links. Which cluster a fact gets, which is oversized, which two are
similar and which rows a linking pass changes are any choice. `lost` and `dropped` are
history variables: a summary was written with members that were no longer the row's;
a summary failed, or a rebuild wrote an old row back.

## 3. Runs

A run takes seconds to three minutes.

| run | bounds | checks |
|---|---|---|
| `breaker` | 2 callers, threshold 2, cooldown 2, lease 3, 1 retry | `TypeOK`, `NeverWedged`, `ProbesSpaced`, `Recovers` |
| `queue_overlap` | 2 rows, 2 ticks, claim size 1, 1 fault, 1 re-delivery, sweep may hit live ticks | `BudgetLeft`, `ClaimExclusive`, `DoneMeansStored`, `NoMissedDrain`, `ImplementsRetryQueue` |
| `queue_recovery` | 2 rows, 1 tick that ends inside the stale window, halving, 1 fault, 1 reset, fairness | `TypeOK`, `DoneMeansStored`, `DoneIsAnnounced`, `ImplementsRetryQueue`, `EveryRowSettles` |
| `queue_settled` | 2 rows, 2 ticks, no fault | `SettledOncePerDrain`, violated (section 4) |
| `wiki` | 2 facts, 1 page, 2 flushes, 1 build, 1 edit, 1 fault, fairness | `TypeOK`, `BuilderFirst`, `QueuedUntilWritten`, `InMemoryUntilWritten`, `ScheduledIsWritten` |
| `sync` | 2 slots, 3 messages, budget 2, pages of 2, a source that pages forward, 1 fault, fairness | `TypeOK`, `CursorCovers`, `CatchesUp`, `JobsSettle` |
| `sync_capped` | 1 slot, budget 3, pages of 2 of which the source returns 1, no fault | `CursorCovers`, violated (section 4) |
| `purge` | 1 slot, 2 purge calls, 1 message, 1 tick, 1 fault, fairness | `PurgeTypeOK`, `OnePurger`, `PurgedIsGone`, `CursorCoversAfterPurge`, `PurgeConverges` |
| `intents` | 2 batches of different kinds, 3 faults, 1 purge | `TypeOK`, `WritesNotForgotten` |
| `dispatch` | 4 calls of which one recurs, primary and fallback, fairness | `TypeOK`, `WindowRespected`, `TripsOnFailures`, `NoStandstill` |
| `consolidation` | 2 batches, 2 clusters, 2 tasks of which one may be a rebuild, 1 settle event, 1 fault | `TypeOK`, `PendingIsSeen`, `DirtyIsOwed`, `NoOrphans` |
| `consolidation_followup` | 2 batches, nothing fails, fairness | `EveryBatchClustered`, violated (section 4) |

@@SIZES@@

What the properties say:

- `NeverWedged`, `ProbesSpaced`, `Recovers`: `allow()` always has the clock
  reading it needs to move on; two probes are a cooldown apart whatever late
  outcomes arrive; once the provider answers for good the breaker closes for
  good.
- `BudgetLeft`: a row that may still run has an attempt left. `ClaimExclusive`:
  two ticks hold one row only after a sweep or a reset took it from a live one.
  `DoneMeansStored`: a done row's facts are stored, or the store failed and they are
  in a write intent, or the row was cut from a halved batch, or a reset took them
  before the row was finalized; nothing else leaves a done row without facts.
  `DoneIsAnnounced`: they were announced, a live tick still will,
  or a fault swallowed it. `NoMissedDrain`: a drained channel is still to be
  checked by somebody, unless a fault took the check. `EveryRowSettles`,
  `ImplementsRetryQueue`: as named.
- `QueuedUntilWritten`: through crash, failure and overlap a fact that reached
  the queue is written, in a row the next claim returns, or came after the claim
  of the flush that marked the row done. `InMemoryUntilWritten`: while nothing
  fails, a fact is written or in memory, where alone a flush looks for its
  channels. `BuilderFirst`: the first-sync gate. `ScheduledIsWritten`: facts that are dirty
  while a flush is scheduled are written.
- `CursorCovers`: from a source that pages forward, each top-level message up to the cursor is stored, unless its
  own upsert failed or a full fetch was cut to newer ones, whatever syncs overlap
  and fail. `CatchesUp`: time and again everything on the platform is stored, with
  the same exceptions. `JobsSettle`: no job row says running for ever.
- `OnePurger`: while no purge outlives the stale window, one runs, under a fresh
  lock. `PurgedIsGone`: at the release nothing of the channel is left, unless a
  writer had passed its guard before the purge and was not cancelled.
  `CursorCoversAfterPurge`: a purge that took the messages took the cursor too.
  `PurgeConverges`: a purge that was begun is brought to its end by the reaper.
- `WritesNotForgotten`: an intent's marks never run ahead of its writes.
- `WindowRespected`: in no window do more calls or tokens reach a provider than
  its limits allow. `TripsOnFailures`: rate limits and impatient callers open no
  breaker. `NoStandstill`: a call ends, or other calls of
  its bucket get through again and again; none waits for room that nobody takes.
- `PendingIsSeen`: an event during the loop is seen by exactly one task.
  `DirtyIsOwed`: a cluster that needs a summary is in the gate, or on the list of a
  summary pass or a rebuild. `NoOrphans`: through assigning, splitting and merging,
  each of which moves facts before it writes or deletes rows, a fact's cluster has a row
  or the task that moved the fact is about to write it. It needs the registry: with two
  runs at once one moves facts to a row that the other has merged away.

Why the bounds suffice for what is asked: a row is overtaken by one other tick,
so two ticks and two rows show every pairwise race; the schedule has two entries,
one retry that waits and the attempt that spends the budget, which waits no more
(`<<1, 0>>`); the stale window is
one clock step, so a sweep can come before or after it; one fault at any point,
and again from every state it leads to, is what the repair code is written for.
For the wiki, two facts are one that is being flushed and one that arrives in
between, two flushes are all that can run beside each other from two callers.
For the syncs, two slots are a sync and the one that passes the guard beside
it, three messages with a budget of two are more than one sync can fetch, and a page
of two that begins with the message at the cursor has to be followed by another. A
page that is cut to the rest of the budget and a full fetch of several pages are beyond
the run: `SyncCursorCovers` is proved for every page size and budget. The purge needs one sync, but two
purges, to have a lock reclaimed. Two batches are enough for a replay of one beside the
persister of the other, since an intent is only ever touched by its own writers
and the purge. Four calls of one primary are more
than its window admits and than its breaker lets fail, so one waits and one finds
the breaker open, with a fallback or without; their estimates fit, fit outside the
cooldown only, and never fit. The first is made again, so the one that never fits meets
both an empty window, which refuses it, and one that is not, which puts it to sleep. The
provider-wide bucket of calls without an endpoint, which works like the others, is
in the proofs only. Two batches are one that is being clustered and one that is
announced meanwhile, two clusters are what a merge needs and, with one unused, what a
split needs; two tasks are a run and a rebuild, or two runs in a row. The queue's runs have
one channel; that channels do not disturb each other is in the proofs, which have any
number.
Ticks and rows are interchangeable, hence the symmetry sets of the safety runs;
the liveness runs use none. `Prompt` is an assumption, not a bound: where it is TRUE a tick
ends inside the stale window. The code's window is 600 s (`services/extraction_worker.py:136`)
and its comment speaks of ticks of 5 to 15 minutes (`:765`), so `EveryRowSettles` does not cover the
slowest of them. The proofs of section 5 have none of these bounds, and cover both
values of `Prompt`.

Each property of a passing run has a mutant: a plausible bug in one mapped
definition that makes the same run fail (section `mutants` of `PROJECT.json`).

### Fairness

`FairSpec` of `CircuitBreaker`: the clock runs; a caller starts, asks and, when
the provider answers, succeeds. Nothing forces failures.
`FairSpec` of `ExtractionQueue`: the scheduler fires tick and sweep for ever
(`services/scheduler.py`), the clock runs and the event loop drives a tick in
flight. Messages, resets and faults are owed to nobody.
`FairSpec` of `WikiDirtyQueue`: the debounce sleep ends, flushes and event tasks
go on. Nothing makes a `memory_settled` come, and no drain is owed.
`SyncFairness` of `ChannelSync`: the event loop runs calls and tasks on, and the
scheduler starts a sync of the channel again and again. `Fairness` of
`ChannelPurge`: a purge in this process is run on, time passes, the reaper's
schedule fires; no user owes a request. `LLMDispatch`: the event loop, the clock,
and LiteLLM's own timeout, which ends every call to a provider; no caller owes another
call. `Consolidation`: the
event loop. `WriteIntents` has none: nothing in the program starts the
reconciler's loop.

## 4. Where the code differs from what it says

Three runs are expected to be violated; the quoted lines are in `findings`.

| run | statement | what happens |
|---|---|---|
| `consolidation_followup` | after the pass in flight the loop "runs once more, incorporating all facts from the remaining batches" (`server/app.py:742-744`) | the loop awaits `consolidate_only`, which only spawns the task; a batch announced after the pass has read its facts finds a running task, and its spawn does nothing (`services/pipeline_orchestrator.py:127`), so its facts wait for the next event |
| `queue_settled` | `memory_settled` "fires exactly once per drain" (`services/extraction_worker.py:336-337`) and "running multiple ticks concurrently is safe" (`:374-375`) | a tick counts the rows of every channel it touched and keeps nothing of what another tick announced: two ticks that touched the channel and reach the count after its last row was finalized both announce the drain |
| `sync_capped` | a full sync fetches "the most recent `msg_limit` messages, paginating BACKWARD" (`services/sync_runner.py:613`), which "every adapter" honours (`:533-535`) | a page shorter than the 500 asked for is taken for the last (`:679`), and the Discord bridge returns 100 (`src/bot/src/bridge.ts:1097`): the cursor is set to the newest message, the older ones are neither stored nor ever fetched. Incrementally the same bridge ignores `since` and returns the newest messages, and the cursor steps over those in between |

The models contain the following behaviours, which differ from a comment or a
document, and which no passing property excludes:

- a row whose tick outlives the stale window is swept each time without counting
  the attempt, so it need not "stay failed" after its retries
  (`services/extraction_worker.py:127`; `EveryRowSettles` is checked for ticks that
  end inside the window);
- a failure of the fact store is swallowed inside the persister
  (`agents/ingestion/persister.py:511-526`) and nobody looks at `persist_result`: the rows
  are done while their facts are only in a write intent, whose replay
  nothing starts, and without their channel once replayed (`owed` in `DoneMeansStored`);
- messages dropped by halving are done, and a re-sync does not change that
  (`services/batch_processor.py:1684`);
- a settle event during a flush is dropped although the drain has already taken
  its snapshot (`services/wiki_maintainer.py:1134`), and rows unknown to memory are
  not picked up by the next flush, which claims only for channels memory names
  (`services/wiki_maintainer.py:1187`);
- the maintainer is called "single-threaded per channel" (`wiki/page_store.py:308`), but the
  debounced flush and the one after a build overlap: each saves the copy of the page it
  read before its LLM call, and the later save takes the facts of the earlier out of
  `last_facts_seen`;
- the Builder's seed writes a default row over frozen pages
  (`src/docs/runbooks/wiki-recompile-skip.md:45`);
- the guard "against concurrent syncs" (`services/sync_runner.py:4`) is passed by
  two calls that start together, and by one that starts after
  `complete_sync_job` of a task that has not ended; the properties of `ChannelSync`
  are those that survive it;
- `inserted` counts `InsertOne` operations only, and the batch consists of upserts
  (`stores/mongodb_store.py:1794`): it is always 0, so a sync never kicks the worker and
  its rows wait for the next tick;
- an endpoint breaker that is open closes only when a call that was sent before
  succeeds, or one whose fallback could not be read: nothing calls `allow()`, and
  the half-open probe that `services/llm_dispatch.py` speaks of never starts;
- during a cooldown a request that fits the configured token limit but not the
  halved one raises instead of waiting (`services/llm_throttle.py:492-502`), but only when it
  finds the window empty: with other calls in it, a request that can never fit sleeps
  a window at a time for as long as they keep coming (`:525-528`, where the comment of
  `:486-491` promises that it will not wait for ever), and as there is no queue a large request that does
  fit may be overtaken again and again (`NoStandstill` says no more than the code gives);
- `WriteReconciler.start_loop` is called nowhere; a graph failure beside a
  successful fact write completes the intent, so the graph is never replayed;
- the reconciler's filter promises that a replay does not bring back what a purge has
  deleted (`services/reconciler.py:63-69`), but goes by a `channel_id` that the items of an intent do not
  have (`agents/ingestion/persister.py:189-194`, 228): a replay beside a purge undoes it, and
  what it writes has no channel, so no later purge finds it;
- `_generate_summaries` writes back the row it fetched before its LLM call
  (`services/consolidation.py:1466`): members that a run added meanwhile are overwritten
  (`lost`). Nothing has failed then, but a later merge moves the members the row
  names and deletes the row, and the other facts stay in a cluster that no longer exists;
- the API's rebuild runs outside the registry of `_spawn_consolidation`
  (`api/topics.py:312`): beside a run, rows it has deleted are written back from that run's list,
  rows it has summarised are replaced by stale ones, and facts are left in clusters without a
  row (excused in `NoOrphans`). `trigger_consolidation`, whose docstring says it is used by the API
  (`services/pipeline_orchestrator.py:258`), is called by the scheduler only
  (`services/scheduler.py:549`).

Other windows are named by the passing properties, which say that they are the
only ones:

- the sweep goes by age and takes rows from a live, slow tick, so a row can be
  extracted twice (`broken` in `ClaimExclusive`);
- `finalize_extraction_status_bulk` does not ask who claimed a row: after a reset
  a tick from before it can finalize a row claimed since, whose facts are gone
  (`dropped` in `DoneMeansStored`);
- `mark_dirty_done` does not look at the row it marks, so a fact enqueued during
  a flush is marked done with it (`missed` in `QueuedUntilWritten`);
- the breaker does not know whose failure it records: an old call's failure ends
  another task's half-open state, so a second probe may start, a cooldown later,
  while the first still runs (`ProbesSpaced` is what holds).
- the upsert of a sync is best-effort and the cursor moves on all the same
  (`lost` in `CursorCovers`);
- a sync, a tick or a replay that asked about the purge before it began writes
  after the deletion (`late`), and `release_purge` does not know whose
  lock it deletes (`outlived`);
- the reaper purges what it listed, although the lock may have been released or
  reclaimed meanwhile: `claim_purge` then refuses a fresh lock, but grants a free
  one, so a channel that was purged may be purged once more;
- a summary pass that fails does not put the channel back into the gate
  (`dropped` in `DirtyIsOwed`). The gate is process memory: a restart, which the model leaves
  out, loses it as well.

## 5. Proofs

All theorems hold for every value of the constants under the named assumptions
(`BreakerAssumption`, `QueueAssumption`, `WikiAssumption`, `SyncAssumption`,
`IntentAssumption`, `DispatchAssumption`, `ConsolidationAssumption`: types of the
parameters, finite sets where something is counted, a non-empty backoff schedule,
positive limits and bounds for the clock).

**CircuitBreaker_proofs.** `BreakerTypeCorrect`, `BreakerNeverWedged`,
`BreakerProbesSpaced`. `ProbesSpaced` speaks of a history clock, the invariant of
the breaker's own clock; they are tied together by `CooldownFollowsProbe`: while
the breaker is open its cooldown was restarted no earlier than the last probe was
admitted.

**ExtractionQueue_proofs.** The core `QueueInv` (types, `BudgetLeft`, fresh rows
have spent nothing, outcomes are of held rows) is inductive on its own and gives
`QueueTypeCorrect` and `QueueBudgetLeft`. Four invariants are inductive relative
to it: `ClaimInv` (adds that a held, unbroken row is extracting or finalized
early), `NoMissedDrain`, `DoneIsAnnounced`, and `StoredInv` (adds that
successful sub-batches left their facts in a place that accounts for them: the store, a
write intent, the rows cut by halving or those a reset took; these together only
lose what a reset is about to flip). None of them restricts ticks, faults or resets.
`QueueImplementsRetryQueue` shows that every step moves each row as `RetryQueue`
allows (`RowStep`, then `RowRefines`).

**WikiDirtyQueue_proofs.** `WikiInv` has one conjunct per place a fact can be:
`RoutedQueued` (on its way into the queue), `RowsCovered` (a done row holds only
written or late facts), `ClaimsCovered` (a claimed row's facts are in the
snapshot until the page is dealt with, and in the page once the row is to be
marked done), `SeenWritten` (needed because a page whose facts are all seen is
skipped, and because of the copy of the row held during the LLM call),
`GateCovers` and `NotCurated` for the two conditional properties. It gives
`WikiQueuedUntilWritten`, `WikiInMemoryUntilWritten`, `WikiBuilderFirst`;
`WikiTypeCorrect` is separate.

**ChannelSync_proofs.** `SyncCursorCovers`, for a `PagingSource` (the only assumption
about the source, and a false one of the Discord bridge: section 4). A cursor is moved to the newest
message of a fetch, so `SyncInv` says of every sync what its fetch has accounted
for at its step: the pages fetched upwards leave no gap above the cursor it began
with (`NewerKnows`), the pages fetched backwards none between the oldest and the
newest (`RecentKnows`), after the fetch every older message is fetched, stored or
excused (`FetchedKnows`), and after the upsert the new cursor covers
(`StoredKnows`). Nothing a sync knows is undone by another, because the messages that
are stored or excused (`Accounted`) only grow; that is why overlapping syncs, which
the guard admits, leave no message behind. `SyncTyped` needs a fact about data:
closing a job takes it out of the list (`Without`), and what is left is again a
sequence of jobs (`WithoutType`, by induction over the length of the list).

**ChannelPurge_proofs.** `PurgeOnePurger`: mutual exclusion under the lock until a
purge outlives it, by the lock invariant itself with the types of the calls; no
step of a sync or a tick touches the lock. `PurgeTyped` adds the types of the sync.
`PurgeLeavesNothing` is about a call that is past cancel_sync, has met no failure,
no late writer and no end of its lock (`Clean`): `GoneInv` says that then nobody
writes to the channel (`Still`) and that what its stages have emptied is empty
(`Emptied`). It is inductive because under a fresh lock the guards stop every sync
and tick that begins (`StillSyncs`), and with one purger no other call's stage, release
or cancellation intervenes. `PurgeCursorCovers` carries
`SyncInv`, and with it the `PagingSource`, over a purge: it is
given up while the lock is taken and holds again at the release, where no row is
left, the cursor is at zero and no sync remembers anything (`ReleaseCovers`); `IdleQuiet`
and `FreeIsIdle` say that no slot and no call keeps something from before.

**WriteIntents_proofs.** `IntentsTypeCorrect`; `IntentsWritesNotForgotten` from
`MarksInv`, which adds that a persister and a replay have written what they are
about to mark and that the marks a replay read were true.

**LLMDispatch_proofs.** `DispatchTypeCorrect`, of which the sleep is the part that
needs an argument: the minimum over the entries exists and is within the window.
`DispatchTripsOnFailures` from `Counted`: a breaker's counter is at most the number
of its failed calls, and an open breaker has counted up to the threshold; a caller
that calls again (`AgainMoves`) has not failed.
`DispatchWindowRespected` from `RateInv`: no call let through within the window is
missing from its bucket (`Entered`), and the entries inside the window are within
`rpm_limit` and `tpm_limit` (`WithinRpm`, `WithinTpm`). The tokens of a set are a fold;
that it exists, is a number, is the same whichever call is taken first and grows
with the set (`SumExists` to `TokensOfFewer`) is proved once, for all finite sets of
calls.

**Consolidation_proofs.** `ConsolidationTypeCorrect` from `TaskInv`: the registered task is
a run that goes on, any other task that is not over is a rebuild, and each record fits
its step; `TaskMoves` says which steps lead where, once, for all actions.
`ConsolidationPendingIsSeen` from `Turn` (the loop holds one task or none, as `running` says).
`ConsolidationDirtyIsOwed` from `Waits`, that a run past its first step works under the gate or
under a summary pass that took the gate and waits for that very task, and `AllPaid`,
which pays for every stale cluster; a rebuild is the case that needs care, since it is
owed nothing by the gate and pays for what it writes itself (`RebuildNeeds`).
`ConsolidationNoOrphans` from `OrphanInv`: as long as nothing is excused, every clustered fact is a
member of its row or a live task brings it there (`Backed`), and what a run has listed is
what the store holds, for the rows it still works with (`ViewKnows`). One run at a time
is why a run's list stays true; members, not only the existence of a row, are in the
invariant because a merge moves the members the row names.

Induction over data. The library's induction theorems take an operator, which the
provers cannot instantiate. Two lemmas state induction with a set in place of the
predicate and derive it from the existence of a minimal element: `AllNaturals` (a set
that holds 0 and is closed under successor holds every natural number) and
`SubsetsAll` (the same for the subsets of a finite set, removing an element).
`Without` and the token sum are reasoned about with them.

Only model-checked: the liveness properties (`Recovers`, `EveryRowSettles`,
`ScheduledIsWritten`, `CatchesUp`, `JobsSettle`, `PurgeConverges`, `NoStandstill`),
which need fairness and `ENABLED`. `EveryBatchClustered` and `SettledOncePerDrain` are violated by the
code, `CursorCovers` by a source that is not a `PagingSource`. Every safety property that a
passing run checks is also a theorem, `CursorCovers` and `CursorCoversAfterPurge` for a `PagingSource`,
the others without conditions.

## 6. Plan

Proofs still to be made: a per-channel abstraction of the sync and the purge (a log
with a cursor, and its reset) that `ChannelSync` and `ChannelPurge` refine, as the
queue refines `RetryQueue`; and the safety steps towards the liveness properties
(what a fair step is bound to change), which the provers can check without the
temporal argument.

Further modelling, none of which changes the modules above: `maintain_now`,
`apply_pending_updates` and partial fact loads in `WikiDirtyQueue`;
`IngestToWiki`, the composition of the queue and the wiki through the two events;
push idempotency keys (`api/sources.py`) and file-imported channels
(`_start_file_sync`); `cancel_consolidation` and a restart of the process during
consolidation; the write intents of `WriteIntents` as the `owed` facts of the queue.

## 7. Not modelled

LLM agents and everything that is text (prompts, rendering, JSON repair, wiki
page structure and compilation), similarity decisions (deduplication,
contradictions, the choice of a cluster), media conversion, the clients of
external databases, request authentication and rate limits, the transport of the platform
adapters, the bot's commands and the web front end: their behaviour is opaque or pure input and
output, and the parts above see only its outcome (a sub-batch succeeds or fails,
a message is delivered, a call raises). This is most of the repository's text:
the wiki compiler and renderers, the query agents and their streaming API, the
store clients and the adapters make up the bulk of its hundred thousand lines,
and their state is either a document built by a model or a row they pass on. The
modelled lines are few beside them, and hold the program's protocols.

Within the modelled parts: counters, activity logs, metrics and settings;
`cleanup_done_dirty`, which has no callers; the embedding migration, one guarded
background task that touches none of the queues; timers that are re-registered
when a policy changes.

## 8. Running the checks

```
tlc -config MCExtractionQueueOverlap.cfg MCExtractionQueue
tlapm ExtractionQueue_proofs.tla
```

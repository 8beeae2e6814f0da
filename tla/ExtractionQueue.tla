---------------------------- MODULE ExtractionQueue ----------------------------
(***************************************************************************)
(* The durable extraction queue: rows of the channel_messages collection   *)
(* (stores/mongodb_store.py), the ExtractionWorker ticks that drain it     *)
(* (services/extraction_worker.py), the sub-batches a tick runs            *)
(* (services/batch_processor.py), the stale sweep, re-delivery of a        *)
(* message by a sync, and the administrator's channel reset                *)
(* (services/channel_deletion.py).                                         *)
(*                                                                         *)
(* Every MongoDB update is atomic per row; a step of this specification is *)
(* the code between two awaits whose order other actors can observe.       *)
(* Clock readings are countdowns (wait) or ages that saturate at the bound *)
(* they are compared with.  No channel is being purged: the purge lock and *)
(* the claim's filter on it are outside this module.                       *)
(***************************************************************************)
EXTENDS Integers, Sequences, FiniteSets

CONSTANTS
    Msgs,         \* message rows, identified by (source, channel, message)
    Channels,
    ChannelOf,    \* the channel of each row
    Ticks,        \* worker ticks that may be in flight at the same time
    ClaimSize,    \* sync_batch_size * ingest_batch_concurrency
    Schedule,     \* _RETRY_BACKOFF_SCHEDULE, in clock steps
    StaleAfter,   \* _STALE_SECONDS, in clock steps
    MaxFaults,    \* bound: crashes and failed MongoDB calls
    MaxResets,    \* bound: administrator resets
    MaxRedeliveries, \* bound: re-deliveries of an existing message
    Halving,      \* whether an LLM reply may be truncated into halving a batch
    Prompt        \* whether a live tick always finishes inside StaleAfter

MaxRetries == Len(Schedule)   \* _MAX_RETRIES

ASSUME QueueAssumption ==
    /\ ChannelOf \in [Msgs -> Channels]
    /\ Schedule \in Seq(Nat)
    /\ MaxRetries \in Nat \ {0}
    /\ ClaimSize \in Nat \ {0}
    /\ StaleAfter \in Nat \ {0}
    /\ MaxFaults \in Nat /\ MaxResets \in Nat /\ MaxRedeliveries \in Nat
    /\ Halving \in BOOLEAN /\ Prompt \in BOOLEAN

VARIABLES
    \* channel_messages
    status,       \* extraction_status, "absent" before the first upsert
    attempts,     \* attempt_count
    wait,         \* clock steps until next_attempt_at
    age,          \* clock steps since updated_at
    settled,      \* rows past the settle window after created_at
    \* one record per tick, all in process memory
    held,         \* rows the tick claimed and has not finalized
    seen,         \* attempt_count read at the claim
    ok,           \* held rows whose sub-batch succeeded
    bad,          \* held rows whose sub-batch failed
    toCheck,      \* channels whose settlement check is still to come
    \* sub-batches left running when process_messages raised: nobody waits
    stray,        \* rows whose stray sub-batch is still extracting
    strayOk,      \* rows whose stray sub-batch stored facts, not yet finalized
    \* derived stores and the reset in progress
    facts,        \* rows whose facts are in the fact store
    owed,         \* rows whose facts are in a write intent left pending
    resetting,    \* channels whose reset dropped the facts, rows not flipped
    \* bounded environment
    faults, resets, redeliveries,
    \* history
    missed,       \* rows cut from their batch by halving, in no later batch
    dropped,      \* rows a reset took the facts of after they were extracted and
                  \* before they were finalized
    announced,    \* rows whose facts a memory_changed event announced
    swallowed,    \* rows whose memory_changed a fault or a raise swallowed
    unchecked,    \* channels whose settlement check a fault swallowed
    broken,       \* rows swept or reset while a live tick held them
    dirty         \* channels with a row finalized since the last memory_settled

rowVars  == <<status, attempts, wait, age, settled>>
tickVars == <<held, seen, ok, bad, toCheck>>
strayVars == <<stray, strayOk>>
storeVars == <<facts, owed, resetting>>
envVars  == <<faults, resets, redeliveries>>
histVars == <<missed, dropped, announced, swallowed, unchecked, broken, dirty>>
vars     == <<rowVars, tickVars, strayVars, storeVars, envVars, histVars>>

-----------------------------------------------------------------------------
(* Helpers.                                                                 *)

Rows(ch) == {m \in Msgs : ChannelOf[m] = ch}

\* _retry_backoff_seconds
Backoff(n) ==
    IF n <= 0 THEN Schedule[1]
    ELSE IF n <= Len(Schedule) THEN Schedule[n] ELSE Schedule[Len(Schedule)]

Idle(t) == held[t] = {} /\ toCheck[t] = {}

Touched(t) == {ChannelOf[m] : m \in held[t]} \cup toCheck[t]

\* Mutants of the claim filter: one retry too many; rows in flight included.
ClaimableBeyondBudget(m) ==
    /\ status[m] = "pending" \/ (status[m] = "failed" /\ attempts[m] <= MaxRetries)
    /\ wait[m] = 0
    /\ m \in settled

ClaimableInFlight(m) ==
    /\ \/ status[m] \in {"pending", "extracting"}
       \/ status[m] = "failed" /\ attempts[m] < MaxRetries
    /\ wait[m] = 0
    /\ m \in settled

\* The claim filter: pending, or failed with retry budget left; due; settled.
Claimable(m) ==
    /\ \/ status[m] = "pending"
       \/ status[m] = "failed" /\ attempts[m] < MaxRetries
    /\ wait[m] = 0
    /\ m \in settled

\* count_channel_messages_by_status: nothing pending, nothing extracting.
Drained(ch) == \A m \in Rows(ch) : status[m] \notin {"pending", "extracting"}

Init ==
    /\ status = [m \in Msgs |-> "absent"]
    /\ attempts = [m \in Msgs |-> 0]
    /\ wait = [m \in Msgs |-> 0]
    /\ age = [m \in Msgs |-> 0]
    /\ settled = {}
    /\ held = [t \in Ticks |-> {}]
    /\ seen = [t \in Ticks |-> [m \in Msgs |-> 0]]
    /\ ok = [t \in Ticks |-> {}]
    /\ bad = [t \in Ticks |-> {}]
    /\ toCheck = [t \in Ticks |-> {}]
    /\ stray = {} /\ strayOk = {}
    /\ facts = {} /\ owed = {} /\ resetting = {}
    /\ faults = 0 /\ resets = 0 /\ redeliveries = 0
    /\ missed = {} /\ dropped = {} /\ announced = {} /\ swallowed = {} /\ unchecked = {}
    /\ broken = {} /\ dirty = {}

-----------------------------------------------------------------------------
(* Delivery of messages: upsert_channel_messages.                           *)

\* A new message: $setOnInsert writes the queue fields.
Insert(m) ==
    /\ status[m] = "absent"
    /\ status' = [status EXCEPT ![m] = "pending"]
    /\ age' = [age EXCEPT ![m] = 0]
    /\ UNCHANGED <<attempts, wait, settled, tickVars, strayVars, storeVars,
                   envVars, histVars>>

\* A message the collection already has: only the content and updated_at.
Redeliver(m) ==
    /\ status[m] # "absent"
    /\ redeliveries < MaxRedeliveries
    /\ redeliveries' = redeliveries + 1
    /\ age' = [age EXCEPT ![m] = 0]
    /\ UNCHANGED <<status, attempts, wait, settled, tickVars, strayVars, storeVars, faults,
                   resets,
                   missed, dropped, announced, swallowed, unchecked, broken, dirty>>

-----------------------------------------------------------------------------
(* A worker tick.                                                           *)

\* claim_pending_messages_for_extraction: a find_one_and_update per row.  The
\* loop's interleaving with other ticks is the choice of S among the
\* claimable rows; attempt_count is read and not reset.
Claim(t, S) ==
    /\ Idle(t)
    /\ S # {} /\ Cardinality(S) <= ClaimSize
    /\ \A m \in S : Claimable(m)
    /\ status' = [m \in Msgs |-> IF m \in S THEN "extracting" ELSE status[m]]
    /\ age' = [m \in Msgs |-> IF m \in S THEN 0 ELSE age[m]]
    /\ held' = [held EXCEPT ![t] = S]
    /\ seen' = [seen EXCEPT ![t] = [m \in Msgs |-> IF m \in S THEN attempts[m] ELSE 0]]
    /\ UNCHANGED <<attempts, wait, settled, ok, bad, toCheck, strayVars, storeVars,
                   envVars, histVars>>

\* The claim loop raised half way: the rows claimed so far belong to nobody.
ClaimFails(t, S) ==
    /\ Idle(t)
    /\ S # {} /\ Cardinality(S) <= ClaimSize
    /\ \A m \in S : Claimable(m)
    /\ faults < MaxFaults
    /\ faults' = faults + 1
    /\ status' = [m \in Msgs |-> IF m \in S THEN "extracting" ELSE status[m]]
    /\ age' = [m \in Msgs |-> IF m \in S THEN 0 ELSE age[m]]
    /\ UNCHANGED <<attempts, wait, settled, tickVars, strayVars, storeVars,
                   resets, redeliveries, histVars>>

\* The rows of a sub-batch: some rows of one channel not yet processed.
SubBatch(t, ch, S) ==
    /\ S # {}
    /\ S \subseteq (held[t] \cap Rows(ch)) \ (ok[t] \cup bad[t])

\* A sub-batch of the rows S reports success; the rows in cut were dropped from
\* it when it was halved.  Either the persister has stored its facts.
Stores(S, cut) ==
    /\ facts' = facts \cup (S \ cut)
    /\ missed' = (missed \ (S \ cut)) \cup (cut \ facts)
    /\ dropped' = dropped \ (S \ cut)
    /\ UNCHANGED <<owed, faults>>

\* Or the fact store failed: the persister's gather turns the exception into an
\* entry of persist_result nobody looks at, and the intent stays pending.
StoreFails(S, cut) ==
    /\ faults < MaxFaults
    /\ faults' = faults + 1
    /\ owed' = owed \cup (S \ cut)
    /\ missed' = missed \cup (cut \ facts)
    /\ UNCHANGED <<facts, dropped>>

Extract(t, S, cut) ==
    /\ Stores(S, cut) \/ StoreFails(S, cut)
    /\ ok' = [ok EXCEPT ![t] = @ \cup S]
    /\ UNCHANGED <<rowVars, held, seen, bad, toCheck, strayVars, resetting, resets,
                   redeliveries, announced, swallowed, unchecked, broken, dirty>>

SubBatchSucceeds(t, ch, S) == SubBatch(t, ch, S) /\ Extract(t, S, {})

SubBatchHalved(t, ch, S, cut) ==
    /\ Halving
    /\ SubBatch(t, ch, S)
    /\ cut # {} /\ cut \subseteq S /\ cut # S
    /\ Extract(t, S, cut)

\* Mutant: the failure is not written to the breakdown's error.
SubBatchFailsQuietly(t, ch, S) ==
    /\ SubBatch(t, ch, S)
    /\ ok' = [ok EXCEPT ![t] = @ \cup S]
    /\ UNCHANGED <<rowVars, held, seen, bad, toCheck, strayVars, storeVars,
                   envVars, histVars>>

SubBatchFails(t, ch, S) ==
    /\ SubBatch(t, ch, S)
    /\ bad' = [bad EXCEPT ![t] = @ \cup S]
    /\ UNCHANGED <<rowVars, held, seen, ok, toCheck, strayVars, storeVars,
                   envVars, histVars>>

\* Mutant: the bulk update matches the key and not the status.
FinalizableAny(S) == S

\* finalize_extraction_status_bulk admits only rows that are extracting NOW;
\* it does not ask who claimed them.
Finalizable(S) == {m \in S : status[m] = "extracting"}

FinalizeDone(S) ==
    /\ status' = [m \in Msgs |-> IF m \in Finalizable(S) THEN "done" ELSE status[m]]
    /\ age' = [m \in Msgs |-> IF m \in Finalizable(S) THEN 0 ELSE age[m]]
    /\ UNCHANGED <<attempts, wait>>

\* done for the rows in S, then _finalize_failed for the rows in F: one more
\* attempt, and the backoff of the attempt count read at the claim.
Finalize(t, S, F) ==
    /\ status' = [m \in Msgs |-> IF m \in Finalizable(S) THEN "done"
                                 ELSE IF m \in Finalizable(F) THEN "failed" ELSE status[m]]
    /\ age' = [m \in Msgs |-> IF m \in Finalizable(S \cup F) THEN 0 ELSE age[m]]
    /\ attempts' = [m \in Msgs |-> IF m \in Finalizable(F) THEN attempts[m] + 1 ELSE attempts[m]]
    /\ wait' = [m \in Msgs |-> IF m \in Finalizable(F) THEN Backoff(seen[t][m] + 1) ELSE wait[m]]

\* The sub-batch finalizes its own rows before the tick ends.  A MongoDB
\* error here is swallowed, so the step may also never happen.
FinalizeSubBatch(t, S) ==
    /\ S \subseteq ok[t]
    /\ Finalizable(S) # {}
    /\ FinalizeDone(S)
    /\ dirty' = dirty \cup {ChannelOf[m] : m \in Finalizable(S)}
    /\ UNCHANGED <<settled, tickVars, strayVars, storeVars, envVars,
                   missed, dropped, announced, swallowed, unchecked, broken>>

\* The tick lets go of its rows of ch and will check the channels in C.
LetGo(t, ch, C) ==
    /\ held' = [held EXCEPT ![t] = @ \ Rows(ch)]
    /\ ok' = [ok EXCEPT ![t] = @ \ Rows(ch)]
    /\ bad' = [bad EXCEPT ![t] = @ \ Rows(ch)]
    /\ seen' = [seen EXCEPT ![t] = [m \in Msgs |-> IF m \in Rows(ch) THEN 0 ELSE @[m]]]
    /\ toCheck' = [toCheck EXCEPT ![t] = @ \cup C]
    /\ UNCHANGED <<settled, storeVars, resets, redeliveries, missed, dropped, unchecked,
                   broken>>

\* by_channel keeps ch for the settlement loop.
Drop(t, ch) == LetGo(t, ch, {ch})

\* The channel's sub-batches are over: the rows in done are finalized as done,
\* the rest as failed, and memory_changed announces the rows in told.
FinishAs(t, ch, done, told) ==
    LET mine == held[t] \cap Rows(ch)
    IN  /\ mine # {}
        /\ mine \subseteq ok[t] \cup bad[t]
        /\ Finalize(t, done, mine \ done)
        /\ announced' = announced \cup told
        /\ swallowed' = swallowed \ told
        /\ dirty' = IF Finalizable(mine) = {} THEN dirty ELSE dirty \cup {ch}
        /\ Drop(t, ch)
        /\ UNCHANGED <<strayVars, faults>>

Good(t, ch) == held[t] \cap Rows(ch) \cap ok[t]

\* Mutant: a claim with a failed sub-batch announces nothing.
FinishQuietOnError(t, ch) ==
    FinishAs(t, ch, Good(t, ch), IF held[t] \cap Rows(ch) \subseteq ok[t] THEN Good(t, ch) ELSE {})

\* _process_channel_batch after process_messages returned: finalize by
\* sub-batch outcome, then announce what the succeeding sub-batches stored.
FinishChannel(t, ch) == FinishAs(t, ch, Good(t, ch), Good(t, ch))

\* process_messages raised, possibly after some sub-batches finalized their
\* rows: every claimed row is finalized as failed and nothing is announced.
\* The as_completed tasks that had not returned are not cancelled.
RaiseChannel(t, ch) ==
    LET mine == held[t] \cap Rows(ch)
    IN  /\ mine # {}
        /\ faults < MaxFaults
        /\ faults' = faults + 1
        /\ Finalize(t, {}, mine)
        /\ swallowed' = swallowed \cup (mine \cap ok[t])
        /\ dirty' = IF Finalizable(mine) = {} THEN dirty ELSE dirty \cup {ch}
        /\ stray' = stray \cup (mine \ (ok[t] \cup bad[t]))
        /\ strayOk' = strayOk \cup (mine \cap ok[t])
        /\ Drop(t, ch)
        /\ UNCHANGED announced

\* The channel's task crashed and the repair in tick() failed as well: the
\* rows stay extracting until the sweep.
LoseChannel(t, ch) ==
    LET mine == held[t] \cap Rows(ch)
    IN  /\ mine # {}
        /\ faults < MaxFaults
        /\ faults' = faults + 1
        /\ swallowed' = swallowed \cup (mine \cap ok[t])
        /\ Drop(t, ch)
        /\ UNCHANGED <<status, attempts, wait, age, strayVars, announced, dirty>>

\* A stray sub-batch stores its facts, fails, or finalizes its rows; nothing
\* announces the facts or checks the channel on its behalf.
StrayExtracts(S) ==
    /\ S # {} /\ S \subseteq stray
    /\ stray' = stray \ S
    /\ strayOk' = strayOk \cup S
    /\ Stores(S, {}) \/ StoreFails(S, {})
    /\ UNCHANGED <<rowVars, tickVars, resetting, resets, redeliveries,
                   announced, swallowed, unchecked, broken, dirty>>

StrayFails(S) ==
    /\ S # {} /\ S \subseteq stray
    /\ stray' = stray \ S
    /\ UNCHANGED <<rowVars, tickVars, strayOk, storeVars, envVars, histVars>>

StrayFinalizes(S) ==
    /\ S # {} /\ S \subseteq strayOk
    /\ strayOk' = strayOk \ S
    /\ FinalizeDone(S)
    /\ swallowed' = swallowed \cup S
    /\ dirty' = dirty \cup {ChannelOf[m] : m \in Finalizable(S)}
    /\ unchecked' = unchecked \cup {ChannelOf[m] : m \in Finalizable(S)}
    /\ UNCHANGED <<settled, tickVars, stray, storeVars, envVars,
                   missed, dropped, announced, broken>>

\* The settlement check of ch leaves the channels in rest to be checked;
\* settle says whether memory_settled fires.
Check(t, ch, rest, settle) ==
    /\ held[t] = {}
    /\ ch \in toCheck[t]
    /\ toCheck' = [toCheck EXCEPT ![t] = rest]
    /\ IF settle
         THEN dirty' = dirty \ {ch} /\ unchecked' = unchecked \ {ch}
         ELSE UNCHANGED <<dirty, unchecked>>
    /\ UNCHANGED <<rowVars, held, seen, ok, bad, strayVars, storeVars, envVars,
                   missed, dropped, announced, swallowed, broken>>

\* Mutant: a failed row keeps the channel from settling.
SettleCheckAllDone(t, ch) ==
    Check(t, ch, toCheck[t] \ {ch}, \A m \in Rows(ch) : status[m] \in {"absent", "done"})

\* The settlement loop at the end of tick(): after gather, per channel.
SettleCheck(t, ch) == Check(t, ch, toCheck[t] \ {ch}, Drained(ch))

\* The count failed: the check is skipped ("best-effort observability").
SettleCheckFails(t, ch) ==
    /\ held[t] = {}
    /\ ch \in toCheck[t]
    /\ faults < MaxFaults
    /\ faults' = faults + 1
    /\ toCheck' = [toCheck EXCEPT ![t] = @ \ {ch}]
    /\ unchecked' = unchecked \cup {ch}
    /\ UNCHANGED <<rowVars, held, seen, ok, bad, strayVars, storeVars,
                   resets, redeliveries,
                   missed, dropped, announced, swallowed, broken, dirty>>

-----------------------------------------------------------------------------
(* Recovery, reset, crash, time.                                            *)

\* WriteReconciler stores what pending intents hold (WriteIntents says how, and
\* that the facts of a replay have lost their channel).
Replay(S) ==
    /\ S # {} /\ S \subseteq owed
    /\ facts' = facts \cup S
    /\ owed' = owed \ S
    /\ UNCHANGED <<rowVars, tickVars, strayVars, resetting, envVars, histVars>>

HeldByLive(m) == \E t \in Ticks : m \in held[t]

Stale == {m \in Msgs : status[m] = "extracting" /\ age[m] > StaleAfter}

\* Mutant: the sweep stamps updated_at and leaves the status.
SweepStampsOnly ==
    /\ Stale # {}
    /\ age' = [m \in Msgs |-> IF m \in Stale THEN 0 ELSE age[m]]
    /\ UNCHANGED <<status, attempts, wait, settled, tickVars, strayVars, storeVars,
                   envVars, histVars>>

\* sweep_stale_extracting
Sweep ==
    /\ Stale # {}
    /\ status' = [m \in Msgs |-> IF m \in Stale THEN "pending" ELSE status[m]]
    /\ age' = [m \in Msgs |-> IF m \in Stale THEN 0 ELSE age[m]]
    /\ wait' = [m \in Msgs |-> IF m \in Stale THEN 0 ELSE wait[m]]
    /\ broken' = broken \cup {m \in Stale : HeldByLive(m)}
    /\ UNCHANGED <<attempts, settled, tickVars, strayVars, storeVars, envVars,
                   missed, dropped, announced, swallowed, unchecked, dirty>>

\* Some sub-batch of m has succeeded and not been finalized at the tick's end.
Extracted(m) == m \in strayOk \/ \E t \in Ticks : m \in ok[t]

\* _reset_fanout, stages 1-3: the derived facts go; the write intents stay.
ResetDropFacts(ch) ==
    /\ resets < MaxResets
    /\ resets' = resets + 1
    /\ resetting' = resetting \cup {ch}
    /\ facts' = facts \ Rows(ch)
    /\ dropped' = dropped \cup {m \in Rows(ch) : Extracted(m)}
    /\ UNCHANGED <<rowVars, tickVars, strayVars, owed, faults, redeliveries,
                   missed, announced, swallowed, unchecked, broken, dirty>>

\* Stage 2 fails: the facts stay, and stage 4 runs all the same.
ResetDropFails(ch) ==
    /\ resets < MaxResets
    /\ resets' = resets + 1
    /\ faults < MaxFaults
    /\ faults' = faults + 1
    /\ resetting' = resetting \cup {ch}
    /\ UNCHANGED <<rowVars, tickVars, strayVars, facts, owed, redeliveries, histVars>>

\* The reset makes the given rows of ch pending, with a fresh retry budget;
\* updated_at is not written.
FlipRows(ch, flipped) ==
    /\ ch \in resetting
    /\ resetting' = resetting \ {ch}
    /\ status' = [m \in Msgs |-> IF m \in flipped THEN "pending" ELSE status[m]]
    /\ attempts' = [m \in Msgs |-> IF m \in flipped THEN 0 ELSE attempts[m]]
    /\ wait' = [m \in Msgs |-> IF m \in flipped THEN 0 ELSE wait[m]]
    /\ announced' = announced \ flipped
    /\ swallowed' = swallowed \ flipped
    /\ broken' = broken \cup {m \in flipped : HeldByLive(m)}
    /\ UNCHANGED <<age, settled, tickVars, strayVars, facts, owed, envVars,
                   missed, dropped, unchecked, dirty>>

\* Mutant: only failed rows are flipped.
ResetFlipFailedRows(ch) == FlipRows(ch, {m \in Rows(ch) : status[m] = "failed"})

\* _reset_fanout, stage 4: every row of the channel, whatever its state.  When
\* this update fails the reset reports it and the channel stays as it is.
ResetFlipRows(ch) == FlipRows(ch, {m \in Rows(ch) : status[m] # "absent"})

\* The process dies: every tick in flight is gone, the rows stay.
Crash ==
    /\ faults < MaxFaults
    /\ stray \cup strayOk # {} \/ \E t \in Ticks : ~Idle(t)
    /\ faults' = faults + 1
    /\ held' = [t \in Ticks |-> {}]
    /\ ok' = [t \in Ticks |-> {}]
    /\ bad' = [t \in Ticks |-> {}]
    /\ toCheck' = [t \in Ticks |-> {}]
    /\ stray' = {} /\ strayOk' = {}
    /\ swallowed' = swallowed \cup UNION {ok[t] : t \in Ticks}
    /\ unchecked' = unchecked \cup UNION {Touched(t) : t \in Ticks}
    /\ seen' = [t \in Ticks |-> [m \in Msgs |-> 0]]
    /\ UNCHANGED <<rowVars, storeVars, resets, redeliveries,
                   missed, dropped, announced, broken, dirty>>

\* Time passes.  Under Prompt no live tick is overtaken by the stale window.
TimePasses ==
    /\ Prompt => \A m \in Msgs : HeldByLive(m) /\ status[m] = "extracting" => age[m] < StaleAfter
    /\ wait' = [m \in Msgs |-> IF wait[m] = 0 THEN 0 ELSE wait[m] - 1]
    /\ age' = [m \in Msgs |-> IF status[m] = "extracting" /\ age[m] <= StaleAfter
                              THEN age[m] + 1 ELSE age[m]]
    /\ settled' = {m \in Msgs : status[m] # "absent"}
    /\ UNCHANGED <<status, attempts, tickVars, strayVars, storeVars,
                   envVars, histVars>>

-----------------------------------------------------------------------------

ClaimSome(t) == \E S \in SUBSET Msgs : Claim(t, S)

\* Whatever moves a tick in flight forward.
Progress(t) ==
    \/ \E ch \in Channels, S \in SUBSET held[t] : SubBatchSucceeds(t, ch, S) \/ SubBatchFails(t, ch, S)
    \/ \E ch \in Channels : FinishChannel(t, ch) \/ SettleCheck(t, ch)

Next ==
    \/ \E m \in Msgs : Insert(m) \/ Redeliver(m)
    \/ \E t \in Ticks :
        \/ ClaimSome(t)
        \/ Progress(t)
        \/ \E S \in SUBSET Msgs : ClaimFails(t, S)
        \/ \E S \in SUBSET ok[t] : FinalizeSubBatch(t, S)
        \/ \E ch \in Channels :
            \/ \E S \in SUBSET held[t] : \E cut \in SUBSET S : SubBatchHalved(t, ch, S, cut)
            \/ RaiseChannel(t, ch) \/ LoseChannel(t, ch) \/ SettleCheckFails(t, ch)
    \/ \E S \in SUBSET stray : StrayExtracts(S) \/ StrayFails(S)
    \/ \E S \in SUBSET strayOk : StrayFinalizes(S)
    \/ \E S \in SUBSET owed : Replay(S)
    \/ Sweep
    \/ \E ch \in Channels : ResetDropFacts(ch) \/ ResetDropFails(ch) \/ ResetFlipRows(ch)
    \/ Crash
    \/ TimePasses

Spec == Init /\ [][Next]_vars

\* The scheduler fires tick and sweep for ever, the clock runs, and a tick in
\* flight is driven by the event loop.  Deliveries, resets, replays and faults
\* are not owed to anyone.
Fairness ==
    /\ WF_<<wait, age, settled>>(TimePasses)
    /\ WF_status(Sweep)
    /\ \A t \in Ticks : WF_held(ClaimSome(t)) /\ WF_<<held, ok, bad, toCheck>>(Progress(t))

FairSpec == Spec /\ Fairness

-----------------------------------------------------------------------------
(* Properties.                                                              *)

Status == {"absent", "pending", "extracting", "done", "failed"}

\* Types; attempt_count stays within the retry budget and the ages within
\* the window the sweep compares them with.
TypeOK ==
    /\ status \in [Msgs -> Status]
    /\ attempts \in [Msgs -> 0..MaxRetries]
    /\ wait \in [Msgs -> Nat]
    /\ age \in [Msgs -> 0..(StaleAfter + 1)]
    /\ settled \subseteq Msgs
    /\ held \in [Ticks -> SUBSET Msgs]
    /\ seen \in [Ticks -> [Msgs -> 0..MaxRetries]]
    /\ ok \in [Ticks -> SUBSET Msgs]
    /\ bad \in [Ticks -> SUBSET Msgs]
    /\ toCheck \in [Ticks -> SUBSET Channels]
    /\ stray \subseteq Msgs /\ strayOk \subseteq Msgs
    /\ facts \subseteq Msgs /\ owed \subseteq Msgs
    /\ resetting \subseteq Channels
    /\ faults \in 0..MaxFaults
    /\ resets \in 0..MaxResets
    /\ redeliveries \in 0..MaxRedeliveries
    /\ missed \subseteq Msgs /\ dropped \subseteq Msgs /\ announced \subseteq Msgs /\ swallowed \subseteq Msgs
    /\ unchecked \subseteq Channels /\ dirty \subseteq Channels
    /\ broken \subseteq Msgs

\* The retry budget is never overdrawn: whoever finalizes a row late, and
\* however often it is swept, a row that may still run has an attempt left,
\* so no finalization can push attempt_count past max_retries.
BudgetLeft ==
    \A m \in Msgs : status[m] \in {"pending", "extracting"} => attempts[m] < MaxRetries

\* Two ticks in flight work on the same row only if a sweep or a reset took
\* the row away from a tick that was still alive.
ClaimExclusive ==
    \A t, u \in Ticks : \A m \in held[t] \cap held[u] : t = u \/ m \in broken

\* Where the facts of a row that was extracted may be.
Accounted == facts \cup owed \cup missed \cup dropped

\* A done row's facts are in the fact store (batch_processor.py 1905-1949,
\* persister.py 511-526), or only in a write intent because the store failed
\* under a sub-batch that still reports success, or halving cut the row from its
\* batch, or a reset took the facts from under a tick that had extracted them,
\* or has not flipped the rows yet.  A failure of any other kind, a sweep, a
\* late or a stray finalization never leaves a done row without its facts.
DoneMeansStored ==
    \A m \in Msgs : status[m] = "done" =>
        m \in Accounted \/ ChannelOf[m] \in resetting

\* Facts of a done row reach the wiki's accumulator: memory_changed announced
\* them, or a live tick still will, unless a raise or a crash swallowed it.
DoneIsAnnounced ==
    \A m \in Msgs : status[m] = "done" =>
        m \in announced \cup swallowed \/ \E t \in Ticks : m \in ok[t]

\* No drain goes unnoticed: if a channel's rows were finalized since its last
\* memory_settled, then it is not drained, or a tick in flight will still
\* check it, or a fault took the check away.
NoMissedDrain ==
    \A ch \in dirty \ unchecked : ~Drained(ch) \/ \E t \in Ticks : ch \in Touched(t)

\* memory_settled fires exactly once per drain (extraction_worker.py 336-337),
\* also when ticks run concurrently (370-377): only for a channel in which a row
\* was finalized since the previous memory_settled.  Violated by two ticks that
\* touched the same channel and both count after the last row was finalized.
SettledOncePerDrain ==
    [][\A t \in Ticks : \A ch \in toCheck[t] \ toCheck'[t] :
        Drained(ch) /\ faults' = faults => ch \in dirty]_vars

\* Every row comes to rest, done or failed with its retry budget spent, through
\* crashes, sweeps, retries and resets: over and over all delivered rows are at
\* rest.
EveryRowSettles ==
    []<>(\A m \in Msgs : \/ status[m] \in {"absent", "done"}
                         \/ status[m] = "failed" /\ attempts[m] = MaxRetries)

\* What makes the safety invariants inductive: a row that was never delivered
\* has spent nothing; the outcomes a tick remembers are outcomes of rows it
\* holds; a row held by a live tick and never taken from it is extracting, or
\* was finalized early as done; and a sub-batch that succeeded left the facts of
\* its rows somewhere they are accounted for.
AbsentFresh == \A m \in Msgs : status[m] = "absent" => attempts[m] = 0

OutcomesHeld == \A t \in Ticks : ok[t] \subseteq held[t] /\ bad[t] \subseteq held[t]

HeldInFlight ==
    \A t \in Ticks : \A m \in held[t] : m \in broken \/ status[m] \in {"extracting", "done"}

ClaimInv == ClaimExclusive /\ HeldInFlight

OutcomesStored ==
    /\ \A t \in Ticks : ok[t] \subseteq Accounted
    /\ strayOk \subseteq Accounted

StoredInv == OutcomesStored /\ DoneMeansStored

QueueInv == TypeOK /\ BudgetLeft /\ AbsentFresh /\ OutcomesHeld

\* A row as a user of the queue sees it.
ItemOf(st, n) ==
    CASE st = "absent"     -> "none"
      [] st = "pending"    -> "todo"
      [] st = "extracting" -> "taken"
      [] st = "done"       -> "done"
      [] st = "failed"     -> IF n < MaxRetries THEN "todo" ELSE "dead"

RQ == INSTANCE RetryQueue WITH
    Items <- Msgs,
    Budget <- MaxRetries,
    item <- [m \in Msgs |-> ItemOf(status[m], attempts[m])],
    tries <- attempts

\* The queue as its users see it: a retry queue whose finished and dead items
\* come back only when an administrator reopens them, and whose failures each
\* cost exactly one try, whoever finalizes a row and however late.
ImplementsRetryQueue == RQ!Spec
=============================================================================

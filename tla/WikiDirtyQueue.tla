---------------------------- MODULE WikiDirtyQueue ----------------------------
(***************************************************************************)
(* The incremental wiki maintainer (services/wiki_maintainer.py) with its  *)
(* durable work list, the wiki_dirty_queue collection (stores/             *)
(* mongodb_store.py), the page rows it rewrites (wiki/page_store.py) and   *)
(* the two other writers of those rows: the Builder's seed                 *)
(* (wiki/builder.py) and the operator's curation mode (api/wiki.py).       *)
(*                                                                         *)
(* memory_changed events put facts on the durable queue and into the       *)
(* in-memory _dirty map; a flush drains both and rewrites one page after   *)
(* the other.  A flush is started by the debounced task that               *)
(* memory_settled schedules and, beside it, by AutoOverviewSubscriber once *)
(* the Builder is done.  One action is what runs between two awaits.       *)
(*                                                                         *)
(* A page row is its curation mode and the facts its prose integrates      *)
(* (sections and last_facts_seen are written together).  The maintainer is *)
(* in auto mode: in manual mode on_memory_settled returns at once.         *)
(***************************************************************************)
EXTENDS Integers, FiniteSets

CONSTANTS
    Facts,         \* one memory_changed event announces one fact
    Channels,
    Pages,
    ChannelOf,     \* the channel a page belongs to
    Adaptive,      \* pages whose kind is not required: only the Builder creates them
    Flushes,       \* flushes that may run at the same time
    Debounced,     \* the one of them that runs in self._flush_task
    MaxFaults,     \* bound: crashes and failed calls
    MaxSeeds,      \* bound: page rows saved by the Builder
    MaxEdits,      \* bound: curation modes set by the operator
    NoOne          \* no channel and no page

ASSUME WikiAssumption ==
    /\ ChannelOf \in [Pages -> Channels]
    /\ Adaptive \subseteq Pages
    /\ Debounced \in Flushes
    /\ MaxFaults \in Nat /\ MaxSeeds \in Nat /\ MaxEdits \in Nat
    /\ NoOne \notin Channels \union Pages

VARIABLES
    stage,         \* per fact: where its on_memory_changed call is
    routed,        \* per fact: the pages it was routed to
    todo,          \* per fact: the pages still to enqueue
    row,           \* wiki_dirty_queue: status of the page's row
    rowFacts,      \* wiki_dirty_queue: fact_ids of the page's row
    dirty,         \* self._dirty
    mode,          \* wiki_pages: curation_mode, "absent" without a page row
    seen,          \* wiki_pages: last_facts_seen
    task,          \* self._flush_task: "none" | "sleeping" | "running"
    drainDue,      \* the Builder has saved pages and not yet asked for a drain
    pc,            \* per flush: its position in _flush_dirty
    chans,         \* per flush: channels still to claim, then still to gate
    at,            \* per flush: the channel it claims or the page it rewrites
    snap,          \* per flush: snapshot, {} for a page that is dealt with
    claimed,       \* per flush: keys of claimed_doc_ids
    deferred,      \* per flush: deferred_channels
    readSeen,      \* per flush: last_facts_seen as get_page returned it
    readMode,      \* per flush: curation_mode as get_page returned it
    doneIds,       \* per flush: done_ids
    written,       \* history: facts some rewrite of the page has integrated
    unqueued,      \* history: facts a failure kept out of the page's row
    late,          \* history: facts enqueued for a claimed page after its claim
    missed,        \* history: late facts of the flush that marked the row done
    faults, seeds, edits

eventVars == <<stage, routed, todo>>
queueVars == <<row, rowFacts>>
pageVars  == <<mode, seen, written>>
flushVars == <<pc, chans, at, snap, claimed, deferred, readSeen, readMode, doneIds>>
histVars  == <<unqueued, late, missed>>
counts    == <<faults, seeds, edits>>
vars == <<eventVars, queueVars, dirty, pageVars, task, drainDue, flushVars,
          histVars, counts>>

NoFacts == [p \in Pages |-> {}]
Modes   == {"auto", "manual", "frozen"}
PagesOf(c) == {p \in Pages : ChannelOf[p] = c}
Live(p) == row[p] \in {"pending", "flushing"}

Init ==
    /\ stage = [f \in Facts |-> "new"]
    /\ routed = [f \in Facts |-> {}]
    /\ todo = [f \in Facts |-> {}]
    /\ row = [p \in Pages |-> "absent"]
    /\ rowFacts = NoFacts
    /\ dirty = NoFacts
    /\ mode \in [Pages -> {"absent", "auto"}]
    /\ seen = NoFacts
    /\ written = NoFacts
    /\ task = "none"
    /\ drainDue = FALSE
    /\ pc = [k \in Flushes |-> "idle"]
    /\ chans = [k \in Flushes |-> {}]
    /\ at = [k \in Flushes |-> NoOne]
    /\ snap = [k \in Flushes |-> NoFacts]
    /\ claimed = [k \in Flushes |-> {}]
    /\ deferred = [k \in Flushes |-> {}]
    /\ readSeen = [k \in Flushes |-> {}]
    /\ readMode = [k \in Flushes |-> "auto"]
    /\ doneIds = [k \in Flushes |-> {}]
    /\ unqueued = NoFacts
    /\ late = [k \in Flushes |-> NoFacts]
    /\ missed = NoFacts
    /\ faults = 0 /\ seeds = 0 /\ edits = 0

Fault == faults < MaxFaults /\ faults' = faults + 1 /\ UNCHANGED <<seeds, edits>>

-----------------------------------------------------------------------------
(* on_memory_changed                                                       *)

\* _route_facts_to_pages: the planner picks pages of the fact's channel.
Route(f, c, P) ==
    /\ stage[f] = "new"
    /\ P # {} /\ P \subseteq PagesOf(c)
    /\ stage' = [stage EXCEPT ![f] = "enqueue"]
    /\ routed' = [routed EXCEPT ![f] = P]
    /\ todo' = [todo EXCEPT ![f] = P]
    /\ UNCHANGED <<queueVars, dirty, pageVars, task, drainDue, flushVars, histVars, counts>>

\* Routing raised: the event's task logs the error and ends.
RouteFails(f) ==
    /\ stage[f] = "new"
    /\ Fault
    /\ stage' = [stage EXCEPT ![f] = "over"]
    /\ UNCHANGED <<routed, todo, queueVars, dirty, pageVars, task, drainDue, flushVars, histVars>>

EnqueueDirtyKeepsStatus(f, p) ==   \* mutant: status only written on insert
    /\ stage[f] = "enqueue" /\ p \in todo[f]
    /\ row' = [row EXCEPT ![p] = IF @ = "absent" THEN "pending" ELSE @]
    /\ rowFacts' = [rowFacts EXCEPT ![p] = @ \union {f}]
    /\ todo' = [todo EXCEPT ![f] = @ \ {p}]
    /\ late' = [k \in Flushes |->
                  IF p \in claimed[k] THEN [late[k] EXCEPT ![p] = @ \union {f}]
                                      ELSE late[k]]
    /\ UNCHANGED <<stage, routed, dirty, pageVars, task, drainDue, flushVars,
                   unqueued, missed, counts>>

\* enqueue_dirty: an upsert that makes the row pending whatever it was.
EnqueueDirty(f, p) ==
    /\ stage[f] = "enqueue" /\ p \in todo[f]
    /\ row' = [row EXCEPT ![p] = "pending"]
    /\ rowFacts' = [rowFacts EXCEPT ![p] = @ \union {f}]
    /\ todo' = [todo EXCEPT ![f] = @ \ {p}]
    /\ late' = [k \in Flushes |->
                  IF p \in claimed[k] THEN [late[k] EXCEPT ![p] = @ \union {f}]
                                      ELSE late[k]]
    /\ UNCHANGED <<stage, routed, dirty, pageVars, task, drainDue, flushVars,
                   unqueued, missed, counts>>

\* An exception ends the loop over the pages; the mirror still happens.
EnqueueFails(f) ==
    /\ stage[f] = "enqueue" /\ todo[f] # {}
    /\ Fault
    /\ unqueued' = [p \in Pages |-> IF p \in todo[f] THEN unqueued[p] \union {f}
                                                     ELSE unqueued[p]]
    /\ todo' = [todo EXCEPT ![f] = {}]
    /\ UNCHANGED <<stage, routed, queueVars, dirty, pageVars, task, drainDue,
                   flushVars, late, missed>>

\* The write-through into self._dirty.
Mirror(f) ==
    /\ stage[f] = "enqueue" /\ todo[f] = {}
    /\ dirty' = [p \in Pages |-> IF p \in routed[f] THEN dirty[p] \union {f} ELSE dirty[p]]
    /\ stage' = [stage EXCEPT ![f] = "over"]
    /\ UNCHANGED <<routed, todo, queueVars, pageVars, task, drainDue, flushVars,
                   histVars, counts>>

-----------------------------------------------------------------------------
(* on_memory_settled                                                       *)

\* _ensure_flush_scheduled: nothing happens while a flush task is in flight.
Settle ==
    /\ task' = IF task = "none" THEN "sleeping" ELSE task
    /\ UNCHANGED <<eventVars, queueVars, dirty, pageVars, drainDue, flushVars,
                   unqueued, late, missed, counts>>

-----------------------------------------------------------------------------
(* _flush_dirty                                                            *)

DirtyChannels == {ChannelOf[p] : p \in {q \in Pages : dirty[q] # {}}}

\* The channels to claim are the ones the in-memory map knows of.
Begin(k) ==
    /\ pc[k] = "idle"
    /\ pc' = [pc EXCEPT ![k] = "claim"]
    /\ chans' = [chans EXCEPT ![k] = DirtyChannels]
    /\ UNCHANGED <<eventVars, queueVars, dirty, pageVars, at, snap, claimed, deferred,
                   readSeen, readMode, doneIds, histVars, counts>>

\* _debounced_flush: the sleep is over.
Wake ==
    /\ task = "sleeping"
    /\ task' = "running"
    /\ Begin(Debounced)
    /\ UNCHANGED drainDue

\* AutoOverviewSubscriber._generate_overview: drain after the Builder.
Drain(k) ==
    /\ k # Debounced
    /\ drainDue
    /\ drainDue' = FALSE
    /\ Begin(k)
    /\ UNCHANGED task

\* claim_dirty, first call: update_many pending -> flushing.
ClaimUpdate(k, c) ==
    /\ pc[k] = "claim" /\ c \in chans[k]
    /\ row' = [p \in Pages |-> IF ChannelOf[p] = c /\ row[p] = "pending"
                               THEN "flushing" ELSE row[p]]
    /\ chans' = [chans EXCEPT ![k] = @ \ {c}]
    /\ at' = [at EXCEPT ![k] = c]
    /\ pc' = [pc EXCEPT ![k] = "find"]
    /\ UNCHANGED <<eventVars, rowFacts, dirty, pageVars, task, drainDue, snap, claimed,
                   deferred, readSeen, readMode, doneIds, histVars, counts>>

\* claim_dirty, second call: every row of the channel that is flushing.
Found(k) == {p \in PagesOf(at[k]) : row[p] = "flushing"}

ClaimFind(k) ==
    /\ pc[k] = "find"
    /\ snap' = [snap EXCEPT ![k] =
                  [p \in Pages |-> IF p \in Found(k) THEN rowFacts[p] ELSE snap[k][p]]]
    /\ claimed' = [claimed EXCEPT ![k] = @ \union Found(k)]
    /\ at' = [at EXCEPT ![k] = NoOne]
    /\ pc' = [pc EXCEPT ![k] = "claim"]
    /\ UNCHANGED <<eventVars, queueVars, dirty, pageVars, task, drainDue, chans, deferred,
                   readSeen, readMode, doneIds, histVars, counts>>

\* Either call raised: the flush goes on with what memory holds.
ClaimFails(k) ==
    /\ pc[k] = "find"
    /\ Fault
    /\ at' = [at EXCEPT ![k] = NoOne]
    /\ pc' = [pc EXCEPT ![k] = "claim"]
    /\ UNCHANGED <<eventVars, queueVars, dirty, pageVars, task, drainDue, chans, snap,
                   claimed, deferred, readSeen, readMode, doneIds, histVars>>

\* Merge self._dirty into the snapshot and clear it, under the lock.
Merge(k) ==
    /\ pc[k] = "claim" /\ chans[k] = {}
    /\ LET all == [p \in Pages |-> snap[k][p] \union dirty[p]]
       IN  /\ snap' = [snap EXCEPT ![k] = all]
           /\ chans' = [chans EXCEPT ![k] = {ChannelOf[p] : p \in {q \in Pages : all[q] # {}}}]
    /\ late' = [late EXCEPT ![k] = [p \in Pages |-> late[k][p] \ dirty[p]]]
    /\ dirty' = NoFacts
    /\ pc' = [pc EXCEPT ![k] = "gate"]
    /\ UNCHANGED <<eventVars, queueVars, pageVars, task, drainDue, at, claimed, deferred,
                   readSeen, readMode, doneIds, unqueued, missed, counts>>

\* First-sync gate: a channel without page rows waits for the Builder.
Built(c) == \E p \in PagesOf(c) : mode[p] # "absent"

GateCheckOpen(k, c) ==   \* mutant: the gate never defers
    /\ pc[k] = "gate" /\ c \in chans[k]
    /\ chans' = [chans EXCEPT ![k] = @ \ {c}]
    /\ UNCHANGED <<eventVars, queueVars, dirty, pageVars, task, drainDue, pc, at, snap,
                   claimed, deferred, readSeen, readMode, doneIds, histVars, counts>>

GateCheckDefers(k, c) ==   \* mutant: a channel that is built is deferred too
    /\ pc[k] = "gate" /\ c \in chans[k]
    /\ chans' = [chans EXCEPT ![k] = @ \ {c}]
    /\ deferred' = [deferred EXCEPT ![k] = @ \union {c}]
    /\ UNCHANGED <<eventVars, queueVars, dirty, pageVars, task, drainDue, pc, at, snap,
                   claimed, readSeen, readMode, doneIds, histVars, counts>>

GateCheck(k, c) ==
    /\ pc[k] = "gate" /\ c \in chans[k]
    /\ chans' = [chans EXCEPT ![k] = @ \ {c}]
    /\ deferred' = [deferred EXCEPT ![k] = IF Built(c) THEN @ ELSE @ \union {c}]
    /\ UNCHANGED <<eventVars, queueVars, dirty, pageVars, task, drainDue, pc, at, snap,
                   claimed, readSeen, readMode, doneIds, histVars, counts>>

\* list_pages raised: the channel is not deferred.
GateFails(k, c) ==
    /\ pc[k] = "gate" /\ c \in chans[k]
    /\ Fault
    /\ chans' = [chans EXCEPT ![k] = @ \ {c}]
    /\ UNCHANGED <<eventVars, queueVars, dirty, pageVars, task, drainDue, pc, at, snap,
                   claimed, deferred, readSeen, readMode, doneIds, histVars>>

DeferDrops(k) ==   \* mutant: the re-add into self._dirty is missing
    /\ pc[k] = "gate" /\ chans[k] = {}
    /\ snap' = [snap EXCEPT ![k] =
                  [p \in Pages |-> IF ChannelOf[p] \in deferred[k] THEN {} ELSE snap[k][p]]]
    /\ pc' = [pc EXCEPT ![k] = "rewrite"]
    /\ UNCHANGED <<eventVars, queueVars, dirty, pageVars, task, drainDue, chans, at, claimed,
                   deferred, readSeen, readMode, doneIds, histVars, counts>>

\* The deferred channels' facts go back into self._dirty.
Defer(k) ==
    /\ pc[k] = "gate" /\ chans[k] = {}
    /\ dirty' = [p \in Pages |-> IF ChannelOf[p] \in deferred[k]
                                 THEN dirty[p] \union snap[k][p] ELSE dirty[p]]
    /\ snap' = [snap EXCEPT ![k] =
                  [p \in Pages |-> IF ChannelOf[p] \in deferred[k] THEN {} ELSE snap[k][p]]]
    /\ pc' = [pc EXCEPT ![k] = "rewrite"]
    /\ UNCHANGED <<eventVars, queueVars, pageVars, task, drainDue, chans, at, claimed,
                   deferred, readSeen, readMode, doneIds, histVars, counts>>

-----------------------------------------------------------------------------
(* apply_update, called by _rewrite_page for one page after the other      *)

TrulyNew(k, p) == snap[k][p] \ seen[p]

\* get_page and the early returns: nothing new, a curated page, or a page of
\* an adaptive kind that does not exist.
Skips(k, p) == \/ TrulyNew(k, p) = {}
               \/ mode[p] \in {"manual", "frozen"}
               \/ mode[p] = "absent" /\ p \in Adaptive

\* Whatever is not applied leaves the snapshot; its row stays as it is.
LetGo(k, p) == snap' = [snap EXCEPT ![k] = [@ EXCEPT ![p] = {}]]

SkipPage(k, p) ==
    /\ pc[k] = "rewrite" /\ snap[k][p] # {}
    /\ Skips(k, p)
    /\ LetGo(k, p)
    /\ UNCHANGED <<eventVars, queueVars, dirty, pageVars, task, drainDue, pc, chans, at,
                   claimed, deferred, readSeen, readMode, doneIds, histVars, counts>>

ReadPageNone(k, p) ==   \* mutant: a missing page is not given its defaults
    /\ pc[k] = "rewrite" /\ snap[k][p] # {}
    /\ ~Skips(k, p)
    /\ at' = [at EXCEPT ![k] = p]
    /\ readSeen' = [readSeen EXCEPT ![k] = seen[p]]
    /\ readMode' = [readMode EXCEPT ![k] = mode[p]]
    /\ pc' = [pc EXCEPT ![k] = "call"]
    /\ UNCHANGED <<eventVars, queueVars, dirty, pageVars, task, drainDue, chans, snap,
                   claimed, deferred, doneIds, histVars, counts>>

ReadPage(k, p) ==
    /\ pc[k] = "rewrite" /\ snap[k][p] # {}
    /\ ~Skips(k, p)
    /\ at' = [at EXCEPT ![k] = p]
    /\ readSeen' = [readSeen EXCEPT ![k] = seen[p]]
    /\ readMode' = [readMode EXCEPT ![k] = IF mode[p] = "absent" THEN "auto" ELSE mode[p]]
    /\ pc' = [pc EXCEPT ![k] = "call"]
    /\ UNCHANGED <<eventVars, queueVars, dirty, pageVars, task, drainDue, chans, snap,
                   claimed, deferred, doneIds, histVars, counts>>

\* The LLM answered: save_page replaces the whole row by the copy that was
\* read, updated.
SavePage(k) ==
    /\ pc[k] = "call"
    /\ LET p == at[k] IN
         /\ seen' = [seen EXCEPT ![p] = readSeen[k] \union snap[k][p]]
         /\ mode' = [mode EXCEPT ![p] = readMode[k]]
         /\ written' = [written EXCEPT ![p] = @ \union snap[k][p]]
         /\ doneIds' = [doneIds EXCEPT ![k] = IF p \in claimed[k] THEN @ \union {p} ELSE @]
         /\ LetGo(k, p)
    /\ at' = [at EXCEPT ![k] = NoOne]
    /\ pc' = [pc EXCEPT ![k] = "rewrite"]
    /\ UNCHANGED <<eventVars, queueVars, dirty, task, drainDue, chans, claimed, deferred,
                   readSeen, readMode, histVars, counts>>

\* No facts loaded, the LLM or the save failed: the page is left as it is.
RewriteFails(k) ==
    /\ pc[k] = "call"
    /\ Fault
    /\ LetGo(k, at[k])
    /\ at' = [at EXCEPT ![k] = NoOne]
    /\ pc' = [pc EXCEPT ![k] = "rewrite"]
    /\ UNCHANGED <<eventVars, queueVars, dirty, pageVars, task, drainDue, chans, claimed,
                   deferred, readSeen, readMode, doneIds, histVars>>

\* The flush returns and forgets everything.
Return(k) ==
    /\ pc' = [pc EXCEPT ![k] = "idle"]
    /\ claimed' = [claimed EXCEPT ![k] = {}]
    /\ deferred' = [deferred EXCEPT ![k] = {}]
    /\ doneIds' = [doneIds EXCEPT ![k] = {}]
    /\ late' = [late EXCEPT ![k] = NoFacts]
    /\ task' = IF k = Debounced THEN "none" ELSE task
    /\ UNCHANGED <<chans, at, snap, readSeen, readMode>>

\* mark_dirty_done: by _id, whatever the status is by now.
MarkDone(k) ==
    /\ pc[k] = "rewrite" /\ snap[k] = NoFacts
    /\ row' = [p \in Pages |-> IF p \in doneIds[k] THEN "done" ELSE row[p]]
    /\ missed' = [p \in Pages |-> IF p \in doneIds[k] THEN late[k][p] ELSE missed[p]]
    /\ Return(k)
    /\ UNCHANGED <<eventVars, rowFacts, dirty, pageVars, drainDue, unqueued, counts>>

MarkFails(k) ==
    /\ pc[k] = "rewrite" /\ snap[k] = NoFacts /\ doneIds[k] # {}
    /\ Fault
    /\ Return(k)
    /\ UNCHANGED <<eventVars, queueVars, dirty, pageVars, drainDue, unqueued, missed>>

-----------------------------------------------------------------------------
(* The other writers, and the process                                      *)

\* WikiBuilder saves a minimal row per compiled page: every field it does
\* not name goes back to its default.
Seed(p) ==
    /\ seeds < MaxSeeds
    /\ seeds' = seeds + 1
    /\ mode' = [mode EXCEPT ![p] = "auto"]
    /\ seen' = [seen EXCEPT ![p] = {}]
    /\ drainDue' = TRUE
    /\ UNCHANGED <<eventVars, queueVars, dirty, written, task, flushVars, histVars,
                   faults, edits>>

\* PATCH /pages/{slug}/curation.
SetMode(p, m) ==
    /\ edits < MaxEdits
    /\ edits' = edits + 1
    /\ mode[p] # "absent"
    /\ mode' = [mode EXCEPT ![p] = m]
    /\ UNCHANGED <<eventVars, queueVars, dirty, seen, written, task, drainDue, flushVars,
                   histVars, faults, seeds>>

\* The process dies and restarts.  MongoDB survives; at startup
\* recover_stale_flushing makes the rows that are old enough (S) pending.
Crash(S) ==
    /\ Fault
    /\ S \subseteq {p \in Pages : row[p] = "flushing"}
    /\ row' = [p \in Pages |-> IF p \in S THEN "pending" ELSE row[p]]
    /\ unqueued' = [p \in Pages |-> unqueued[p] \union {f \in Facts : p \in todo[f]}]
    /\ stage' = [f \in Facts |-> IF stage[f] = "enqueue" THEN "over" ELSE stage[f]]
    /\ todo' = [f \in Facts |-> {}]
    /\ dirty' = NoFacts
    /\ task' = "none"
    /\ drainDue' = FALSE
    /\ pc' = [k \in Flushes |-> "idle"]
    /\ chans' = [k \in Flushes |-> {}]
    /\ at' = [k \in Flushes |-> NoOne]
    /\ snap' = [k \in Flushes |-> NoFacts]
    /\ claimed' = [k \in Flushes |-> {}]
    /\ deferred' = [k \in Flushes |-> {}]
    /\ doneIds' = [k \in Flushes |-> {}]
    /\ late' = [k \in Flushes |-> NoFacts]
    /\ UNCHANGED <<routed, rowFacts, pageVars, readSeen, readMode, missed>>

-----------------------------------------------------------------------------

Event(f) ==
    \/ \E c \in Channels, P \in SUBSET Pages : Route(f, c, P)
    \/ RouteFails(f)
    \/ \E p \in Pages : EnqueueDirty(f, p)
    \/ EnqueueFails(f)
    \/ Mirror(f)

Flush(k) ==
    \/ \E c \in Channels : ClaimUpdate(k, c) \/ GateCheck(k, c) \/ GateFails(k, c)
    \/ ClaimFind(k) \/ ClaimFails(k)
    \/ Merge(k) \/ Defer(k)
    \/ \E p \in Pages : SkipPage(k, p) \/ ReadPage(k, p)
    \/ SavePage(k) \/ RewriteFails(k)
    \/ MarkDone(k) \/ MarkFails(k)

Next ==
    \/ \E f \in Facts : Event(f)
    \/ Settle
    \/ Wake
    \/ \E k \in Flushes : Drain(k) \/ Flush(k)
    \/ \E p \in Pages : Seed(p) \/ \E m \in Modes : SetMode(p, m)
    \/ \E S \in SUBSET Pages : Crash(S)

Spec == Init /\ [][Next]_vars

\* The event loop runs every task that is ready: the sleep ends, a flush and
\* an event's task go on.  Nothing makes a memory_settled event come.
FairSpec ==
    /\ Spec
    /\ WF_vars(Wake)
    /\ \A k \in Flushes : WF_vars(Flush(k))
    /\ \A f \in Facts : WF_vars(Event(f))

-----------------------------------------------------------------------------
(* Properties                                                              *)

\* Types; in particular a flush never carries "absent" as the curation mode
\* it will save: a page that get_page did not find gets its defaults.
TypeOK ==
    /\ stage \in [Facts -> {"new", "enqueue", "over"}]
    /\ routed \in [Facts -> SUBSET Pages]
    /\ todo \in [Facts -> SUBSET Pages]
    /\ row \in [Pages -> {"absent", "pending", "flushing", "done"}]
    /\ rowFacts \in [Pages -> SUBSET Facts]
    /\ dirty \in [Pages -> SUBSET Facts]
    /\ mode \in [Pages -> Modes \union {"absent"}]
    /\ seen \in [Pages -> SUBSET Facts]
    /\ written \in [Pages -> SUBSET Facts]
    /\ task \in {"none", "sleeping", "running"}
    /\ drainDue \in BOOLEAN
    /\ pc \in [Flushes -> {"idle", "claim", "find", "gate", "rewrite", "call"}]
    /\ chans \in [Flushes -> SUBSET Channels]
    /\ at \in [Flushes -> Channels \union Pages \union {NoOne}]
    /\ snap \in [Flushes -> [Pages -> SUBSET Facts]]
    /\ claimed \in [Flushes -> SUBSET Pages]
    /\ deferred \in [Flushes -> SUBSET Channels]
    /\ readSeen \in [Flushes -> SUBSET Facts]
    /\ readMode \in [Flushes -> Modes]
    /\ doneIds \in [Flushes -> SUBSET Pages]
    /\ unqueued \in [Pages -> SUBSET Facts]
    /\ late \in [Flushes -> [Pages -> SUBSET Facts]]
    /\ missed \in [Pages -> SUBSET Facts]
    /\ faults \in 0..MaxFaults
    /\ seeds \in 0..MaxSeeds
    /\ edits \in 0..MaxEdits

\* Durability of the queue, whatever crashes, fails or overlaps: a fact that
\* reached the queue has been written into its page, or waits in a row the
\* next claim returns, or came in after the claim of the very flush that
\* marked the row done (mark_dirty_done does not look at the row).
QueuedUntilWritten ==
    \A f \in Facts : \A p \in routed[f] \ todo[f] :
        \/ f \in unqueued[p]
        \/ f \in written[p]
        \/ Live(p) /\ f \in rowFacts[p]
        \/ row[p] = "done" /\ f \in missed[p]

\* A flush only visits the channels that self._dirty names, so as long as
\* nothing fails, no page is curated and the page is not adaptive, an
\* announced fact is written or still in memory: in self._dirty or in the
\* snapshot of a flush, deferred or not.
InMemoryUntilWritten ==
    faults = 0 /\ edits = 0 =>
        \A f \in Facts : stage[f] = "over" =>
            \A p \in routed[f] \ Adaptive :
                \/ f \in written[p] \union dirty[p]
                \/ \E k \in Flushes : f \in snap[k][p]

\* The first-sync gate: unless list_pages fails, the maintainer rewrites
\* pages of a channel only after the Builder has given it page rows.
BuilderFirst ==
    faults = 0 =>
        \A k \in Flushes, p \in Pages :
            pc[k] \in {"rewrite", "call"} /\ snap[k][p] # {} => Built(ChannelOf[p])

\* Facts that are dirty while a flush is scheduled are written, whatever other
\* flush overlaps with it, unless a call fails, the process stops or an operator
\* curates the page (wiki_maintainer.py 1138-1330).
ScheduledIsWritten ==
    \A f \in Facts, p \in Pages :
        (task = "sleeping" /\ f \in dirty[p] /\ mode[p] = "auto")
            ~> (f \in written[p] \/ faults > 0 \/ mode[p] # "auto")

-----------------------------------------------------------------------------
(* The inductive invariant behind QueuedUntilWritten, InMemoryUntilWritten *)
(* and BuilderFirst                                                        *)

\* What a flush may hold at each point of _flush_dirty.
FlushShape ==
    \A k \in Flushes :
        /\ pc[k] = "idle" => claimed[k] = {} /\ deferred[k] = {} /\ snap[k] = NoFacts
        /\ pc[k] \in {"idle", "claim", "find", "gate"} => doneIds[k] = {}
        /\ pc[k] \in {"claim", "find"} => \A p \in Pages : snap[k][p] \subseteq rowFacts[p]
        /\ pc[k] = "call" => at[k] \in Pages /\ snap[k][at[k]] # {}
        /\ doneIds[k] \subseteq claimed[k]

\* Every page of a fact's route is enqueued, still to do, or given up on.
RoutedQueued ==
    \A f \in Facts :
        /\ \A p \in routed[f] \ todo[f] : f \in rowFacts[p] \union unqueued[p]
        /\ stage[f] # "enqueue" => todo[f] = {}

\* A row with facts exists, and is done only if they were written or late.
RowsCovered ==
    \A p \in Pages :
        /\ row[p] = "absent" => rowFacts[p] = {}
        /\ row[p] = "done" => rowFacts[p] \subseteq written[p] \union missed[p]

\* A claimed row's facts are in the snapshot until the page is dealt with,
\* and in the page once it is to be marked done, except for late ones.
ClaimsCovered ==
    \A k \in Flushes, p \in Pages :
        /\ p \in claimed[k] /\ (pc[k] \in {"claim", "find", "gate"} \/ snap[k][p] # {})
              => rowFacts[p] \subseteq snap[k][p] \union late[k][p]
        /\ p \in doneIds[k] => rowFacts[p] \subseteq written[p] \union late[k][p]

\* last_facts_seen only names facts that a rewrite integrated, also in the
\* copy of the row a flush holds during its LLM call.
SeenWritten ==
    /\ \A p \in Pages : seen[p] \subseteq written[p]
    /\ \A k \in Flushes : pc[k] = "call" => readSeen[k] \subseteq written[at[k]]

\* Without an operator's edit no page is curated.
NotCurated ==
    edits = 0 => /\ \A p \in Pages : mode[p] \in {"absent", "auto"}
                 /\ \A k \in Flushes : pc[k] = "call" => readMode[k] = "auto"

\* In the gate, a channel with work is still to check, deferred or built.
GateCovers ==
    faults = 0 =>
        \A k \in Flushes, p \in Pages :
            pc[k] = "gate" /\ snap[k][p] # {} =>
                \/ ChannelOf[p] \in chans[k] \union deferred[k]
                \/ Built(ChannelOf[p])

WikiInv ==
    /\ FlushShape /\ RoutedQueued /\ RowsCovered /\ ClaimsCovered
    /\ SeenWritten /\ NotCurated /\ GateCovers
    /\ InMemoryUntilWritten /\ BuilderFirst

=============================================================================

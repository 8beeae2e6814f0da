-------------------------- MODULE ChannelPurge_proofs --------------------------
(***************************************************************************)
(* Proofs that the purge lock does what it is for, that a purge leaves     *)
(* nothing behind and that no cursor outlives the messages it stands for,  *)
(* beside any number of purge calls, syncs, ticks, failures and restarts.  *)
(***************************************************************************)
EXTENDS ChannelPurge, ChannelSync_proofs

RunsTyped ==
    run \in [Runs -> [pc : {"idle", "cancel", "derived", "rows", "state",
                             "audit", "release"}, err : BOOLEAN]]

LockInv == RunsTyped /\ outlived \in BOOLEAN /\ OnePurger

\* No sync touches the purge lock.
LEMMA SyncKeepsLock ==
    ASSUME SyncWork
    PROVE  lock' = lock
  BY ZenonT(60) DEF SyncWork, Post, ClearSyncState, Enter, StartStep, StartFails, TaskStep,
         FetchFails, RunFails, RecoverStale, Guard, CloseStale, ReadState,
         OrphanRunning, InsertJob, Register, FetchNewer, FetchRecent, FetchThreads,
         Upsert, Complete, Advance, Finish

\* A claim is granted only when nobody is in flight, or a purge has outlived
\* its lock.
LEMMA ClaimKeeps ==
    ASSUME LockInv, NEW p \in Runs, ~InFlight(p), Claim(p), outlived' = outlived
    PROVE  LockInv'
  <1> USE DEF LockInv, RunsTyped, OnePurger, InFlight, IsPurging
  <1>1. run' = [run EXCEPT ![p] = [pc |-> "cancel", err |-> FALSE]] /\ lock # "fresh"
        /\ lock' = "fresh"
    BY DEF Claim
  <1>2. RunsTyped'
    BY <1>1
  <1>3. ~outlived => \A q \in Runs : run[q].pc = "idle"
    BY <1>1
  <1>4. ~outlived => \A q \in Runs : run'[q].pc # "idle" => q = p
    BY <1>1, <1>3
  <1> QED
    BY <1>1, <1>2, <1>4

\* A call that goes on to its next stage holds what it held.
LEMMA StageKeeps ==
    ASSUME LockInv, NEW p \in Runs, InFlight(p), RunsTyped', lock' = lock,
           outlived' = outlived,
           \A q \in Runs : run'[q].pc # "idle" => run[q].pc # "idle"
    PROVE  LockInv'
  BY DEF LockInv, OnePurger, InFlight, IsPurging

LEMMA LockStep ==
    ASSUME LockInv, [Next]_allVars
    PROVE  LockInv'
  <1> USE DEF RunsTyped, InFlight, IsPurging
  <1>0. RunsTyped /\ outlived \in BOOLEAN /\ OnePurger
    BY DEF LockInv
  <1>1. CASE UNCHANGED allVars
    BY <1>0, <1>1 DEF LockInv, OnePurger, allVars, syncVars, purgeVars
  <1>2. CASE SyncWork /\ UNCHANGED purgeVars
    BY <1>0, <1>2, SyncKeepsLock DEF LockInv, OnePurger, purgeVars
  <1>3. CASE RestartAll
    <2>1. run' = [p \in Runs |-> NotRunning] /\ outlived' = FALSE
      BY <1>3 DEF RestartAll
    <2>2. RunsTyped' /\ \A p \in Runs : run'[p].pc = "idle"
      BY <2>1 DEF NotRunning
    <2> QED
      BY <2>1, <2>2 DEF LockInv, OnePurger
  <1>4. CASE ReaperList \/ TickBegin \/ TickClaim \/ TickStore
    BY <1>0, <1>4 DEF LockInv, OnePurger, ReaperList, TickBegin, TickClaim, TickStore,
                      syncVars
  <1>5. CASE GoStale
    <2>1. run' = run /\ lock' = "stale" /\ outlived' = (\E p \in Runs : InFlight(p))
      BY <1>5 DEF GoStale
    <2>2. outlived' \in BOOLEAN /\ (~outlived' => \A p \in Runs : ~InFlight(p))
      BY <2>1
    <2> QED
      BY <1>0, <2>1, <2>2 DEF LockInv, OnePurger
  <1>6. ASSUME NEW p \in Runs, RequestPurge(p) PROVE LockInv'
    BY <1>6, ClaimKeeps DEF RequestPurge
  <1>7. ASSUME NEW p \in Runs, ReaperPurge(p) PROVE LockInv'
    <2>1. CASE Claim(p)
      BY <1>7, <2>1, ClaimKeeps DEF ReaperPurge
    <2>2. CASE ~Claim(p)
      BY <1>0, <1>7, <2>2 DEF LockInv, OnePurger, ReaperPurge
    <2> QED
      BY <2>1, <2>2
  <1>8. ASSUME NEW p \in Runs, Cancel(p) \/ PurgeDerived(p) \/ PurgeRows(p)
                              \/ PurgeState(p) \/ Audit(p)
        PROVE  LockInv'
    <2>1. /\ InFlight(p) /\ lock' = lock /\ outlived' = outlived
          /\ \E pc \in {"derived", "rows", "state", "audit", "release"} :
                \/ run' = [run EXCEPT ![p].pc = pc]
                \/ run' = [run EXCEPT ![p] = [pc |-> pc, err |-> TRUE]]
      BY <1>8 DEF Cancel, PurgeDerived, PurgeRows, PurgeState, Audit, Step, syncVars
    <2>2. PICK pc \in {"derived", "rows", "state", "audit", "release"} :
                \/ run' = [run EXCEPT ![p].pc = pc]
                \/ run' = [run EXCEPT ![p] = [pc |-> pc, err |-> TRUE]]
      BY <2>1
    <2>3. CASE run' = [run EXCEPT ![p].pc = pc]
      <3>1. RunsTyped' /\ \A q \in Runs : run'[q].pc # "idle" => run[q].pc # "idle"
        BY <1>0, <2>1, <2>2, <2>3
      <3> QED
        BY <2>1, <3>1, StageKeeps
    <2>4. CASE run' = [run EXCEPT ![p] = [pc |-> pc, err |-> TRUE]]
      <3>1. RunsTyped' /\ \A q \in Runs : run'[q].pc # "idle" => run[q].pc # "idle"
        BY <1>0, <2>1, <2>2, <2>4
      <3> QED
        BY <2>1, <3>1, StageKeeps
    <2> QED
      BY <2>2, <2>3, <2>4
  <1>9. ASSUME NEW p \in Runs, StageFails(p) PROVE LockInv'
    <2>1. /\ InFlight(p) /\ lock' = lock /\ outlived' = outlived
          /\ \E pc \in {"derived", "rows", "audit", "release"} :
                run' = [run EXCEPT ![p] = [pc |-> pc, err |-> TRUE]]
      BY <1>0, <1>9 DEF StageFails
    <2>2. RunsTyped'
      BY <1>0, <2>1
    <2>3. \A q \in Runs : run'[q].pc # "idle" => run[q].pc # "idle"
      BY <1>0, <2>1
    <2> QED
      BY <2>1, <2>2, <2>3, StageKeeps
  <1>10. ASSUME NEW p \in Runs, Release(p) PROVE LockInv'
    <2>1. /\ run' = [run EXCEPT ![p] = NotRunning] /\ run[p].pc = "release"
          /\ outlived' = (outlived /\ \E q \in Runs \ {p} : InFlight(q))
      BY <1>10 DEF Release
    <2>2. RunsTyped' /\ run'[p].pc = "idle" /\ \A q \in Runs \ {p} : run'[q] = run[q]
      BY <1>0, <2>1 DEF NotRunning
    <2>3. outlived' \in BOOLEAN
      BY <2>1
    <2>4. ~outlived' => \A q \in Runs : run'[q].pc = "idle"
      <3>1. CASE ~outlived
        <4>1. \A q \in Runs : run[q].pc # "idle" => q = p
          BY <1>0, <2>1, <3>1 DEF OnePurger
        <4> QED
          BY <4>1, <2>2
      <3>2. CASE outlived
        BY <2>1, <2>2, <3>2
      <3> QED
        BY <3>1, <3>2
    <2> QED
      BY <2>2, <2>3, <2>4 DEF LockInv, OnePurger
  <1> QED
    BY <1>1, <1>2, <1>3, <1>4, <1>5, <1>6, <1>7, <1>8, <1>9, <1>10 DEF Next, Stage

\* In Spec at most one purge of the channel runs, under a fresh lock, unless
\* one outlives the stale window (mongodb_store.py, claim_purge).
THEOREM PurgeOnePurger == Spec => []OnePurger
  <1>1. Init => LockInv
    <2> SUFFICES ASSUME Init PROVE LockInv
      OBVIOUS
    <2>1. run = [p \in Runs |-> NotRunning] /\ outlived = FALSE
      BY DEF Init
    <2>2. RunsTyped /\ \A p \in Runs : run[p].pc = "idle"
      BY <2>1 DEF RunsTyped, NotRunning
    <2> QED
      BY <2>1, <2>2 DEF LockInv, OnePurger, InFlight
  <1>2. LockInv => OnePurger
    BY DEF LockInv
  <1> QED
    BY <1>1, <1>2, LockStep, PTL DEF Spec
-----------------------------------------------------------------------------
(* Types.                                                                   *)

\* A sync takes no row away.
LEMMA SyncKeepsRows ==
    ASSUME SyncWork
    PROVE  rows \subseteq rows'
  <1>1. CASE \E s \in Slots : Upsert(s)
    BY <1>1 DEF Upsert
  <1>2. CASE ~ \E s \in Slots : Upsert(s)
    <2>1. rows' = rows
      BY <1>2, ZenonT(60)
      DEF SyncWork, Post, ClearSyncState, Enter, StartStep, StartFails, TaskStep,
          FetchFails, RunFails, RecoverStale, Guard, CloseStale, ReadState,
          OrphanRunning, InsertJob, Register, FetchNewer, FetchRecent, FetchThreads,
          Complete, Advance, Finish, storeVars
    <2> QED
      BY <2>1
  <1> QED
    BY <1>1, <1>2

LEMMA PurgeTypeStep ==
    ASSUME PurgeTypeOK, RunsTyped', [Next]_allVars
    PROVE  PurgeTypeOK'
  <1> USE DEF RunsTyped
  <1>0. /\ TypeOK /\ done \subseteq rows /\ rows \subseteq Timestamps
        /\ tick.batch \in SUBSET Timestamps
    BY DEF PurgeTypeOK, TypeOK
  <1>1. CASE UNCHANGED allVars
    BY <1>1 DEF PurgeTypeOK, TypeOK, allVars, purgeVars, syncVars, storeVars, histVars
  <1>2. CASE SyncWork /\ UNCHANGED purgeVars
    <2>1. TypeOK' /\ rows \subseteq rows'
      BY <1>0, <1>2, SyncWorkTyped, SyncKeepsRows
    <2> QED
      BY <1>2, <2>1 DEF PurgeTypeOK, purgeVars
  <1>3. CASE RestartAll
    <2>1. TypeOK' /\ rows' = rows
      BY <1>0, <1>3, RestartTyped DEF RestartAll, Restart, storeVars
    <2> QED
      BY <1>3, <2>1 DEF PurgeTypeOK, RestartAll, NoTick
  <1>4. CASE ReaperList \/ TickClaim \/ TickStore
    <2>1. TypeOK' /\ rows' = rows
      BY <1>0, <1>4 DEF ReaperList, TickClaim, TickStore, TypeOK, syncVars, storeVars,
                        histVars
    <2>2. CASE ReaperList
      BY <2>1, <2>2 DEF PurgeTypeOK, ReaperList
    <2>3. CASE TickClaim
      <3>1. rows \ done \in SUBSET Timestamps
        BY <1>0
      <3>2. tick' \in [pc : {"idle", "claim", "store"}, batch : SUBSET Timestamps]
        BY <2>3, <3>1 DEF TickClaim, NoTick
      <3> QED
        BY <2>1, <2>3, <3>2 DEF PurgeTypeOK, TickClaim
    <2>4. CASE TickStore
      <3>1. tick' \in [pc : {"idle", "claim", "store"}, batch : SUBSET Timestamps]
        BY <2>4 DEF TickStore, NoTick
      <3>2. facts' \subseteq Timestamps /\ done' \subseteq rows'
        BY <1>0, <2>1, <2>4 DEF TickStore, PurgeTypeOK
      <3> QED
        BY <2>1, <2>4, <3>1, <3>2 DEF PurgeTypeOK, TickStore
    <2> QED
      BY <1>4, <2>2, <2>3, <2>4
  <1>5. CASE TickBegin
    <2>1. faults' \in 0..MaxFaults
      BY <1>0, <1>5, SyncAssumption DEF TickBegin, Fault, TypeOK
    <2>a. late' \in BOOLEAN
      BY <1>5, Zenon DEF TickBegin, PurgeTypeOK
    <2>2. tick' \in [pc : {"idle", "claim", "store"}, batch : SUBSET Timestamps]
      BY <1>5 DEF TickBegin, PurgeTypeOK
    <2> QED
      BY <1>5, <2>1, <2>a, <2>2 DEF PurgeTypeOK, TypeOK, TickBegin, storeVars, histVars
  <1>6. CASE GoStale
    <2>1. outlived' \in BOOLEAN
      BY <1>6 DEF GoStale
    <2> QED
      BY <1>6, <2>1 DEF PurgeTypeOK, TypeOK, GoStale, storeVars, histVars
  <1>7. ASSUME NEW p \in Runs, RequestPurge(p) \/ ReaperPurge(p) PROVE PurgeTypeOK'
    <2>1. lock' \in {"free", "fresh", "stale"} /\ listed' \in BOOLEAN
      BY <1>0, <1>7 DEF RequestPurge, ReaperPurge, Claim, TypeOK, PurgeTypeOK
    <2> QED
      BY <1>7, <2>1 DEF PurgeTypeOK, TypeOK, RequestPurge, ReaperPurge, storeVars, histVars
  <1>8. ASSUME NEW p \in Runs, Stage(p) \/ StageFails(p) PROVE PurgeTypeOK'
    <2>1. CASE Cancel(p)
      <3>1. task' \in [Slots -> Task]
        <4>1. Quiet \in Task
          BY SyncAssumption DEF Quiet, Task, Timestamps
        <4> QED
          BY <1>0, <2>1, <4>1 DEF Cancel, TypeOK, IsTaskActive
      <3>2. active' \in Slots \cup {NoSlot} /\ late' \in BOOLEAN
        BY <2>1 DEF Cancel
      <3> QED
        BY <2>1, <3>1, <3>2 DEF Cancel, PurgeTypeOK, TypeOK, storeVars, histVars
    <2>2. CASE PurgeDerived(p) \/ Audit(p)
      BY <2>2 DEF PurgeDerived, Audit, PurgeTypeOK, TypeOK, syncVars, storeVars, histVars
    <2>3. CASE PurgeRows(p)
      <3>1. faults' \in 0..MaxFaults
        BY <1>0, <2>3, SyncAssumption DEF PurgeRows, Fault, TypeOK
      <3> QED
        BY <2>3, <3>1 DEF PurgeRows, PurgeTypeOK, TypeOK
    <2>4. CASE PurgeState(p)
      <3>1. task' \in [Slots -> Task]
        BY <1>0, <2>4, StaleTyped DEF PurgeState, TypeOK
      <3>2. jobs' \in Seq(Slots) /\ cursor' \in 0..MaxPosts
        BY <2>4, SyncAssumption DEF PurgeState
      <3> QED
        BY <2>4, <3>1, <3>2 DEF PurgeState, PurgeTypeOK, TypeOK, histVars
    <2>5. CASE Release(p)
      <3>1. /\ faults' \in 0..MaxFaults /\ lock' \in {"free", "fresh", "stale"}
            /\ late' \in BOOLEAN /\ outlived' \in BOOLEAN
        BY <1>0, <2>5, SyncAssumption DEF Release, Fault, TypeOK, PurgeTypeOK
      <3> QED
        BY <2>5, <3>1 DEF Release, PurgeTypeOK, TypeOK, storeVars, histVars
    <2>6. CASE StageFails(p)
      <3>1. faults' \in 0..MaxFaults
        BY <1>0, <2>6, SyncAssumption DEF StageFails, Fault, TypeOK
      <3> QED
        BY <2>6, <3>1 DEF StageFails, PurgeTypeOK, TypeOK, storeVars, histVars
    <2> QED
      BY <1>8, <2>1, <2>2, <2>3, <2>4, <2>5, <2>6 DEF Stage
  <1> QED
    BY <1>1, <1>2, <1>3, <1>4, <1>5, <1>6, <1>7, <1>8 DEF Next

\* The two together, which every later argument starts from.
BaseInv == PurgeTypeOK /\ LockInv

LEMMA BaseAtFirst ==
    ASSUME Init
    PROVE  BaseInv
  <1>1. run = [p \in Runs |-> NotRunning] /\ outlived = FALSE
    BY DEF Init
  <1>2. RunsTyped /\ \A p \in Runs : run[p].pc = "idle"
    BY <1>1 DEF RunsTyped, NotRunning
  <1>3. LockInv
    BY <1>1, <1>2 DEF LockInv, OnePurger, InFlight
  <1>4. TypeOK
    BY TypedAtFirst DEF Init
  <1>5. PurgeTypeOK
    BY <1>2, <1>4 DEF PurgeTypeOK, RunsTyped, Init, NoTick
  <1> QED
    BY <1>3, <1>5 DEF BaseInv

LEMMA BaseStep ==
    ASSUME BaseInv, [Next]_allVars
    PROVE  BaseInv'
  <1>1. LockInv'
    BY LockStep DEF BaseInv
  <1>2. RunsTyped'
    BY <1>1 DEF LockInv
  <1> QED
    BY <1>1, <1>2, PurgeTypeStep DEF BaseInv

\* In Spec every variable keeps its type; in particular no row is done that a
\* purge has deleted (mongodb_store.py, purge_channel).
THEOREM PurgeTyped == Spec => []PurgeTypeOK
  <1>1. BaseInv => PurgeTypeOK
    BY DEF BaseInv
  <1> QED
    BY <1>1, BaseAtFirst, BaseStep, PTL DEF Spec

-----------------------------------------------------------------------------
(* What a purge leaves.                                                     *)

\* A call that claimed the lock, is past cancel_sync and has met no failure,
\* no writer that its guards let through, and no end of its lock.
Clean(p) ==
    /\ ~late /\ ~outlived /\ ~run[p].err
    /\ run[p].pc \in {"derived", "rows", "state", "audit", "release"}

\* Nobody writes to the channel.
Still == tick.pc = "idle" /\ \A s \in Slots : task[s].pc = "idle"

\* The stages a call has behind it are done for good.
Emptied(p) ==
    /\ run[p].pc \in {"rows", "state", "audit", "release"} => facts = {}
    /\ run[p].pc \in {"state", "audit", "release"} => rows = {}
    /\ run[p].pc \in {"audit", "release"} => cursor = 0 /\ jobs = <<>>

GoneInv == \A p \in Runs : Clean(p) => Still /\ Emptied(p)


\* Under a fresh lock, with nobody at work, only the platform and the
\* clear-data endpoint touch the channel.
LEMMA StillSyncs ==
    ASSUME IsPurging, \A s \in Slots : task[s].pc = "idle", SyncWork
    PROVE  Post \/ ClearSyncState
  <1>1. ASSUME NEW s \in Slots
        PROVE  ~Enter(s) /\ ~StartStep(s) /\ ~StartFails(s) /\ ~TaskStep(s)
               /\ ~FetchFails(s) /\ ~RunFails(s)
    BY <1>1 DEF Enter, StartStep, StartFails, TaskStep, FetchFails, RunFails,
                RecoverStale, Guard, CloseStale, ReadState, OrphanRunning, InsertJob,
                Register, FetchNewer, FetchRecent, FetchThreads, Upsert, Complete,
                Advance, Finish, Starting, StartPcs
  <1> QED
    BY <1>1 DEF SyncWork

\* Neither does one of them undo a stage.
LEMMA StillSyncKeeps ==
    ASSUME TypeOK, IsPurging, \A s \in Slots : task[s].pc = "idle", SyncWork
    PROVE  /\ \A s \in Slots : task'[s].pc = "idle"
           /\ rows' = rows
           /\ (cursor' = cursor /\ jobs' = jobs) \/ (cursor' = 0 /\ jobs' = <<>>)
  <1>1. CASE Post
    BY <1>1 DEF Post, storeVars
  <1>2. CASE ClearSyncState
    <2>1. task' = [s \in Slots |-> [task[s] EXCEPT !.stale = NoSlot]]
      BY <1>2 DEF ClearSyncState
    <2>2. \A s \in Slots : task'[s].pc = "idle"
      BY <2>1 DEF TypeOK, Task
    <2> QED
      BY <1>2, <2>2 DEF ClearSyncState
  <1> QED
    BY <1>1, <1>2, StillSyncs

\* A call whose stage, and the channel, are as they were.
LEMMA GoneKept ==
    ASSUME GoneInv, UNCHANGED <<run, late, outlived, tick, task, facts, rows, cursor, jobs>>
    PROVE  GoneInv'
  BY DEF GoneInv, Clean, Still, Emptied

LEMMA GoneStep ==
    ASSUME BaseInv, GoneInv, [Next]_allVars
    PROVE  GoneInv'
  <1> USE DEF InFlight, IsPurging
  <1>0. /\ TypeOK /\ RunsTyped /\ outlived \in BOOLEAN /\ late \in BOOLEAN /\ OnePurger
    BY DEF BaseInv, PurgeTypeOK, LockInv
  <1>a. ASSUME NEW p \in Runs, Clean(p)
        PROVE  /\ IsPurging /\ \A q \in Runs : InFlight(q) => q = p
               /\ Still /\ Emptied(p)
    BY <1>0, <1>a DEF OnePurger, Clean, GoneInv
  <1>1. CASE UNCHANGED allVars
    BY <1>1, GoneKept DEF allVars, purgeVars, syncVars, storeVars
  <1>2. CASE SyncWork /\ UNCHANGED purgeVars
    <2> SUFFICES ASSUME NEW p \in Runs, Clean(p)' PROVE (Still /\ Emptied(p))'
      BY DEF GoneInv
    <2>1. Clean(p) /\ UNCHANGED <<run, tick, facts>>
      BY <1>2 DEF Clean, purgeVars
    <2>2. IsPurging /\ Still /\ Emptied(p)
      BY <2>1, <1>a
    <2>3. /\ \A s \in Slots : task'[s].pc = "idle"
          /\ rows' = rows
          /\ (cursor' = cursor /\ jobs' = jobs) \/ (cursor' = 0 /\ jobs' = <<>>)
      BY <1>0, <1>2, <2>2, StillSyncKeeps DEF Still
    <2> QED
      BY <2>1, <2>2, <2>3 DEF Still, Emptied
  <1>3. CASE RestartAll
    <2>1. \A p \in Runs : run'[p].pc = "idle"
      BY <1>3 DEF RestartAll, NotRunning
    <2> QED
      BY <2>1 DEF GoneInv, Clean
  <1>4. CASE ReaperList
    BY <1>4, GoneKept DEF ReaperList, syncVars, storeVars
  <1>5. CASE GoStale
    <2>1. run' = run /\ outlived' = \E q \in Runs : InFlight(q)
      BY <1>5 DEF GoStale
    <2>2. \A p \in Runs : ~Clean(p)'
      BY <2>1 DEF Clean
    <2> QED
      BY <2>2 DEF GoneInv
  <1>6. CASE TickBegin
    <2> SUFFICES ASSUME NEW p \in Runs, Clean(p)' PROVE (Still /\ Emptied(p))'
      BY DEF GoneInv
    <2>1. late' = late /\ run' = run /\ outlived' = outlived /\ ~IsPurging
      BY <1>6 DEF TickBegin, Clean, TickFilter
    <2>2. Clean(p)
      BY <2>1 DEF Clean
    <2> QED
      BY <1>a, <2>1, <2>2
  <1>7. CASE TickClaim \/ TickStore
    <2> SUFFICES ASSUME NEW p \in Runs, Clean(p)' PROVE (Still /\ Emptied(p))'
      BY DEF GoneInv
    <2>1. Clean(p) /\ tick.pc # "idle"
      BY <1>7 DEF TickClaim, TickStore, Clean
    <2> QED
      BY <1>a, <2>1 DEF Still
  <1>8. ASSUME NEW q \in Runs, RequestPurge(q) \/ ReaperPurge(q) PROVE GoneInv'
    <2>1. CASE lock = "fresh" /\ UNCHANGED <<lock, run>>
      BY <1>8, <2>1, GoneKept DEF RequestPurge, ReaperPurge, storeVars
    <2>2. CASE Claim(q)
      <3> SUFFICES ASSUME NEW p \in Runs, Clean(p)' PROVE FALSE
        BY DEF GoneInv
      <3>1. /\ run' = [run EXCEPT ![q] = [pc |-> "cancel", err |-> FALSE]]
            /\ lock # "fresh" /\ late' = late /\ outlived' = outlived
        BY <1>8, <2>2 DEF Claim, RequestPurge, ReaperPurge
      <3>2. p # q /\ run'[p] = run[p]
        BY <1>0, <3>1 DEF Clean, RunsTyped
      <3>3. Clean(p)
        BY <3>1, <3>2 DEF Clean
      <3> QED
        BY <1>a, <3>1, <3>3
    <2> QED
      BY <1>8, <2>1, <2>2 DEF RequestPurge, ReaperPurge
  <1>9. ASSUME NEW q \in Runs, Cancel(q) PROVE GoneInv'
    <2> SUFFICES ASSUME NEW p \in Runs, Clean(p)' PROVE (Still /\ Emptied(p))'
      BY DEF GoneInv
    <2>1. /\ run' = [run EXCEPT ![q].pc = "derived"] /\ outlived' = outlived
          /\ late' = (\/ \E s \in Slots : task'[s].pc # "idle"
                     \/ tick.pc # "idle" \/ outlived
                     \/ \E r \in Runs \ {q} : InFlight(r))
          /\ tick' = tick /\ run[q].pc = "cancel"
      BY <1>9 DEF Cancel, Step
    <2>2. ~late' /\ run'[p].pc # "idle"
      BY DEF Clean
    <2>3. p = q
      BY <1>0, <2>1, <2>2 DEF RunsTyped
    <2>4. Still'
      BY <2>1, <2>2 DEF Still
    <2>5. run'[p].pc = "derived"
      BY <1>0, <2>1, <2>3 DEF RunsTyped
    <2> QED
      BY <2>4, <2>5 DEF Emptied
  <1>10. ASSUME NEW q \in Runs, PurgeDerived(q) \/ PurgeRows(q) \/ PurgeState(q) \/ Audit(q)
         PROVE  GoneInv'
    <2> SUFFICES ASSUME NEW p \in Runs, Clean(p)' PROVE (Still /\ Emptied(p))'
      BY DEF GoneInv
    <2>1. /\ late' = late /\ outlived' = outlived /\ tick' = tick
          /\ run[q].pc \in {"derived", "rows", "state", "audit"}
          /\ \E pc \in {"rows", "state", "audit", "release"} :
                \/ run' = [run EXCEPT ![q].pc = pc]
                \/ run' = [run EXCEPT ![q] = [pc |-> pc, err |-> TRUE]]
      BY <1>10 DEF PurgeDerived, PurgeRows, PurgeState, Audit, Step
    <2>2. Clean(p)
      <3>1. CASE p = q
        BY <1>0, <2>1, <3>1 DEF Clean, RunsTyped
      <3>2. CASE p # q
        BY <1>0, <2>1, <3>2 DEF Clean, RunsTyped
      <3> QED
        BY <3>1, <3>2
    <2>3. p = q /\ Still /\ Emptied(p)
      BY <1>a, <2>1, <2>2
    <2>4. \A s \in Slots : task'[s].pc = "idle"
      <3>1. CASE PurgeState(q)
        <4>1. task' = [s \in Slots |-> [task[s] EXCEPT !.stale = NoSlot]]
          BY <3>1 DEF PurgeState
        <4> QED
          BY <1>0, <2>3, <4>1 DEF TypeOK, Task, Still
      <3>2. CASE ~PurgeState(q)
        <4>1. task' = task
          BY <1>10, <3>2 DEF PurgeDerived, PurgeRows, Audit, syncVars
        <4> QED
          BY <2>3, <4>1 DEF Still
      <3> QED
        BY <3>1, <3>2
    <2>5. Still'
      BY <2>1, <2>3, <2>4 DEF Still
    <2>6. Emptied(p)'
      <3>1. CASE PurgeDerived(q)
        <4>1. run'[p].pc = "rows" /\ facts' = {}
          BY <1>0, <2>3, <3>1 DEF PurgeDerived, Step, RunsTyped
        <4> QED
          BY <4>1 DEF Emptied
      <3>2. CASE PurgeRows(q)
        <4>1. run'[p].pc = "state" /\ rows' = {} /\ facts' = facts /\ run[p].pc = "rows"
          BY <1>0, <2>3, <3>2 DEF PurgeRows, Step, RunsTyped
        <4> QED
          BY <2>3, <4>1 DEF Emptied
      <3>3. CASE PurgeState(q)
        <4>1. /\ run'[p].pc = "audit" /\ rows' = rows /\ facts' = facts
              /\ run[p].pc = "state" /\ cursor' = 0 /\ jobs' = <<>>
          BY <1>0, <2>3, <3>3 DEF PurgeState, Step, RunsTyped
        <4> QED
          BY <2>3, <4>1 DEF Emptied
      <3>4. CASE Audit(q)
        <4>1. run[p].pc = "audit" /\ UNCHANGED <<rows, facts, cursor, jobs>>
          BY <2>3, <3>4 DEF Audit, syncVars, storeVars
        <4> QED
          BY <2>3, <4>1 DEF Emptied
      <3> QED
        BY <1>10, <3>1, <3>2, <3>3, <3>4
    <2> QED
      BY <2>5, <2>6
  <1>11. ASSUME NEW q \in Runs, StageFails(q) PROVE GoneInv'
    <2> SUFFICES ASSUME NEW p \in Runs, Clean(p)' PROVE FALSE
      BY DEF GoneInv
    <2>1. /\ late' = late /\ outlived' = outlived /\ run[q].pc # "idle"
          /\ \E pc : run' = [run EXCEPT ![q] = [pc |-> pc, err |-> TRUE]]
      BY <1>11 DEF StageFails
    <2>2. p # q /\ run'[p] = run[p]
      BY <1>0, <2>1 DEF Clean, RunsTyped
    <2>3. Clean(p)
      BY <2>1, <2>2 DEF Clean
    <2> QED
      BY <1>a, <2>1, <2>2, <2>3
  <1>12. ASSUME NEW q \in Runs, Release(q) PROVE GoneInv'
    <2> SUFFICES ASSUME NEW p \in Runs, Clean(p)' PROVE FALSE
      BY DEF GoneInv
    <2>1. /\ run' = [run EXCEPT ![q] = NotRunning] /\ run[q].pc = "release"
          /\ outlived' = (outlived /\ \E r \in Runs \ {q} : InFlight(r))
          /\ late' = late \/ late' = (late \/ outlived)
      BY <1>12 DEF Release
    <2>2. p # q /\ run'[p] = run[p] /\ run[p].pc # "idle"
      BY <1>0, <2>1 DEF Clean, RunsTyped, NotRunning
    <2>3. outlived
      BY <1>0, <2>1, <2>2 DEF OnePurger
    <2> QED
      BY <2>1, <2>2, <2>3 DEF Clean
  <1> QED
    BY <1>1, <1>2, <1>3, <1>4, <1>5, <1>6, <1>7, <1>8, <1>9, <1>10, <1>11, <1>12
    DEF Next, Stage

\* In Spec, when a purge gives its lock back, nothing of the channel is left in
\* a store, unless a writer that was at work before the purge still was after
\* cancel_sync, or the purge outlived its lock (channel_deletion.py).
THEOREM PurgeLeavesNothing == Spec => PurgedIsGone
  <1>1. Init => GoneInv
    <2> SUFFICES ASSUME Init PROVE GoneInv
      OBVIOUS
    <2>1. \A p \in Runs : run[p].pc = "idle"
      BY DEF Init, NotRunning
    <2> QED
      BY <2>1 DEF GoneInv, Clean
  <1>2. ASSUME BaseInv, GoneInv, [Next]_allVars
        PROVE  [lock # "free" /\ lock' = "free"
                  => \/ rows = {} /\ facts = {} /\ cursor = 0 /\ jobs = <<>>
                     \/ late \/ outlived]_allVars
    <2> SUFFICES ASSUME Next, lock # "free", lock' = "free", ~late, ~outlived
                 PROVE  rows = {} /\ facts = {} /\ cursor = 0 /\ jobs = <<>>
      BY <1>2
    <2>1. PICK p \in Runs : Release(p)
      <3>1. lock' = lock \/ lock' \in {"fresh", "stale"} \/ \E p \in Runs : Release(p)
        BY SyncKeepsLock, ZenonT(60)
        DEF Next, RestartAll, Restart, ReaperList, GoStale, TickBegin, TickClaim, TickStore,
            RequestPurge, ReaperPurge, Claim, Stage, StageFails, Cancel, PurgeDerived,
            PurgeRows, PurgeState, Audit, syncVars
      <3> QED
        BY <3>1
    <2>2. run[p].pc = "release" /\ ~run[p].err
      BY <2>1 DEF Release, MayRelease
    <2>3. Clean(p)
      BY <2>2 DEF Clean
    <2> QED
      BY <1>2, <2>2, <2>3 DEF GoneInv, Emptied
  <1> QED
    BY <1>1, <1>2, BaseAtFirst, BaseStep, GoneStep, PTL DEF Spec, PurgedIsGone

-----------------------------------------------------------------------------
(* The cursor of a channel that is synced again.                            *)

\* A slot without a call has nothing left of its last one.
IdleQuiet == \A s \in Slots : task[s].pc = "idle" => task[s] = Quiet

\* A call that outlives its lock is in flight when the lock is free only after
\* a release that was marked late.
FreeIsIdle == lock = "free" /\ ~late => \A p \in Runs : ~InFlight(p)

\* And then what the syncs know of the cursor is as it was before any purge.
FreeIsCovered == lock = "free" /\ ~late => SyncInv

CoverInv == IdleQuiet /\ FreeIsIdle /\ FreeIsCovered

\* A step of slot s alone, to a step of its own or to nothing.
LEMMA SlotIdle ==
    ASSUME TypeOK, IdleQuiet, NEW s \in Slots,
           \A u \in Slots \ {s} : task'[u] = task[u],
           task'[s] = Quiet \/ task'[s].pc # "idle"
    PROVE  IdleQuiet'
  BY DEF IdleQuiet

LEMMA SyncKeepsIdle ==
    ASSUME TypeOK, IdleQuiet, SyncWork
    PROVE  IdleQuiet'
  <1> USE DEF StartPcs, TaskPcs
  <1>0. task \in [Slots -> Task]
    BY DEF TypeOK
  <1>1. CASE Post
    BY <1>1 DEF Post, IdleQuiet
  <1>2. CASE ClearSyncState
    <2>1. task' = [s \in Slots |-> [task[s] EXCEPT !.stale = NoSlot]]
      BY <1>2 DEF ClearSyncState
    <2>2. \A s \in Slots : task'[s].pc = task[s].pc
      BY <1>0, <2>1 DEF Task
    <2>3. [Quiet EXCEPT !.stale = NoSlot] = Quiet
      BY DEF Quiet, NoSlot
    <2> QED
      BY <2>1, <2>2, <2>3 DEF IdleQuiet
  <1>3. ASSUME NEW s \in Slots, Over(s) PROVE IdleQuiet'
    BY <1>0, <1>3, SlotIdle DEF Over
  <1>4. ASSUME NEW s \in Slots, NEW pc \in StartPcs \cup TaskPcs, Goto(s, pc) PROVE IdleQuiet'
    <2>1. task'[s].pc = pc /\ \A u \in Slots \ {s} : task'[u] = task[u]
      BY <1>0, <1>4 DEF Goto, Task
    <2>2. task'[s].pc # "idle"
      BY <1>4, <2>1
    <2> QED
      BY <2>1, <2>2, SlotIdle
  <1>5. ASSUME NEW s \in Slots, Enter(s) \/ RecoverStale(s) \/ OrphanRunning(s)
                              \/ Upsert(s) \/ Complete(s) \/ Advance(s)
        PROVE  IdleQuiet'
    BY <1>4, <1>5 DEF Enter, RecoverStale, OrphanRunning, Upsert, Complete, Advance
  <1>6. ASSUME NEW s \in Slots, StartFails(s) \/ FetchFails(s) \/ RunFails(s) \/ Finish(s)
        PROVE  IdleQuiet'
    BY <1>3, <1>6 DEF StartFails, FetchFails, RunFails, Finish
  <1>7. ASSUME NEW s \in Slots, Guard(s) PROVE IdleQuiet'
    <2>1. CASE task' = [task EXCEPT ![s].pc = "close", ![s].stale = jobs[Len(jobs)]]
      <3>1. task'[s].pc = "close" /\ \A u \in Slots \ {s} : task'[u] = task[u]
        BY <1>0, <2>1 DEF Task
      <3> QED
        BY <3>1, SlotIdle
    <2> QED
      BY <1>3, <1>4, <1>7, <2>1 DEF Guard
  <1>8. ASSUME NEW s \in Slots, CloseStale(s) \/ Register(s) PROVE IdleQuiet'
    <2>1. task'[s].pc \in {"mode", "fetch"} /\ \A u \in Slots \ {s} : task'[u] = task[u]
      BY <1>0, <1>8 DEF CloseStale, Register, Task
    <2> QED
      BY <2>1, SlotIdle
  <1>9. ASSUME NEW s \in Slots, ReadState(s) PROVE IdleQuiet'
    <2>1. \E f, c : task' = [task EXCEPT ![s].pc = "orphan", ![s].full = f, ![s].since = c]
      BY <1>9 DEF ReadState
    <2>2. task'[s].pc = "orphan" /\ \A u \in Slots \ {s} : task'[u] = task[u]
      BY <1>0, <2>1 DEF Task
    <2> QED
      BY <2>2, SlotIdle
  <1>10. ASSUME NEW s \in Slots, InsertJob(s) PROVE IdleQuiet'
    <2>1. task' = [u \in Slots |->
                 IF u = s THEN [task[s] EXCEPT !.pc = "register"]
                 ELSE IF task[u].stale = s THEN [task[u] EXCEPT !.stale = NoSlot]
                 ELSE task[u]]
      BY <1>10 DEF InsertJob
    <2>2. task'[s].pc = "register"
      BY <1>0, <2>1 DEF Task
    <2>3. ASSUME NEW u \in Slots \ {s}, task'[u].pc = "idle" PROVE task'[u] = Quiet
      <3>1. task[u].pc = "idle"
        BY <1>0, <2>1, <2>3 DEF Task
      <3>2. [Quiet EXCEPT !.stale = NoSlot] = Quiet
        BY DEF Quiet, NoSlot
      <3>3. task[u] = Quiet
        BY <3>1 DEF IdleQuiet
      <3> QED
        BY <2>1, <3>2, <3>3
    <2> QED
      BY <2>2, <2>3 DEF IdleQuiet
  <1>11. ASSUME NEW s \in Slots, NEW got, Fetched(s, got), task[s].pc = "fetch"
         PROVE  IdleQuiet'
    <2>1. task'[s].pc \in {"fetch", "threads"} /\ \A u \in Slots \ {s} : task'[u] = task[u]
      BY <1>0, <1>11 DEF Fetched, Task, Quiet
    <2> QED
      BY <2>1, SlotIdle
  <1>12. ASSUME NEW s \in Slots, FetchNewer(s) PROVE IdleQuiet'
    <2>1. /\ task[s].pc = "fetch"
          /\ \E got : Fetched(s, got) \/ task' = [task EXCEPT ![s] = NextFrom(s, got)]
      BY <1>12 DEF FetchNewer
    <2>2. PICK got : Fetched(s, got) \/ task' = [task EXCEPT ![s] = NextFrom(s, got)]
      BY <2>1
    <2>3. CASE task' = [task EXCEPT ![s] = NextFrom(s, got)]
      <3>1. task'[s].pc = "fetch" /\ \A u \in Slots \ {s} : task'[u] = task[u]
        BY <1>0, <2>1, <2>3 DEF NextFrom, Task
      <3> QED
        BY <3>1, SlotIdle
    <2> QED
      BY <1>11, <2>1, <2>2, <2>3
  <1>13. ASSUME NEW s \in Slots, FetchRecent(s) PROVE IdleQuiet'
    <2>1. /\ task[s].pc = "fetch"
          /\ \E got, m : Fetched(s, got) \/ task' = [task EXCEPT ![s].got = got, ![s].at = m]
      BY <1>13 DEF FetchRecent
    <2>2. PICK got, m : Fetched(s, got) \/ task' = [task EXCEPT ![s].got = got, ![s].at = m]
      BY <2>1
    <2>3. CASE task' = [task EXCEPT ![s].got = got, ![s].at = m]
      <3>1. task'[s].pc = "fetch" /\ \A u \in Slots \ {s} : task'[u] = task[u]
        BY <1>0, <2>1, <2>3 DEF Task
      <3> QED
        BY <3>1, SlotIdle
    <2> QED
      BY <1>11, <2>1, <2>2, <2>3
  <1>14. ASSUME NEW s \in Slots, FetchThreads(s) PROVE IdleQuiet'
    <2>1. \E g : task' = [task EXCEPT ![s].pc = "upsert", ![s].got = g]
      BY <1>0, <1>14 DEF FetchThreads
    <2>2. task'[s].pc = "upsert" /\ \A u \in Slots \ {s} : task'[u] = task[u]
      BY <1>0, <2>1 DEF Task
    <2> QED
      BY <2>2, SlotIdle
  <1> QED
    BY <1>1, <1>2, <1>5, <1>6, <1>7, <1>8, <1>9, <1>10, <1>12, <1>13, <1>14
    DEF SyncWork, StartStep, TaskStep

LEMMA IdleStep ==
    ASSUME BaseInv, IdleQuiet, [Next]_allVars
    PROVE  IdleQuiet'
  <1>0. TypeOK
    BY DEF BaseInv, PurgeTypeOK
  <1>1. CASE task' = task
    BY <1>1 DEF IdleQuiet
  <1>2. CASE SyncWork
    BY <1>0, <1>2, SyncKeepsIdle
  <1>3. CASE RestartAll
    BY <1>3 DEF RestartAll, Restart, IdleQuiet
  <1>4. ASSUME NEW p \in Runs, Cancel(p) PROVE IdleQuiet'
    <2>1. task' = task \/ (active \in Slots /\ task' = [task EXCEPT ![active] = Quiet])
      BY <1>0, <1>4 DEF Cancel, IsTaskActive, TypeOK
    <2> QED
      BY <1>0, <2>1 DEF IdleQuiet, TypeOK
  <1>5. ASSUME NEW p \in Runs, PurgeState(p) PROVE IdleQuiet'
    <2>1. task' = [s \in Slots |-> [task[s] EXCEPT !.stale = NoSlot]]
      BY <1>5 DEF PurgeState
    <2>2. \A s \in Slots : task'[s].pc = task[s].pc
      BY <1>0, <2>1 DEF TypeOK, Task
    <2>3. [Quiet EXCEPT !.stale = NoSlot] = Quiet
      BY DEF Quiet, NoSlot
    <2> QED
      BY <2>1, <2>2, <2>3 DEF IdleQuiet
  <1>6. \/ task' = task \/ SyncWork \/ RestartAll
        \/ \E p \in Runs : Cancel(p) \/ PurgeState(p)
    BY ZenonT(60)
    DEF Next, ReaperList, GoStale, TickBegin, TickClaim, TickStore, RequestPurge,
        ReaperPurge, Stage, StageFails, PurgeDerived, PurgeRows, Audit, Release,
        allVars, syncVars
  <1> QED
    BY <1>1, <1>2, <1>3, <1>4, <1>5, <1>6

\* The lock is given back late, or with nobody in flight and an empty channel.
LEMMA ReleaseCovers ==
    ASSUME BaseInv, GoneInv, IdleQuiet, NEW p \in Runs, Release(p), lock # "free",
           lock' = "free", ~late'
    PROVE  (\A q \in Runs : ~InFlight(q))' /\ SyncInv'
  <1> USE DEF InFlight
  <1>0. TypeOK /\ RunsTyped /\ OnePurger /\ late \in BOOLEAN /\ outlived \in BOOLEAN
    BY DEF BaseInv, PurgeTypeOK, LockInv
  <1>1. /\ run[p].pc = "release" /\ run' = [run EXCEPT ![p] = NotRunning]
        /\ ~run[p].err /\ late' = (late \/ outlived)
        /\ UNCHANGED <<history, rows, cursor, task, lost, skipped>>
    BY DEF Release, MayRelease, storeVars, histVars
  <1>2. ~late /\ ~outlived
    BY <1>0, <1>1
  <1>3. Clean(p)
    BY <1>1, <1>2 DEF Clean
  <1>4. Still /\ cursor = 0
    BY <1>1, <1>3 DEF GoneInv, Emptied
  <1>5. SyncInv
    BY <1>0, <1>4, QuietIsCovered DEF IdleQuiet, Still
  <1>6. SyncInv'
    BY <1>1, <1>5, StutterKeeps
  <1>7. \A q \in Runs : run'[q].pc = "idle"
    BY <1>0, <1>1, <1>2 DEF OnePurger, RunsTyped, NotRunning
  <1> QED
    BY <1>6, <1>7

LEMMA CoverStep ==
    ASSUME PagingSource, BaseInv, GoneInv, CoverInv, [Next]_allVars
    PROVE  CoverInv'
  <1> USE DEF InFlight
  <1>0. /\ TypeOK /\ RunsTyped /\ OnePurger /\ late \in BOOLEAN /\ outlived \in BOOLEAN
        /\ IdleQuiet /\ FreeIsIdle /\ FreeIsCovered
    BY DEF BaseInv, PurgeTypeOK, LockInv, CoverInv
  <1>a. IdleQuiet'
    BY <1>0, IdleStep
  <1> SUFFICES ASSUME lock' = "free", ~late'
               PROVE  (\A p \in Runs : ~InFlight(p))' /\ SyncInv'
    BY <1>a DEF CoverInv, FreeIsIdle, FreeIsCovered
  \* While the lock is free and no release was late, no call is in flight: the
  \* steps that are left do not touch what the syncs stored.
  <1>b. lock = "free" /\ ~late => SyncInv /\ \A p \in Runs : run[p].pc = "idle"
    BY <1>0 DEF FreeIsIdle, FreeIsCovered
  <1>1. CASE SyncWork /\ UNCHANGED purgeVars
    <2>1. lock' = lock /\ late' = late /\ run' = run
      BY <1>1, SyncKeepsLock DEF purgeVars
    <2> QED
      BY <1>1, <1>b, <2>1, SyncWorkKeeps
  <1>2. CASE RestartAll
    <2>1. lock' = lock /\ late' = late /\ \A p \in Runs : run'[p].pc = "idle"
      BY <1>2 DEF RestartAll, Restart, NotRunning
    <2>2. Restart
      BY <1>2 DEF RestartAll
    <2> QED
      BY <1>b, <2>1, <2>2, RestartKeeps
  <1>3. CASE UNCHANGED allVars \/ ReaperList \/ TickBegin \/ TickClaim \/ TickStore
    <2>1. /\ lock' = lock /\ run' = run
          /\ UNCHANGED <<history, rows, cursor, task, lost, skipped>>
      BY <1>3 DEF ReaperList, TickBegin, TickClaim, TickStore, allVars, purgeVars, syncVars,
                  storeVars, histVars
    <2>2. ~late
      BY <1>3 DEF ReaperList, TickBegin, TickClaim, TickStore, allVars, purgeVars
    <2> QED
      BY <1>b, <2>1, <2>2, StutterKeeps
  <1>4. CASE GoStale \/ \E p \in Runs : Claim(p)
    BY <1>4 DEF GoStale, Claim
  <1>5. ASSUME NEW p \in Runs, ReaperPurge(p), lock = "fresh", UNCHANGED <<lock, run>>
        PROVE  FALSE
    BY <1>5
  <1>6. ASSUME NEW p \in Runs, Cancel(p) PROVE FALSE
    <2>1. run[p].pc = "cancel" /\ lock' = lock /\ ~outlived
      BY <1>6 DEF Cancel
    <2> QED
      BY <1>0, <2>1 DEF OnePurger, IsPurging
  <1>7. ASSUME NEW p \in Runs, PurgeDerived(p) \/ PurgeRows(p) \/ PurgeState(p) \/ Audit(p)
                              \/ StageFails(p)
        PROVE FALSE
    <2>1. run[p].pc # "idle" /\ lock' = lock /\ late' = late
      BY <1>7 DEF PurgeDerived, PurgeRows, PurgeState, Audit, StageFails, syncVars
    <2> QED
      BY <1>b, <2>1
  <1>8. ASSUME NEW p \in Runs, Release(p)
        PROVE  (\A q \in Runs : ~InFlight(q))' /\ SyncInv'
    <2>1. CASE lock # "free"
      BY <1>0, <1>8, <2>1, ReleaseCovers
    <2>2. CASE lock = "free"
      <3>1. run[p].pc = "release" /\ (late' = late \/ late' = (late \/ outlived))
        BY <1>8 DEF Release
      <3>2. ~late
        BY <1>0, <3>1
      <3> QED
        BY <1>b, <2>2, <3>1, <3>2
    <2> QED
      BY <2>1, <2>2
  <1>9. ASSUME NEW p \in Runs, RequestPurge(p) \/ ReaperPurge(p) PROVE FALSE
    BY <1>4, <1>5, <1>9 DEF RequestPurge, ReaperPurge, Claim
  <1>10. CASE GoStale
    BY <1>10 DEF GoStale
  <1> QED
    BY <1>1, <1>2, <1>3, <1>6, <1>7, <1>8, <1>9, <1>10 DEF Next, Stage

\* In Spec a channel that is free after purges without a late writer has no
\* message behind its cursor that is not stored: the purge empties the cursor
\* with the rows, and no sync carries an old one over (channel_deletion.py),
\* when the source is one the syncs are written for.
THEOREM PurgeCursorCovers ==
    ASSUME PagingSource
    PROVE  Spec => []CursorCoversAfterPurge
  <1>1. Init => GoneInv /\ CoverInv
    <2> SUFFICES ASSUME Init PROVE GoneInv /\ CoverInv
      OBVIOUS
    <2>1. \A p \in Runs : run[p].pc = "idle"
      BY DEF Init, NotRunning
    <2>2. cursor = 0 /\ \A s \in Slots : task[s] = Quiet
      BY DEF Init, SyncInit
    <2>3. TypeOK
      BY TypedAtFirst DEF Init
    <2>4. SyncInv
      BY <2>2, <2>3, QuietIsCovered
    <2> QED
      BY <2>1, <2>2, <2>4 DEF GoneInv, Clean, CoverInv, IdleQuiet, FreeIsIdle, FreeIsCovered,
                              InFlight
  <1>2. CoverInv => CursorCoversAfterPurge
    BY DEF CoverInv, FreeIsCovered, SyncInv, CursorCoversAfterPurge
  <1> QED
    BY <1>1, <1>2, BaseAtFirst, BaseStep, GoneStep, CoverStep, PTL DEF Spec

=============================================================================

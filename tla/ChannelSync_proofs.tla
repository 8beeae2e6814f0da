-------------------------- MODULE ChannelSync_proofs --------------------------
(***************************************************************************)
(* Proofs that every variable keeps its type and that no message is left   *)
(* behind the cursor, for every number of overlapping syncs, messages,     *)
(* faults and restarts, every budget and every page size; the second of a  *)
(* PagingSource only.  The invariant says of each sync what its fetch has  *)
(* accounted for at the step it is at.                                     *)
(***************************************************************************)
EXTENDS ChannelSync, FiniteSetTheorems, TLAPS

\* Messages that are stored, or that CursorCovers excuses.
Accounted == rows \cup lost \cup skipped

\* A cursor at c leaves no message behind.
Covered(c) == \A t \in Tops : t <= c => t \in Accounted

\* What a call or task r knows at the step it is at.
InRange(r) ==
    r.since <= Len(history) /\ r.at <= Len(history) /\ r.got \subseteq DOMAIN history

StartKnows(r) ==
    /\ r.pc \in {"idle"} \cup StartPcs => r.got = {}
    /\ r.pc \in {"orphan", "insert", "register"} => Covered(r.since)

\* The pages fetched upwards hold every message between the cursor the sync
\* began with and the newest one fetched.
NewerKnows(r) ==
    r.pc = "fetch" /\ r.since # 0 =>
        /\ Covered(r.since)
        /\ \A t \in Tops : r.since < t /\ t <= r.at => t \in r.got
        /\ \A t \in Tops, g \in r.got : r.since < t /\ t <= g => t \in r.got

\* The pages fetched backwards hold every message from the oldest one fetched
\* to the newest.
RecentKnows(r) ==
    r.pc = "fetch" /\ r.since = 0 =>
        /\ r.at = 0 => r.got = {}
        /\ \A g \in r.got : r.at <= g
        /\ \A t \in Tops, g \in r.got : r.at <= t /\ t <= g => t \in r.got

FetchedKnows(r) ==
    r.pc \in {"threads", "upsert"} =>
        \A t \in Tops, g \in r.got \cap Tops : t <= g => t \in r.got \cup Accounted

StoredKnows(r) ==
    r.pc \in {"complete", "advance"} => \A g \in r.got \cap Tops : Covered(g)

Knows(r) ==
    /\ InRange(r) /\ StartKnows(r) /\ NewerKnows(r) /\ RecentKnows(r)
    /\ FetchedKnows(r) /\ StoredKnows(r)

\* Records of tasks, whatever the job they are to close.
TaskOf(V) == [pc : {"idle"} \cup StartPcs \cup TaskPcs, full : BOOLEAN,
              since : Nat, at : Nat, got : SUBSET Nat, stale : V]

Shaped == \E V : task \in [Slots -> TaskOf(V)]

SyncInv ==
    /\ history \in Seq(Nat) /\ cursor \in Nat /\ cursor <= Len(history)
    /\ Shaped
    /\ \A s \in Slots : Knows(task[s])
    /\ CursorCovers

-----------------------------------------------------------------------------
(* The pages.                                                               *)

\* A set of timestamps has a least member.
LEMMA LeastIsIn ==
    ASSUME NEW S, S \subseteq Nat, S # {}
    PROVE  Least(S) \in S /\ \A u \in S : Least(S) <= u
  <1>1. \E x \in S : \A y \in S : ~ (<<y, x>> \in OpToRel(<, Nat))
    BY NatLessThanWellFounded, WFMin
  <1>2. PICK x \in S : \A y \in S : ~ (<<y, x>> \in OpToRel(<, Nat))
    BY <1>1
  <1>3. \A y \in S : ~ (y < x)
    BY <1>2 DEF OpToRel
  <1>4. \A y \in S : x <= y
    BY <1>3
  <1> QED
    BY <1>4 DEF Least

\* One that is bounded has a greatest member: its least upper bound.
LEMMA GreatestIsIn ==
    ASSUME NEW S, S \subseteq Nat, S # {}, NEW b \in Nat, \A u \in S : u <= b
    PROVE  Greatest(S) \in S /\ \A u \in S : u <= Greatest(S)
  <1> DEFINE U == {n \in Nat : \A u \in S : u <= n}
  <1> DEFINE m == Least(U)
  <1>1. b \in U
    OBVIOUS
  <1>2. m \in U /\ \A u \in U : m <= u
    <2>1. U \subseteq Nat /\ U # {}
      BY <1>1
    <2> HIDE DEF U
    <2> QED
      BY <2>1, LeastIsIn
  <1>3. m \in S
    <2> SUFFICES ASSUME m \notin S PROVE FALSE
      OBVIOUS
    <2>1. m \in Nat /\ \A u \in S : u < m
      <3> HIDE DEF m
      <3> QED
        BY <1>2
    <2>2. m - 1 \in U
      <3> HIDE DEF m
      <3>1. PICK u \in S : TRUE
        OBVIOUS
      <3>2. m - 1 \in Nat
        BY <2>1, <3>1
      <3>3. \A v \in S : v <= m - 1
        BY <2>1
      <3> QED
        BY <3>2, <3>3
    <2> QED
      <3> HIDE DEF m, U
      <3> QED
        BY <2>1, <2>2, <1>2
  <1>4. \A u \in S : u <= m
    BY <1>2
  <1> HIDE DEF m, U
  <1> QED
    BY <1>3, <1>4 DEF Greatest

\* With a message a page has every older one it was taken from.
LEMMA OldestIsClosed ==
    ASSUME NEW S, S \subseteq Nat, IsFiniteSet(S), NEW n \in Int,
           NEW g \in Oldest(S, n), NEW t \in S, t <= g
    PROVE  t \in Oldest(S, n)
  <1> DEFINE A == {u \in S : u < t}
  <1> DEFINE B == {u \in S : u < g}
  <1>a. g \in S
    BY DEF Oldest
  <1>0. Cardinality(B) < n
    BY DEF Oldest
  <1>b. \A u \in A : u \in B
    <2> TAKE u \in A
    <2>1. u \in Nat /\ t \in Nat /\ g \in Nat
      BY <1>a
    <2> QED
      BY <1>a, <2>1
  <1>1. A \in SUBSET B /\ B \in SUBSET S
    BY <1>b
  <1>2. IsFiniteSet(B) /\ Cardinality(B) < n
    BY <1>0, <1>1, FS_Subset
  <1>3. IsFiniteSet(A) /\ Cardinality(A) <= Cardinality(B)
    BY <1>1, <1>2, FS_Subset
  <1>4. Cardinality(A) \in Nat /\ Cardinality(B) \in Nat
    BY <1>2, <1>3, FS_CardinalityType
  <1>5. Cardinality(A) < n
    BY <1>2, <1>3, <1>4
  <1> QED
    BY <1>5 DEF Oldest

\* And a page taken from the newest has every newer one.
LEMMA NewestIsClosed ==
    ASSUME NEW S, S \subseteq Nat, IsFiniteSet(S), NEW n \in Int,
           NEW g \in Newest(S, n), NEW t \in S, g <= t
    PROVE  t \in Newest(S, n)
  <1> DEFINE A == {u \in S : u > t}
  <1> DEFINE B == {u \in S : u > g}
  <1>a. g \in S
    BY DEF Newest
  <1>0. Cardinality(B) < n
    BY DEF Newest
  <1>b. \A u \in A : u \in B
    <2> TAKE u \in A
    <2>1. u \in Nat /\ t \in Nat /\ g \in Nat
      BY <1>a
    <2> QED
      BY <1>a, <2>1
  <1>1. A \in SUBSET B /\ B \in SUBSET S
    BY <1>b
  <1>2. IsFiniteSet(B) /\ Cardinality(B) < n
    BY <1>0, <1>1, FS_Subset
  <1>3. IsFiniteSet(A) /\ Cardinality(A) <= Cardinality(B)
    BY <1>1, <1>2, FS_Subset
  <1>4. Cardinality(A) \in Nat /\ Cardinality(B) \in Nat
    BY <1>2, <1>3, FS_CardinalityType
  <1>5. Cardinality(A) < n
    BY <1>2, <1>3, <1>4
  <1> QED
    BY <1>5 DEF Newest

\* A page of at least one message is empty only when there is nothing to fetch.
LEMMA OldestHasOne ==
    ASSUME NEW S, S \subseteq Nat, S # {}, NEW n \in Int, n > 0
    PROVE  Oldest(S, n) # {}
  <1>1. Least(S) \in S /\ \A u \in S : Least(S) <= u
    BY LeastIsIn
  <1>2. \A u \in S : ~ (u < Least(S))
    <2> TAKE u \in S
    <2>1. u \in Nat /\ Least(S) \in Nat /\ Least(S) <= u
      BY <1>1
    <2> QED
      BY <2>1
  <1>3. Cardinality({u \in S : u < Least(S)}) = 0
    <2>1. {u \in S : u < Least(S)} = {}
      BY <1>2
    <2> QED
      BY <2>1, FS_EmptySet
  <1>4. Least(S) \in Oldest(S, n)
    BY <1>1, <1>3 DEF Oldest
  <1> QED
    BY <1>4

\* A page that is not full has all there was.
LEMMA ShortIsAll ==
    ASSUME NEW S, S \subseteq Nat, IsFiniteSet(S), NEW n \in Int,
           NEW b \in Nat, \A u \in S : u <= b, Cardinality(Newest(S, n)) < n
    PROVE  Newest(S, n) = S
  <1> DEFINE N == Newest(S, n)
  <1> DEFINE D == S \ N
  <1> DEFINE g == Greatest(D)
  <1> DEFINE A == {u \in S : u > g}
  <1>1. N \subseteq S
    BY DEF Newest
  <1> SUFFICES ASSUME D # {} PROVE FALSE
    BY <1>1
  <1>2. g \in D /\ \A u \in D : u <= g
    <2>1. D \subseteq Nat /\ \A u \in D : u <= b
      OBVIOUS
    <2> HIDE DEF D
    <2> QED
      BY <2>1, GreatestIsIn
  <1>3. g \in S /\ g \notin N /\ g \in Nat
    BY <1>2
  <1>4. \A u \in A : u \in N
    <2> HIDE DEF g
    <2> QED
      BY <1>2, <1>3
  <1>5. A \subseteq N
    BY <1>4
  <1>6. IsFiniteSet(N) /\ Cardinality(N) < n
    BY <1>1, FS_Subset
  <1>7. IsFiniteSet(A) /\ Cardinality(A) <= Cardinality(N)
    <2> HIDE DEF A, N
    <2> QED
      BY <1>5, <1>6, FS_Subset
  <1>8. Cardinality(A) \in Nat /\ Cardinality(N) \in Nat
    BY <1>6, <1>7, FS_CardinalityType
  <1>9. Cardinality(A) < n
    BY <1>6, <1>7, <1>8
  <1>10. g \in Newest(S, n)
    <2> HIDE DEF g
    <2> QED
      BY <1>3, <1>9 DEF Newest
  <1> QED
    BY <1>3, <1>10

\* Timestamps of the history are naturals above zero, and finitely many.
LEMMA HistoryFinite ==
    ASSUME history \in Seq(Nat)
    PROVE  /\ DOMAIN history = 1..Len(history) /\ Len(history) \in Nat
           /\ Tops \subseteq DOMAIN history
           /\ \A S \in SUBSET (DOMAIN history) :
                  IsFiniteSet(S) /\ S \subseteq Nat /\ Cardinality(S) \in Nat
  <1>1. DOMAIN history = 1..Len(history) /\ Len(history) \in Nat
    OBVIOUS
  <1>2. IsFiniteSet(1..Len(history))
    BY <1>1, FS_Interval
  <1>3. \A S \in SUBSET (DOMAIN history) : IsFiniteSet(S) /\ S \subseteq Nat
    BY <1>1, <1>2, FS_Subset
  <1>4. \A S \in SUBSET (DOMAIN history) : Cardinality(S) \in Nat
    BY <1>3, FS_CardinalityType
  <1> QED
    BY <1>1, <1>3, <1>4 DEF Tops

-----------------------------------------------------------------------------
(* Types.                                                                   *)

\* Induction over the naturals, for a set in place of a predicate.
LEMMA AllNaturals ==
    ASSUME NEW S, 0 \in S, \A i \in Nat : i \in S => i + 1 \in S
    PROVE  Nat \subseteq S
  <1>1. PICK Bad : Bad = {i \in Nat : i \notin S}
    OBVIOUS
  <1> SUFFICES ASSUME Bad # {} PROVE FALSE
    BY <1>1
  <1>2. PICK x \in Bad : \A y \in Bad : ~ (<<y, x>> \in OpToRel(<, Nat))
    BY <1>1, NatLessThanWellFounded, WFMin
  <1>3. \A y \in Bad : ~ (y < x)
    BY <1>1, <1>2 DEF OpToRel
  <1>4. x \in Nat /\ x # 0
    BY <1>1
  <1>5. x - 1 \in Nat /\ x - 1 < x /\ (x - 1) + 1 = x
    BY <1>4
  <1>6. x - 1 \in S
    BY <1>1, <1>3, <1>5
  <1> QED
    BY <1>1, <1>5, <1>6

\* What is left of the running rows are running rows.
LEMMA WithoutType ==
    ASSUME NEW A, NEW seq \in Seq(A), NEW gone
    PROVE  Without(seq, gone) \in Seq(A)
  <1> DEFINE More(q, i) == IF seq[i] \in gone THEN q ELSE Append(q, seq[i])
  <1> DEFINE Is(f, m) == f = [i \in 0..m |-> IF i = 0 THEN <<>> ELSE More(f[i - 1], i)]
  <1> DEFINE T == {m \in Nat : \E f : Is(f, m)}
  <1>1. PICK n \in Nat : n = Len(seq)
    OBVIOUS
  <1>2. 0 \in T
    <2>1. PICK f : f = [i \in 0..0 |-> <<>>]
      OBVIOUS
    <2>2. Is(f, 0)
      BY <2>1
    <2> QED
      BY <2>2
  <1>3. ASSUME NEW m \in Nat, m \in T PROVE m + 1 \in T
    <2>1. PICK f : Is(f, m)
      BY <1>3
    <2>2. \A i \in 0..m : f[i] = IF i = 0 THEN <<>> ELSE More(f[i - 1], i)
      BY <2>1
    <2> HIDE DEF More
    <2>3. PICK g : g = [i \in 0..(m + 1) |-> IF i <= m THEN f[i] ELSE More(f[m], m + 1)]
      OBVIOUS
    <2>4. \A i \in 0..m : g[i] = f[i]
      BY <2>3
    <2>5. g[m + 1] = More(f[m], m + 1)
      BY <2>3
    <2>6. \A i \in 0..(m + 1) : g[i] = IF i = 0 THEN <<>> ELSE More(g[i - 1], i)
      <3> TAKE i \in 0..(m + 1)
      <3>1. CASE i = m + 1
        BY <3>1, <2>4, <2>5
      <3>2. CASE i # m + 1
        <4>1. i \in 0..m /\ (i # 0 => i - 1 \in 0..m)
          BY <3>2
        <4> QED
          BY <4>1, <2>2, <2>4
      <3> QED
        BY <3>1, <3>2
    <2>7. Is(g, m + 1)
      <3>1. g = [i \in 0..(m + 1) |-> g[i]]
        BY <2>3
      <3> QED
        BY <2>6, <3>1
    <2> HIDE DEF Is
    <2> QED
      BY <2>7
  <1>4. n \in T
    <2> HIDE DEF T
    <2> QED
      BY <1>2, <1>3, AllNaturals
  <1>5. PICK f : Is(f, n) /\ Without(seq, gone) = f[n]
    <2> DEFINE kept == CHOOSE f : Is(f, n)
    <2>1. Is(kept, n)
      <3> HIDE DEF Is
      <3> QED
        BY <1>4
    <2>2. Without(seq, gone) = kept[n]
      BY <1>1 DEF Without
    <2> HIDE DEF kept
    <2> QED
      BY <2>1, <2>2
  <1>6. f[0] = <<>> /\ \A i \in 1..n : f[i] = More(f[i - 1], i)
    <2> HIDE DEF More
    <2>1. \A i \in 0..n : f[i] = IF i = 0 THEN <<>> ELSE More(f[i - 1], i)
      BY <1>5
    <2>2. 0 \in 0..n /\ \A i \in 1..n : i \in 0..n /\ i # 0
      OBVIOUS
    <2> QED
      BY <2>1, <2>2
  <1>7. \A i \in 1..n, q \in Seq(A) : More(q, i) \in Seq(A)
    BY <1>1
  <1> DEFINE U == {m \in Nat : m <= n => f[m] \in Seq(A)}
  <1>8. 0 \in U
    <2>1. <<>> \in Seq(A) /\ 0 \in Nat
      OBVIOUS
    <2>2. f[0] = <<>>
      BY <1>6
    <2> QED
      BY <2>1, <2>2
  <1> HIDE DEF More, Is, T
  <1>9. ASSUME NEW m \in Nat, m \in U PROVE m + 1 \in U
    <2> SUFFICES ASSUME m + 1 <= n PROVE f[m + 1] \in Seq(A)
      OBVIOUS
    <2>1. m + 1 \in 1..n /\ (m + 1) - 1 = m /\ f[m] \in Seq(A)
      BY <1>9
    <2>2. f[m + 1] = More(f[m], m + 1)
      BY <2>1, <1>6
    <2> QED
      BY <2>1, <2>2, <1>7
  <1>10. n \in U
    <2> HIDE DEF U
    <2> QED
      BY <1>8, <1>9, AllNaturals
  <1> QED
    BY <1>5, <1>10

\* A step of one slot's call or task.
LEMMA SlotTyped ==
    ASSUME task \in [Slots -> Task], NEW s \in Slots, NEW r \in Task,
           task' = [task EXCEPT ![s] = r]
    PROVE  task' \in [Slots -> Task]
  OBVIOUS

LEMMA GotoTyped ==
    ASSUME task \in [Slots -> Task], NEW s \in Slots,
           NEW pc \in {"idle"} \cup StartPcs \cup TaskPcs, Goto(s, pc)
    PROVE  task' \in [Slots -> Task]
  BY DEF Goto, Task

LEMMA OverTyped ==
    ASSUME task \in [Slots -> Task], NEW s \in Slots, Over(s)
    PROVE  task' \in [Slots -> Task]
  <1>1. Quiet \in Task
    BY SyncAssumption DEF Quiet, Task, Timestamps
  <1> QED
    BY <1>1 DEF Over

LEMMA StaleTyped ==
    ASSUME task \in [Slots -> Task],
           task' = [s \in Slots |-> [task[s] EXCEPT !.stale = NoSlot]]
    PROVE  task' \in [Slots -> Task]
  BY DEF Task

LEMMA CompleteJobTyped ==
    ASSUME jobs \in Seq(Slots), NEW x, CompleteJob(x)
    PROVE  jobs' \in Seq(Slots)
  BY WithoutType DEF CompleteJob

\* What the messages fetched, and the history, are made of.
LEMMA TypedHistory ==
    ASSUME TypeOK
    PROVE  /\ history \in Seq(Nat) /\ DOMAIN history \subseteq Timestamps
           /\ Tops \subseteq Timestamps
           /\ \A P : Replies(P) \subseteq Timestamps
           /\ \A T \in SUBSET Timestamps :
                  IsFiniteSet(T) /\ T \subseteq Nat /\ Cardinality(T) \in Nat
  <1>1. MaxPosts \in Nat /\ history \in Seq(0..MaxPosts) /\ Len(history) <= MaxPosts
    BY SyncAssumption DEF TypeOK
  <1>2. DOMAIN history = 1..Len(history) /\ Len(history) \in Nat
    BY <1>1
  <1>3. IsFiniteSet(Timestamps) /\ Timestamps \subseteq Nat
    BY <1>1, FS_Interval DEF Timestamps
  <1>4. \A T \in SUBSET Timestamps : IsFiniteSet(T) /\ T \subseteq Nat
    BY <1>3, FS_Subset
  <1>5. \A T \in SUBSET Timestamps : Cardinality(T) \in Nat
    BY <1>4, FS_CardinalityType
  <1>6. DOMAIN history \subseteq Timestamps
    BY <1>1, <1>2 DEF Timestamps
  <1>7. history \in Seq(Nat)
    BY <1>1
  <1> QED
    BY <1>4, <1>5, <1>6, <1>7 DEF Tops, Replies

\* The greatest and the least of some timestamps are timestamps.
LEMMA EndsTyped ==
    ASSUME NEW T \in SUBSET Timestamps, T # {}
    PROVE  Greatest(T) \in 0..MaxPosts /\ Least(T) \in 0..MaxPosts
  <1>1. T \subseteq Nat /\ MaxPosts \in Nat /\ \A t \in T : t <= MaxPosts
    BY SyncAssumption DEF Timestamps
  <1>2. Greatest(T) \in T /\ Least(T) \in T
    <2>1. Least(T) \in T
      BY <1>1, LeastIsIn
    <2>2. PICK b \in Nat : \A t \in T : t <= b
      BY <1>1
    <2>3. Greatest(T) \in T
      BY <1>1, <2>2, GreatestIsIn
    <2> QED
      BY <2>1, <2>3
  <1>3. Timestamps \subseteq 0..MaxPosts
    BY <1>1 DEF Timestamps
  <1> QED
    BY <1>2, <1>3

LEMMA StartStepTyped ==
    ASSUME TypeOK, NEW s \in Slots, Enter(s) \/ StartStep(s)
    PROVE  TypeOK'
  <1> USE DEF StartPcs, TaskPcs
  <1>0. /\ task \in [Slots -> Task] /\ jobs \in Seq(Slots) /\ cursor \in 0..MaxPosts
        /\ task[s] \in Task
    BY DEF TypeOK
  <1>1. CASE Enter(s)
    <2>1. task' \in [Slots -> Task]
      BY <1>0, <1>1, GotoTyped DEF Enter
    <2> QED
      BY <1>1, <2>1 DEF TypeOK, Enter, storeVars, histVars
  <1>2. CASE RecoverStale(s)
    <2>1. task' \in [Slots -> Task]
      BY <1>0, <1>2, GotoTyped DEF RecoverStale
    <2>2. jobs' \in Seq(Slots)
      BY <1>0, <1>2, WithoutType DEF RecoverStale
    <2> QED
      BY <1>2, <2>1, <2>2 DEF TypeOK, RecoverStale, histVars
  <1>3. CASE Guard(s)
    <2>1. CASE Over(s)
      <3>1. task' \in [Slots -> Task]
        BY <1>0, <2>1, OverTyped
      <3> QED
        BY <1>3, <3>1 DEF TypeOK, Guard, storeVars, histVars
    <2>2. CASE Goto(s, "mode")
      <3>1. task' \in [Slots -> Task]
        BY <1>0, <2>2, GotoTyped
      <3> QED
        BY <1>3, <3>1 DEF TypeOK, Guard, storeVars, histVars
    <2>3. CASE /\ jobs # <<>>
               /\ task' = [task EXCEPT ![s].pc = "close", ![s].stale = jobs[Len(jobs)]]
      <3>1. PICK j \in Slots : j = jobs[Len(jobs)]
        BY <1>0, <2>3
      <3>2. task' = [task EXCEPT ![s].pc = "close", ![s].stale = j]
        BY <2>3, <3>1
      <3>3. task' \in [Slots -> Task]
        BY <1>0, <3>2, ZenonT(60) DEF Task
      <3> QED
        BY <1>3, <3>3 DEF TypeOK, Guard, storeVars, histVars
    <2> QED
      BY <1>3, <2>1, <2>2, <2>3 DEF Guard
  <1>4. CASE CloseStale(s)
    <2>1. jobs' \in Seq(Slots)
      BY <1>0, <1>4, CompleteJobTyped DEF CloseStale
    <2>2. task' = [task EXCEPT ![s].pc = "mode", ![s].stale = NoSlot]
      BY <1>4 DEF CloseStale
    <2>3. task' \in [Slots -> Task]
      BY <1>0, <2>2, ZenonT(60) DEF Task
    <2> QED
      BY <1>4, <2>1, <2>3 DEF TypeOK, CloseStale, histVars
  <1>5. CASE ReadState(s)
    <2>1. \E full \in BOOLEAN, c \in {0, cursor} :
            task' = [task EXCEPT ![s].pc = "orphan", ![s].full = full, ![s].since = c]
      <3>1. PICK type \in {"auto", "full", "incremental"} :
              LET full == type = "full" \/ (type = "auto" /\ cursor = 0)
              IN  task' = [task EXCEPT ![s].pc = "orphan", ![s].full = full,
                                       ![s].since = IF full THEN 0 ELSE cursor]
        BY <1>5 DEF ReadState
      <3>2. CASE type = "full" \/ (type = "auto" /\ cursor = 0)
        <4>1. task' = [task EXCEPT ![s].pc = "orphan", ![s].full = TRUE, ![s].since = 0]
          BY <3>1, <3>2
        <4> QED
          BY <4>1
      <3>3. CASE ~ (type = "full" \/ (type = "auto" /\ cursor = 0))
        <4>1. task' = [task EXCEPT ![s].pc = "orphan", ![s].full = FALSE,
                                   ![s].since = cursor]
          BY <3>1, <3>3
        <4> QED
          BY <4>1
      <3> QED
        BY <3>2, <3>3
    <2>2. PICK full \in BOOLEAN, c \in {0, cursor} :
            task' = [task EXCEPT ![s].pc = "orphan", ![s].full = full, ![s].since = c]
      BY <2>1
    <2>3. c \in 0..MaxPosts
      BY <1>0, <2>2, SyncAssumption
    <2>4. task' \in [Slots -> Task]
      <3>1. task'[s] = [pc |-> "orphan", full |-> full, since |-> c, at |-> task[s].at,
                        got |-> task[s].got, stale |-> task[s].stale]
        BY <1>0, <2>2, ZenonT(60) DEF Task
      <3>2. task'[s] \in Task
        BY <1>0, <2>3, <3>1 DEF Task
      <3>3. task' = [task EXCEPT ![s] = task'[s]]
        BY <1>0, <2>2
      <3> QED
        BY <1>0, <3>2, <3>3
    <2> QED
      BY <1>5, <2>4 DEF TypeOK, ReadState, storeVars, histVars
  <1>6. CASE OrphanRunning(s)
    <2>1. task' \in [Slots -> Task]
      BY <1>0, <1>6, GotoTyped DEF OrphanRunning
    <2> QED
      BY <1>6, <2>1 DEF TypeOK, OrphanRunning, histVars
  <1>7. CASE InsertJob(s)
    <2>1. jobs' \in Seq(Slots)
      BY <1>0, <1>7 DEF InsertJob
    <2>2. task' = [u \in Slots |->
                 IF u = s THEN [task[s] EXCEPT !.pc = "register"]
                 ELSE IF task[u].stale = s THEN [task[u] EXCEPT !.stale = NoSlot]
                 ELSE task[u]]
      BY <1>7 DEF InsertJob
    <2>3. task' \in [Slots -> Task]
      BY <1>0, <2>2 DEF Task
    <2> QED
      BY <1>7, <2>1, <2>3 DEF TypeOK, InsertJob, histVars
  <1>8. CASE Register(s)
    <2>1. task' = [task EXCEPT ![s].pc = "fetch", ![s].at = task[s].since]
      BY <1>8 DEF Register
    <2>2. task' \in [Slots -> Task]
      BY <1>0, <2>1, ZenonT(60) DEF Task
    <2>3. active' \in Slots \cup {NoSlot}
      BY <1>8 DEF Register
    <2> QED
      BY <1>8, <2>2, <2>3 DEF TypeOK, Register, storeVars, histVars
  <1> QED
    BY <1>1, <1>2, <1>3, <1>4, <1>5, <1>6, <1>7, <1>8 DEF StartStep

\* A page is a part of what it is taken from.
LEMMA FetchedTyped ==
    ASSUME TypeOK, NEW s \in Slots, NEW got \in SUBSET Timestamps, Fetched(s, got)
    PROVE  task' \in [Slots -> Task]
  <1> USE DEF StartPcs, TaskPcs
  <1>0. task \in [Slots -> Task] /\ task[s] \in Task
    BY DEF TypeOK
  <1>1. 0 \in 0..MaxPosts /\ {} \in SUBSET Timestamps
    BY SyncAssumption
  <1>2. PICK r : /\ r = IF got = {} /\ ~task[s].full
                        THEN [task[s] EXCEPT !.full = TRUE, !.since = 0, !.at = 0, !.got = {}]
                        ELSE [Quiet EXCEPT !.pc = "threads", !.got = got]
                 /\ task' = [task EXCEPT ![s] = r]
    BY <1>0 DEF Fetched
  <1>3. [task[s] EXCEPT !.full = TRUE, !.since = 0, !.at = 0, !.got = {}] \in Task
    BY <1>0, <1>1, ZenonT(60) DEF Task
  <1>4. [Quiet EXCEPT !.pc = "threads", !.got = got] \in Task
    BY <1>1 DEF Task, Quiet
  <1>5. r \in Task
    BY <1>2, <1>3, <1>4
  <1> QED
    BY <1>0, <1>2, <1>5, SlotTyped

LEMMA FetchTyped ==
    ASSUME TypeOK, NEW s \in Slots, FetchNewer(s) \/ FetchRecent(s) \/ FetchThreads(s)
    PROVE  TypeOK'
  <1> USE DEF StartPcs, TaskPcs
  <1>0. /\ task \in [Slots -> Task] /\ task[s] \in Task
        /\ task[s].got \in SUBSET Timestamps /\ skipped \subseteq Timestamps
    BY DEF TypeOK, Task
  <1>1. /\ Tops \subseteq Timestamps /\ \A P : Replies(P) \subseteq Timestamps
        /\ \A T \in SUBSET Timestamps : Cardinality(T) \in Nat /\ T \subseteq Nat
    BY TypedHistory
  <1>2. CASE FetchNewer(s)
    <2> DEFINE batch == Newer(s)
    <2> DEFINE got == task[s].got \cup Oldest(batch, Limit - Cardinality(task[s].got))
    <2>1. batch \in SUBSET Timestamps /\ got \in SUBSET Timestamps
      BY <1>0, <1>1 DEF Oldest, Newest, Newer, Ahead
    <2>2. CASE Fetched(s, got)
      <3>1. task' \in [Slots -> Task]
        <4> HIDE DEF got
        <4> QED
          BY <2>1, <2>2, FetchedTyped
      <3> QED
        BY <1>2, <3>1 DEF TypeOK, FetchNewer, storeVars, histVars
    <2>3. CASE batch # {} /\ task' = [task EXCEPT ![s] = NextFrom(s, got)]
      <3>1. got # {}
        <4>1. CASE task[s].got # {}
          BY <4>1
        <4>2. CASE task[s].got = {}
          <5>1. Cardinality(task[s].got) = 0
            BY <4>2, FS_EmptySet
          <5>2. Limit - Cardinality(task[s].got) \in Int /\ Limit - Cardinality(task[s].got) > 0
            BY <5>1, SyncAssumption
          <5>3. batch \subseteq Nat
            BY <2>1, <1>1
          <5> HIDE DEF batch
          <5> QED
            BY <2>3, <5>2, <5>3, OldestHasOne
        <4> QED
          BY <4>1, <4>2
      <3> HIDE DEF batch, got
      <3>2. Greatest(got) \in 0..MaxPosts
        BY <2>1, <3>1, EndsTyped
      <3>3. NextFrom(s, got) \in Task
        <4>1. PICK m \in 0..MaxPosts : m = Greatest(got)
          BY <3>2
        <4>2. [task[s] EXCEPT !.got = got, !.at = m] \in Task
          BY <1>0, <2>1, ZenonT(60) DEF Task
        <4> QED
          BY <4>1, <4>2 DEF NextFrom
      <3>4. task' \in [Slots -> Task]
        BY <1>0, <2>3, <3>3, SlotTyped
      <3> QED
        BY <1>2, <3>4 DEF TypeOK, FetchNewer, storeVars, histVars
    <2> QED
      BY <1>2, <2>2, <2>3 DEF FetchNewer
  <1>3. CASE FetchRecent(s)
    <2> DEFINE batch == Behind(task[s].at)
    <2> DEFINE got == task[s].got \cup batch
    <2> DEFINE kept == Newest(got, Limit)
    <2> DEFINE spent == Cardinality(got) >= Limit
    <2>1. /\ batch \in SUBSET Timestamps /\ got \in SUBSET Timestamps
          /\ kept \in SUBSET Timestamps
      BY <1>0, <1>1 DEF Newest, Behind
    <2>2. CASE /\ Fetched(s, kept)
               /\ skipped' = skipped \cup {t \in Tops : spent /\ \A u \in kept : t < u}
      <3> HIDE DEF kept, got, batch, spent
      <3>1. task' \in [Slots -> Task]
        BY <2>1, <2>2, FetchedTyped
      <3>2. skipped' \subseteq Timestamps
        BY <1>0, <1>1, <2>2
      <3> QED
        BY <1>3, <3>1, <3>2 DEF TypeOK, FetchRecent, storeVars
    <2>3. CASE /\ ~ (Cardinality(batch) < Page) /\ UNCHANGED skipped
               /\ task' = [task EXCEPT ![s].got = got, ![s].at = Least(batch)]
      <3> HIDE DEF kept, got, batch, spent
      <3>1. batch # {}
        <4>1. Cardinality({}) = 0 /\ Page \in Nat /\ Page > 0
          BY FS_EmptySet, SyncAssumption
        <4> QED
          BY <2>3, <4>1
      <3>2. PICK m \in 0..MaxPosts : m = Least(batch)
        BY <2>1, <3>1, EndsTyped
      <3>3. task' = [task EXCEPT ![s].got = got, ![s].at = m]
        BY <2>3, <3>2
      <3>4. task' \in [Slots -> Task]
        BY <1>0, <2>1, <3>3, ZenonT(60) DEF Task
      <3> QED
        BY <1>3, <2>3, <3>4 DEF TypeOK, FetchRecent, storeVars
    <2> QED
      BY <1>3, <2>2, <2>3 DEF FetchRecent
  <1>4. CASE FetchThreads(s)
    <2>1. \E P : task' = [task EXCEPT ![s].pc = "upsert",
                                      ![s].got = task[s].got \cup Replies(P)]
      BY <1>0, <1>4 DEF FetchThreads, Task
    <2>2. PICK P : task' = [task EXCEPT ![s].pc = "upsert",
                                      ![s].got = task[s].got \cup Replies(P)]
      BY <2>1
    <2>3. PICK got \in SUBSET Timestamps : got = task[s].got \cup Replies(P)
      BY <1>0, <1>1
    <2>4. task' = [task EXCEPT ![s].pc = "upsert", ![s].got = got]
      BY <2>2, <2>3
    <2>5. task' \in [Slots -> Task]
      BY <1>0, <2>4, ZenonT(60) DEF Task
    <2>6. faults' \in 0..MaxFaults
      BY <1>4, SyncAssumption DEF FetchThreads, Fault, TypeOK
    <2> QED
      BY <1>4, <2>5, <2>6 DEF TypeOK, FetchThreads, storeVars, histVars
  <1> QED
    BY <1>2, <1>3, <1>4

LEMMA RunStepTyped ==
    ASSUME TypeOK, NEW s \in Slots, Upsert(s) \/ Complete(s) \/ Advance(s) \/ Finish(s)
    PROVE  TypeOK'
  <1> USE DEF StartPcs, TaskPcs
  <1>0. /\ task \in [Slots -> Task] /\ task[s] \in Task /\ jobs \in Seq(Slots)
        /\ task[s].got \in SUBSET Timestamps /\ Tops \subseteq Timestamps
    BY TypedHistory DEF TypeOK, Task
  <1>1. CASE Upsert(s)
    <2>1. task' \in [Slots -> Task]
      BY <1>0, <1>1, GotoTyped DEF Upsert
    <2>2. /\ rows' \subseteq Timestamps /\ lost' \subseteq Timestamps
          /\ faults' \in 0..MaxFaults
      BY <1>0, <1>1, SyncAssumption DEF Upsert, Fault, TypeOK
    <2> QED
      BY <1>1, <2>1, <2>2 DEF TypeOK, Upsert
  <1>2. CASE Complete(s)
    <2>1. task' \in [Slots -> Task]
      BY <1>0, <1>2, GotoTyped DEF Complete
    <2>2. jobs' \in Seq(Slots)
      BY <1>0, <1>2, CompleteJobTyped DEF Complete
    <2> QED
      BY <1>2, <2>1, <2>2 DEF TypeOK, Complete, histVars
  <1>3. CASE Advance(s)
    <2>1. task' \in [Slots -> Task]
      BY <1>0, <1>3, GotoTyped DEF Advance
    <2>2. PICK top \in SUBSET Timestamps : top = task[s].got \cap Tops
      BY <1>0
    <2>3. cursor' = IF top = {} THEN cursor ELSE Greatest(top)
      BY <1>3, <2>2 DEF Advance
    <2>4. cursor' \in 0..MaxPosts
      BY <2>2, <2>3, EndsTyped DEF TypeOK
    <2> QED
      BY <1>3, <2>1, <2>4 DEF TypeOK, Advance, histVars
  <1>4. CASE Finish(s)
    <2>1. task' \in [Slots -> Task]
      BY <1>0, <1>4, OverTyped DEF Finish
    <2> QED
      BY <1>4, <2>1 DEF TypeOK, Finish, storeVars, histVars
  <1> QED
    BY <1>1, <1>2, <1>3, <1>4

LEMMA FailureTyped ==
    ASSUME TypeOK, NEW s \in Slots, StartFails(s) \/ FetchFails(s) \/ RunFails(s)
    PROVE  TypeOK'
  <1>1. task' \in [Slots -> Task]
    BY OverTyped DEF TypeOK, StartFails, FetchFails, RunFails
  <1>2. jobs' \in Seq(Slots)
    BY CompleteJobTyped DEF TypeOK, StartFails, FetchFails, RunFails, storeVars
  <1>3. faults' \in 0..MaxFaults
    BY SyncAssumption DEF TypeOK, StartFails, FetchFails, RunFails, Fault
  <1> QED
    BY <1>1, <1>2, <1>3 DEF TypeOK, StartFails, FetchFails, RunFails, storeVars, histVars

LEMMA PostTyped ==
    ASSUME TypeOK, Post
    PROVE  TypeOK'
  <1>1. PICK parent \in {0} \cup Tops : history' = Append(history, parent)
    BY DEF Post
  <1>2. parent \in 0..MaxPosts
    BY <1>1, TypedHistory, SyncAssumption DEF Timestamps
  <1>3. history' \in Seq(0..MaxPosts) /\ Len(history') <= MaxPosts
    BY <1>1, <1>2, SyncAssumption DEF TypeOK, Post
  <1> QED
    BY <1>3 DEF TypeOK, Post, storeVars, histVars

LEMMA RestartTyped ==
    ASSUME TypeOK, Restart
    PROVE  TypeOK'
  <1>1. task' \in [Slots -> Task]
    BY SyncAssumption DEF Restart, Quiet, Task, Timestamps
  <1>2. faults' \in 0..MaxFaults
    BY SyncAssumption DEF TypeOK, Restart, Fault
  <1> QED
    BY <1>1, <1>2 DEF TypeOK, Restart, storeVars, histVars

LEMMA SyncWorkTyped ==
    ASSUME TypeOK, SyncWork
    PROVE  TypeOK'
  <1>1. CASE ClearSyncState
    <2>1. task' \in [Slots -> Task]
      BY <1>1, StaleTyped DEF TypeOK, ClearSyncState
    <2>2. faults' \in 0..MaxFaults /\ jobs' \in Seq(Slots) /\ cursor' \in 0..MaxPosts
      BY <1>1, SyncAssumption DEF TypeOK, ClearSyncState, Fault
    <2> QED
      BY <1>1, <2>1, <2>2 DEF TypeOK, ClearSyncState, histVars
  <1> QED
    BY <1>1, PostTyped, StartStepTyped, FetchTyped, RunStepTyped, FailureTyped
    DEF SyncWork, TaskStep

LEMMA TypedAtFirst ==
    ASSUME SyncInit
    PROVE  TypeOK
  <1>1. task \in [Slots -> Task]
    BY SyncAssumption DEF SyncInit, Quiet, Task, Timestamps
  <1> QED
    BY <1>1, SyncAssumption DEF SyncInit, TypeOK, Timestamps

\* In SyncSpec every variable keeps its type: no filter, page or cursor of the
\* sync runner leaves the slots and timestamps there are.
THEOREM SyncTyped == SyncSpec => []TypeOK
  <1>1. TypeOK /\ [SyncNext]_syncVars => TypeOK'
    <2>1. ASSUME TypeOK, UNCHANGED syncVars PROVE TypeOK'
      BY <2>1 DEF TypeOK, syncVars, storeVars, histVars
    <2> QED
      BY <2>1, SyncWorkTyped, RestartTyped DEF SyncNext
  <1> QED
    BY <1>1, TypedAtFirst, PTL DEF SyncSpec

-----------------------------------------------------------------------------
(* Steps that do not touch a task.                                          *)

\* The fetch of u is where it was.
SameFetch(u) ==
    /\ task'[u].pc = task[u].pc /\ task'[u].since = task[u].since
    /\ task'[u].at = task[u].at /\ task'[u].got = task[u].got

\* The platform only adds messages at the end.
HistoryGrows ==
    /\ history' \in Seq(Nat) /\ Len(history) <= Len(history')
    /\ \A t \in DOMAIN history : history'[t] = history[t]

LEMMA TopsGrow ==
    ASSUME history \in Seq(Nat), HistoryGrows
    PROVE  /\ Tops \subseteq Tops' /\ DOMAIN history \subseteq DOMAIN history'
           /\ \A t \in Tops' : t \in Nat /\ (t \in Tops \/ t > Len(history))
  BY DEF HistoryGrows, Tops

\* Later messages and further stored ones leave a covered cursor covered.
LEMMA CoveredKept ==
    ASSUME history \in Seq(Nat), HistoryGrows, Accounted \subseteq Accounted',
           NEW c \in Nat, c <= Len(history), Covered(c)
    PROVE  \A t \in Tops' : t <= c => t \in Accounted'
  <1>1. Len(history) \in Nat
    OBVIOUS
  <1> QED
    BY <1>1, TopsGrow DEF Covered

\* What a task knows stays true while it waits.
LEMMA KnowsKept ==
    ASSUME SyncInv, HistoryGrows, Accounted \subseteq Accounted',
           NEW u \in Slots, SameFetch(u)
    PROVE  Knows(task[u])'
  <1> DEFINE n == Len(history)
  <1>1. history \in Seq(Nat) /\ Knows(task[u]) /\ n \in Nat /\ DOMAIN history = 1..n
    BY DEF SyncInv
  <1>2. /\ task[u].since \in Nat /\ task[u].at \in Nat
        /\ task[u].got \subseteq Nat
    BY DEF SyncInv, Shaped, TaskOf
  <1>3. /\ Tops \subseteq Tops' /\ DOMAIN history \subseteq DOMAIN history'
        /\ \A t \in Tops' : t \in Nat /\ (t \in Tops \/ t > n)
    BY <1>1, TopsGrow
  <1>4. InRange(task[u])'
    BY <1>1, <1>2, <1>3 DEF Knows, InRange, SameFetch, HistoryGrows
  <1>5. /\ task[u].since <= n /\ task[u].at <= n
        /\ \A g \in task[u].got : g \in Nat /\ g <= n
    BY <1>1 DEF Knows, InRange
  <1>6. \A c \in Nat : c <= n /\ Covered(c) => \A t \in Tops' : t <= c => t \in Accounted'
    BY <1>1, CoveredKept
  <1> HIDE DEF n
  <1>7. StartKnows(task[u])'
    BY <1>1, <1>2, <1>5, <1>6 DEF Knows, StartKnows, SameFetch, Covered
  <1>8. NewerKnows(task[u])'
    <2> SUFFICES ASSUME task[u].pc = "fetch", task[u].since # 0
                 PROVE  NewerKnows(task[u])'
      BY DEF NewerKnows, SameFetch
    <2>1. /\ Covered(task[u].since)
          /\ \A t \in Tops : task[u].since < t /\ t <= task[u].at => t \in task[u].got
          /\ \A t \in Tops, g \in task[u].got :
                 task[u].since < t /\ t <= g => t \in task[u].got
      BY <1>1 DEF Knows, NewerKnows
    <2>2. \A t \in Tops' : t <= task[u].since => t \in Accounted'
      BY <2>1, <1>2, <1>5, <1>6
    <2>3. \A t \in Tops' : task[u].since < t /\ t <= task[u].at => t \in task[u].got
      BY <2>1, <1>1, <1>2, <1>3, <1>5
    <2>4. \A t \in Tops', g \in task[u].got :
              task[u].since < t /\ t <= g => t \in task[u].got
      BY <2>1, <1>1, <1>2, <1>3, <1>5
    <2> QED
      BY <2>2, <2>3, <2>4 DEF NewerKnows, SameFetch, Covered
  <1>9. RecentKnows(task[u])'
    <2> SUFFICES ASSUME task[u].pc = "fetch", task[u].since = 0
                 PROVE  RecentKnows(task[u])'
      BY DEF RecentKnows, SameFetch
    <2>1. \A t \in Tops', g \in task[u].got :
              task[u].at <= t /\ t <= g => t \in task[u].got
      BY <1>1, <1>2, <1>3, <1>5 DEF Knows, RecentKnows
    <2> QED
      BY <2>1, <1>1 DEF Knows, RecentKnows, SameFetch
  <1>10. FetchedKnows(task[u])'
    <2> SUFFICES ASSUME task[u].pc \in {"threads", "upsert"},
                        NEW t \in Tops', NEW g \in task[u].got \cap Tops', t <= g
                 PROVE  t \in task[u].got \cup Accounted'
      BY DEF FetchedKnows, SameFetch
    <2>1. t \in Tops /\ g \in Tops
      BY <1>1, <1>3, <1>5
    <2> QED
      BY <2>1, <1>1 DEF Knows, FetchedKnows
  <1>11. StoredKnows(task[u])'
    <2> SUFFICES ASSUME task[u].pc \in {"complete", "advance"},
                        NEW g \in task[u].got \cap Tops', NEW t \in Tops', t <= g
                 PROVE  t \in Accounted'
      BY DEF StoredKnows, SameFetch, Covered
    <2>1. g \in Tops /\ g \in Nat /\ g <= n
      BY <1>1, <1>3, <1>5
    <2>2. Covered(g)
      BY <2>1, <1>1 DEF Knows, StoredKnows
    <2> QED
      BY <2>1, <2>2, <1>6
  <1> QED
    BY <1>4, <1>7, <1>8, <1>9, <1>10, <1>11 DEF Knows

\* A step of one task that leaves the history and the cursor alone keeps the
\* invariant when that task's new step is justified.
LEMMA TaskMoves ==
    ASSUME SyncInv, NEW s \in Slots, history' = history, cursor' = cursor,
           Accounted \subseteq Accounted', Shaped',
           \A u \in Slots \ {s} : SameFetch(u), Knows(task[s])'
    PROVE  SyncInv'
  <1>1. HistoryGrows
    BY DEF HistoryGrows, SyncInv
  <1>2. \A u \in Slots : Knows(task[u])'
    BY <1>1, KnowsKept
  <1>3. CursorCovers'
    <2>1. Covered(cursor) /\ cursor \in Nat /\ cursor <= Len(history)
      BY DEF SyncInv, CursorCovers, Covered, Accounted
    <2>2. \A t \in Tops' : t <= cursor => t \in Accounted'
      BY <2>1, <1>1, CoveredKept DEF SyncInv
    <2> QED
      BY <2>2 DEF CursorCovers, Accounted
  <1> QED
    BY <1>2, <1>3 DEF SyncInv

-----------------------------------------------------------------------------
(* The actions.                                                             *)

\* A step that leaves what is stored alone leaves every message accounted for.
LEMMA SameStores ==
    ASSUME UNCHANGED <<history, rows, lost, skipped>>
    PROVE  Tops' = Tops /\ Accounted' = Accounted
  BY DEF Tops, Accounted

\* start_sync knows nothing of messages until it has read the cursor, and then
\* that the cursor is covered.
LEMMA StartMoves ==
    ASSUME SyncInv, NEW s \in Slots, UNCHANGED <<history, rows, cursor, lost, skipped>>,
           Shaped', \A u \in Slots \ {s} : SameFetch(u),
           task[s].pc \in {"idle"} \cup StartPcs,
           task'[s].pc \in {"idle"} \cup StartPcs,
           task'[s].got = {}, task'[s].at <= Len(history),
           task'[s].since <= Len(history),
           task'[s].pc \in {"orphan", "insert", "register"} => Covered(task'[s].since)
    PROVE  SyncInv'
  <1>1. Tops' = Tops /\ Accounted' = Accounted
    BY SameStores
  <1>2. StartKnows(task[s])'
    BY <1>1 DEF StartKnows, Covered
  <1>3. InRange(task[s])'
    BY DEF InRange
  <1>4. /\ NewerKnows(task[s])' /\ RecentKnows(task[s])'
        /\ FetchedKnows(task[s])' /\ StoredKnows(task[s])'
    BY DEF NewerKnows, RecentKnows, FetchedKnows, StoredKnows, StartPcs
  <1>5. Knows(task[s])'
    BY <1>2, <1>3, <1>4 DEF Knows
  <1> QED
    BY <1>1, <1>5, TaskMoves

LEMMA StartStepKeeps ==
    ASSUME SyncInv, NEW s \in Slots, Enter(s) \/ StartStep(s)
    PROVE  SyncInv'
  <1> USE DEF TaskOf, StartPcs, TaskPcs
  <1>0. PICK V : task \in [Slots -> TaskOf(V)]
    BY DEF SyncInv, Shaped
  <1>1. /\ Knows(task[s]) /\ Len(history) \in Nat
        /\ Covered(cursor) /\ Covered(0) /\ cursor \in Nat /\ cursor <= Len(history)
    BY DEF SyncInv, CursorCovers, Covered, Accounted, Tops
  <1>2. ASSUME Enter(s) PROVE SyncInv'
    <2>1. task' = [task EXCEPT ![s].pc = "recover"] /\ task[s].pc = "idle"
      BY <1>2 DEF Enter, Goto
    <2>2. task' \in [Slots -> TaskOf(V)]
      BY <2>1, <1>0
    <2>3. Shaped'
      BY <2>2 DEF Shaped
    <2> QED
      BY <1>0, <1>1, <1>2, <2>1, <2>3, StartMoves
      DEF Enter, SameFetch, Knows, StartKnows, InRange, storeVars, histVars
  <1>3. ASSUME RecoverStale(s) PROVE SyncInv'
    <2>1. task' = [task EXCEPT ![s].pc = "guard"] /\ task[s].pc = "recover"
      BY <1>3 DEF RecoverStale, Goto
    <2>2. task' \in [Slots -> TaskOf(V)]
      BY <2>1, <1>0
    <2>3. Shaped'
      BY <2>2 DEF Shaped
    <2> QED
      BY <1>0, <1>1, <1>3, <2>1, <2>3, StartMoves
      DEF RecoverStale, SameFetch, Knows, StartKnows, InRange, histVars
  <1>4. ASSUME Guard(s) PROVE SyncInv'
    <2>1. /\ task[s].pc = "guard" /\ UNCHANGED <<history, rows, cursor, lost, skipped>>
          /\ \/ task' = [task EXCEPT ![s] = Quiet]
             \/ task' = [task EXCEPT ![s].pc = "close", ![s].stale = jobs[Len(jobs)]]
             \/ task' = [task EXCEPT ![s].pc = "mode"]
      BY <1>4 DEF Guard, Goto, Over, storeVars, histVars
    <2>2. PICK W : V \subseteq W /\ NoSlot \in W /\ jobs[Len(jobs)] \in W
      <3>1. LET W == V \cup {NoSlot, jobs[Len(jobs)]}
            IN  V \subseteq W /\ NoSlot \in W /\ jobs[Len(jobs)] \in W
        OBVIOUS
      <3> QED
        BY <3>1
    <2>3. Shaped'
      <3>a. CASE task' = [task EXCEPT ![s] = Quiet]
        <4>1. task' \in [Slots -> TaskOf(W)]
          BY <3>a, <2>2, <1>0 DEF Quiet
        <4> QED
          BY <4>1 DEF Shaped
      <3>b. CASE task' = [task EXCEPT ![s].pc = "close", ![s].stale = jobs[Len(jobs)]]
        <4>1. task' \in [Slots -> TaskOf(W)]
          BY <3>b, <2>2, <1>0, ZenonT(60)
        <4> QED
          BY <4>1 DEF Shaped
      <3>c. CASE task' = [task EXCEPT ![s].pc = "mode"]
        <4>1. task' \in [Slots -> TaskOf(V)]
          BY <3>c, <1>0
        <4> QED
          BY <4>1 DEF Shaped
      <3> QED
        BY <2>1, <3>a, <3>b, <3>c
    <2>4. /\ \A u \in Slots \ {s} : SameFetch(u)
          /\ task'[s].pc \in {"idle", "close", "mode"} /\ task'[s].got = {}
          /\ task'[s].at <= Len(history) /\ task'[s].since <= Len(history)
      BY <1>0, <1>1, <2>1 DEF SameFetch, Knows, StartKnows, InRange, Quiet
    <2> QED
      BY <2>1, <2>3, <2>4, StartMoves
  <1>5. ASSUME CloseStale(s) PROVE SyncInv'
    <2>1. /\ task' = [task EXCEPT ![s].pc = "mode", ![s].stale = NoSlot]
          /\ task[s].pc = "close" /\ UNCHANGED <<history, rows, cursor, lost, skipped>>
      BY <1>5 DEF CloseStale, histVars
    <2>2. PICK W : V \subseteq W /\ NoSlot \in W
      BY V \subseteq V \cup {NoSlot} /\ NoSlot \in V \cup {NoSlot}
    <2>3. task' \in [Slots -> TaskOf(W)]
      BY <2>1, <2>2, <1>0, ZenonT(60)
    <2>4. Shaped'
      BY <2>3 DEF Shaped
    <2> QED
      BY <1>0, <1>1, <2>1, <2>4, StartMoves DEF SameFetch, Knows, StartKnows, InRange
  <1>6. ASSUME ReadState(s) PROVE SyncInv'
    <2>1. PICK type \in {"auto", "full", "incremental"} :
            LET full == type = "full" \/ (type = "auto" /\ cursor = 0)
            IN  task' = [task EXCEPT ![s].pc = "orphan", ![s].full = full,
                                     ![s].since = IF full THEN 0 ELSE cursor]
      BY <1>6 DEF ReadState
    <2>2. \E full \in BOOLEAN, c \in {0, cursor} :
            task' = [task EXCEPT ![s].pc = "orphan", ![s].full = full, ![s].since = c]
      <3>1. CASE type = "full" \/ (type = "auto" /\ cursor = 0)
        <4>1. task' = [task EXCEPT ![s].pc = "orphan", ![s].full = TRUE, ![s].since = 0]
          BY <2>1, <3>1
        <4> QED
          BY <4>1
      <3>2. CASE ~ (type = "full" \/ (type = "auto" /\ cursor = 0))
        <4>1. task' = [task EXCEPT ![s].pc = "orphan", ![s].full = FALSE,
                                   ![s].since = cursor]
          BY <2>1, <3>2
        <4> QED
          BY <4>1
      <3> QED
        BY <3>1, <3>2
    <2>3. task' \in [Slots -> TaskOf(V)]
      <3>1. PICK full \in BOOLEAN, c \in {0, cursor} :
              task' = [task EXCEPT ![s].pc = "orphan", ![s].full = full, ![s].since = c]
        BY <2>2
      <3>2. c \in Nat
        BY <1>1, <3>1
      <3>3. task'[s] = [pc |-> "orphan", full |-> full, since |-> c, at |-> task[s].at,
                        got |-> task[s].got, stale |-> task[s].stale]
        BY <3>1, <1>0, ZenonT(60)
      <3>4. task'[s] \in TaskOf(V)
        BY <3>2, <3>3, <1>0
      <3>5. task' = [task EXCEPT ![s] = task'[s]]
        BY <3>1, <1>0
      <3> QED
        BY <3>4, <3>5, <1>0
    <2>4. Shaped'
      BY <2>3 DEF Shaped
    <2>5. task[s].pc = "mode" /\ UNCHANGED <<history, rows, cursor, lost, skipped>>
      BY <1>6 DEF ReadState, storeVars, histVars
    <2>6. /\ \A u \in Slots \ {s} : SameFetch(u)
          /\ task'[s].pc = "orphan" /\ task'[s].got = {} /\ task'[s].at <= Len(history)
          /\ task'[s].since \in {0, cursor}
      BY <1>0, <1>1, <2>2, <2>5 DEF SameFetch, Knows, StartKnows, InRange
    <2> QED
      BY <1>1, <2>4, <2>5, <2>6, StartMoves
  <1>7. ASSUME OrphanRunning(s) PROVE SyncInv'
    <2>1. /\ task' = [task EXCEPT ![s].pc = "insert"]
          /\ task[s].pc = "orphan" /\ UNCHANGED <<history, rows, cursor, lost, skipped>>
      BY <1>7 DEF OrphanRunning, Goto, histVars
    <2>2. task' \in [Slots -> TaskOf(V)]
      BY <2>1, <1>0
    <2>3. Shaped'
      BY <2>2 DEF Shaped
    <2> QED
      BY <1>0, <1>1, <2>1, <2>3, StartMoves DEF SameFetch, Knows, StartKnows, InRange
  <1>8. ASSUME InsertJob(s) PROVE SyncInv'
    <2>1. /\ task' = [u \in Slots |->
                 IF u = s THEN [task[s] EXCEPT !.pc = "register"]
                 ELSE IF task[u].stale = s THEN [task[u] EXCEPT !.stale = NoSlot]
                 ELSE task[u]]
          /\ task[s].pc = "insert" /\ UNCHANGED <<history, rows, cursor, lost, skipped>>
      BY <1>8 DEF InsertJob, histVars
    <2>2. task' \in [Slots -> TaskOf(V \cup {NoSlot})]
      BY <2>1, <1>0
    <2>3. Shaped'
      BY <2>2 DEF Shaped
    <2>4. /\ \A u \in Slots \ {s} : SameFetch(u)
          /\ task'[s].pc = "register" /\ task'[s].got = {}
          /\ task'[s].at <= Len(history) /\ task'[s].since <= Len(history)
          /\ Covered(task'[s].since)
      BY <1>0, <1>1, <2>1 DEF SameFetch, Knows, StartKnows, InRange
    <2> QED
      BY <2>1, <2>3, <2>4, StartMoves
  <1>9. ASSUME Register(s) PROVE SyncInv'
    <2>1. /\ task' = [task EXCEPT ![s].pc = "fetch", ![s].at = task[s].since]
          /\ task[s].pc = "register" /\ UNCHANGED <<history, rows, cursor, lost, skipped>>
      BY <1>9 DEF Register, storeVars, histVars
    <2>2. task' \in [Slots -> TaskOf(V)]
      BY <2>1, <1>0, ZenonT(60)
    <2>3. Shaped'
      BY <2>2 DEF Shaped
    <2>4. /\ \A u \in Slots \ {s} : SameFetch(u)
          /\ task'[s].pc = "fetch" /\ task'[s].got = {} /\ task'[s].since \in Nat
          /\ task'[s].at = task'[s].since /\ task'[s].since <= Len(history)
          /\ Covered(task'[s].since)
      BY <1>0, <1>1, <2>1 DEF SameFetch, Knows, StartKnows, InRange
    <2>5. Tops' = Tops /\ Accounted' = Accounted
      BY <2>1, SameStores
    <2>6. InRange(task[s])' /\ StartKnows(task[s])'
      BY <2>1, <2>4 DEF InRange, StartKnows
    <2>7. NewerKnows(task[s])'
      <3>1. \A t \in Tops : t \in Nat
        BY DEF SyncInv, Tops
      <3> QED
        BY <2>4, <2>5, <3>1 DEF NewerKnows, Covered
    <2>8. RecentKnows(task[s])' /\ FetchedKnows(task[s])' /\ StoredKnows(task[s])'
      BY <2>4 DEF RecentKnows, FetchedKnows, StoredKnows
    <2> QED
      BY <2>1, <2>3, <2>4, <2>5, <2>6, <2>7, <2>8, TaskMoves DEF Knows
  <1> QED
    BY <1>2, <1>3, <1>4, <1>5, <1>6, <1>7, <1>8, <1>9 DEF StartStep

\* A call that raises, a task that fails or is over, and a restart forget what
\* they knew.
LEMMA OverKeeps ==
    ASSUME SyncInv, UNCHANGED <<history, rows, cursor, lost, skipped>>,
           NEW s \in Slots, Over(s)
    PROVE  SyncInv'
  <1>0. PICK V : task \in [Slots -> TaskOf(V)]
    BY DEF SyncInv, Shaped
  <1>1. task' \in [Slots -> TaskOf(V \cup {NoSlot})]
    BY <1>0 DEF Over, Quiet, TaskOf
  <1>2. Shaped'
    BY <1>1 DEF Shaped
  <1>3. task'[s] = Quiet /\ \A u \in Slots \ {s} : SameFetch(u)
    BY <1>0 DEF Over, SameFetch
  <1>4. Tops' = Tops /\ Accounted' = Accounted
    BY SameStores
  <1>5. Knows(task[s])'
    <2>1. Len(history) \in Nat /\ history' = history
      BY DEF SyncInv
    <2> QED
      BY <1>3, <2>1 DEF Knows, InRange, StartKnows, NewerKnows, RecentKnows,
                        FetchedKnows, StoredKnows, Quiet
  <1> QED
    BY <1>2, <1>3, <1>4, <1>5, TaskMoves

\* With nothing touched but jobs, the registry and the stale marks of calls.
LEMMA IdleKeeps ==
    ASSUME SyncInv, HistoryGrows, Accounted' = Accounted, Shaped',
           cursor' \in {0, cursor}, \A u \in Slots : SameFetch(u) \/ task'[u] = Quiet
    PROVE  SyncInv'
  <1>1. \A u \in Slots : Knows(task[u])'
    <2> TAKE u \in Slots
    <2>1. CASE SameFetch(u)
      BY <2>1, KnowsKept
    <2>2. CASE task'[u] = Quiet
      <3>1. Len(history') \in Nat
        BY DEF HistoryGrows
      <3> QED
        BY <2>2, <3>1 DEF Knows, InRange, StartKnows, NewerKnows, RecentKnows,
                          FetchedKnows, StoredKnows, Quiet
    <2> QED
      BY <2>1, <2>2
  <1>2. CursorCovers'
    <2>1. /\ Covered(cursor) /\ Covered(0) /\ history \in Seq(Nat)
          /\ cursor \in Nat /\ cursor <= Len(history) /\ Len(history) \in Nat
      BY DEF SyncInv, CursorCovers, Covered, Accounted, Tops
    <2>2. cursor' \in Nat /\ cursor' <= Len(history) /\ Covered(cursor')
      BY <2>1
    <2>3. \A t \in Tops' : t <= cursor' => t \in Accounted'
      BY <2>1, <2>2, CoveredKept
    <2> QED
      BY <2>3 DEF CursorCovers, Accounted
  <1>3. cursor' \in Nat /\ cursor' <= Len(history')
    BY DEF SyncInv, HistoryGrows
  <1> QED
    BY <1>1, <1>2, <1>3 DEF SyncInv, HistoryGrows

\* The end of a fetch: what it returns is complete up to its newest message,
\* or it starts again as a full one, with nothing.
LEMMA FetchedKeeps ==
    ASSUME SyncInv, NEW s \in Slots, NEW G \in SUBSET DOMAIN history,
           task[s].pc = "fetch", UNCHANGED <<history, rows, cursor, lost>>,
           skipped \subseteq skipped', Fetched(s, G),
           \A t \in Tops, g \in G : t <= g => t \in G \cup Accounted'
    PROVE  SyncInv'
  <1>0. PICK V : task \in [Slots -> TaskOf(V)]
    BY DEF SyncInv, Shaped
  <1>1. /\ Len(history) \in Nat /\ G \subseteq Nat /\ history' = history
        /\ Tops' = Tops /\ Accounted \subseteq Accounted'
    BY HistoryFinite DEF SyncInv, Tops, Accounted
  <1>2. \A u \in Slots \ {s} : SameFetch(u)
    BY <1>0 DEF Fetched, SameFetch
  <1>3. CASE G = {} /\ ~task[s].full
    <2>1. task' = [task EXCEPT ![s] = [task[s] EXCEPT !.full = TRUE, !.since = 0,
                                                      !.at = 0, !.got = {}]]
      BY <1>3 DEF Fetched
    <2>2. task' \in [Slots -> TaskOf(V)]
      BY <2>1, <1>0 DEF TaskOf
    <2>3. Shaped'
      BY <2>2 DEF Shaped
    <2>4. /\ task'[s].pc = "fetch" /\ task'[s].since = 0 /\ task'[s].at = 0
          /\ task'[s].got = {}
      BY <2>1, <1>0 DEF TaskOf
    <2>5. Knows(task[s])'
      BY <2>4, <1>1 DEF Knows, InRange, StartKnows, NewerKnows, RecentKnows,
                        FetchedKnows, StoredKnows, StartPcs
    <2> QED
      BY <1>1, <1>2, <2>3, <2>5, TaskMoves
  <1>4. CASE ~ (G = {} /\ ~task[s].full)
    <2>1. task' = [task EXCEPT ![s] = [Quiet EXCEPT !.pc = "threads", !.got = G]]
      BY <1>4 DEF Fetched
    <2>2. task' \in [Slots -> TaskOf(V \cup {NoSlot})]
      BY <2>1, <1>0, <1>1 DEF TaskOf, TaskPcs, Quiet
    <2>3. Shaped'
      BY <2>2 DEF Shaped
    <2>4. /\ task'[s].pc = "threads" /\ task'[s].since = 0 /\ task'[s].at = 0
          /\ task'[s].got = G
      BY <2>1, <1>0 DEF TaskOf, Quiet
    <2>5. FetchedKnows(task[s])'
      BY <2>4, <1>1 DEF FetchedKnows
    <2>6. Knows(task[s])'
      BY <2>4, <2>5, <1>1 DEF Knows, InRange, StartKnows, NewerKnows, RecentKnows,
                              StoredKnows, StartPcs
    <2> QED
      BY <1>1, <1>2, <2>3, <2>6, TaskMoves
  <1> QED
    BY <1>3, <1>4

\* The page after the cursor: it continues the run of messages collected so
\* far without a gap.
LEMMA FetchNewerKeeps ==
    ASSUME PagingSource, SyncInv, NEW s \in Slots, FetchNewer(s)
    PROVE  SyncInv'
  <1> DEFINE S == {t \in Tops : t >= task[s].at}
  <1> DEFINE page == Oldest(S, Page)
  <1> DEFINE batch == {t \in page : t > task[s].at} \ task[s].got
  <1> DEFINE room == Limit - Cardinality(task[s].got)
  <1> DEFINE part == Oldest(batch, room)
  <1>0. PICK V : task \in [Slots -> TaskOf(V)]
    BY DEF SyncInv, Shaped
  <1>a. PICK G : G = task[s].got \cup part
    OBVIOUS
  <1>1. /\ history \in Seq(Nat) /\ Knows(task[s]) /\ Len(history) \in Nat
        /\ DOMAIN history = 1..Len(history) /\ Tops \subseteq DOMAIN history
        /\ task[s].since \in Nat /\ task[s].at \in Nat
        /\ task[s].got \subseteq DOMAIN history
    BY <1>0, HistoryFinite DEF SyncInv, TaskOf, Knows, InRange
  <1>c. Newer(s) = batch
    BY SyncAssumption DEF Newer, Ahead, Served, PagingSource
  <1>2. /\ task[s].pc = "fetch" /\ task[s].since # 0
        /\ UNCHANGED <<history, rows, cursor, lost, skipped>>
        /\ \/ Fetched(s, G)
           \/ /\ batch # {} /\ ~ (Cardinality(G) >= Limit)
              /\ task' = [task EXCEPT ![s] = NextFrom(s, G)]
    <2> HIDE DEF batch
    <2> QED
      BY <1>a, <1>c DEF FetchNewer, storeVars, histVars
  <1>3. /\ S \subseteq DOMAIN history /\ page \subseteq S /\ batch \subseteq page
        /\ part \subseteq batch /\ G \subseteq DOMAIN history
    BY <1>a, <1>1 DEF Oldest
  <1>4. /\ S \subseteq Nat /\ IsFiniteSet(S) /\ batch \subseteq Nat /\ IsFiniteSet(batch)
        /\ G \subseteq Nat /\ IsFiniteSet(G) /\ Cardinality(G) \in Nat
        /\ Cardinality(task[s].got) \in Nat
    <2>1. \A T \in SUBSET (DOMAIN history) :
              IsFiniteSet(T) /\ T \subseteq Nat /\ Cardinality(T) \in Nat
      BY <1>1, HistoryFinite
    <2> HIDE DEF S, page, batch, part, room
    <2> QED
      BY <1>1, <1>3, <2>1
  <1>5. room \in Int /\ Page \in Int /\ Page > 0 /\ Limit \in Nat
    BY <1>4, SyncAssumption
  <1>6. \A t \in S, g \in part : t > task[s].at /\ t <= g => t \in G
    <2> SUFFICES ASSUME NEW t \in S, NEW g \in part, t > task[s].at, t <= g PROVE t \in G
      OBVIOUS
    <2>1. t \in page
      <3> HIDE DEF S, batch, room
      <3> QED
        BY <1>3, <1>4, <1>5, OldestIsClosed
    <2>2. CASE t \in task[s].got
      BY <2>2, <1>a
    <2>3. CASE t \notin task[s].got
      <3>1. t \in batch
        <4> HIDE DEF page
        <4> QED
          BY <2>1, <2>3
      <3> HIDE DEF batch, room
      <3> QED
        BY <3>1, <1>a, <1>4, <1>5, OldestIsClosed
    <2> QED
      BY <2>2, <2>3
  <1>7. /\ Covered(task[s].since)
        /\ \A t \in Tops : task[s].since < t /\ t <= task[s].at => t \in task[s].got
        /\ \A t \in Tops, g \in task[s].got :
               task[s].since < t /\ t <= g => t \in task[s].got
    BY <1>1, <1>2 DEF Knows, NewerKnows
  <1>8. \A t \in Tops, g \in G : task[s].since < t /\ t <= g => t \in G
    <2> SUFFICES ASSUME NEW t \in Tops, NEW g \in G, task[s].since < t, t <= g
                 PROVE  t \in G
      OBVIOUS
    <2>1. CASE g \in task[s].got
      BY <2>1, <1>7, <1>a
    <2>2. CASE g \in part
      <3>1. CASE t <= task[s].at
        BY <3>1, <1>7, <1>a
      <3>2. CASE ~ (t <= task[s].at)
        <4>1. t \in S /\ t > task[s].at
          BY <3>2, <1>1
        <4> HIDE DEF S, part
        <4> QED
          BY <4>1, <2>2, <1>6
      <3> QED
        BY <3>1, <3>2
    <2> QED
      BY <2>1, <2>2, <1>a
  <1>9. CASE Fetched(s, G)
    <2>1. Tops' = Tops /\ Accounted' = Accounted
      BY <1>2, SameStores
    <2>2. \A t \in Tops, g \in G : t <= g => t \in G \cup Accounted'
      <3> SUFFICES ASSUME NEW t \in Tops, NEW g \in G, t <= g
                   PROVE  t \in G \cup Accounted
        BY <2>1
      <3>1. CASE t <= task[s].since
        BY <3>1, <1>7 DEF Covered
      <3>2. CASE ~ (t <= task[s].since)
        <4>1. task[s].since < t
          BY <3>2, <1>1
        <4> QED
          BY <4>1, <1>8
      <3> QED
        BY <3>1, <3>2
    <2> HIDE DEF S, page, batch, part, room
    <2> QED
      BY <1>2, <1>3, <1>9, <2>2, FetchedKeeps
  <1>10. CASE /\ batch # {} /\ ~ (Cardinality(G) >= Limit)
              /\ task' = [task EXCEPT ![s] = NextFrom(s, G)]
    <2>1. Cardinality(task[s].got) <= Cardinality(G)
      BY <1>a, <1>4, FS_Subset
    <2>2. room > 0
      BY <2>1, <1>4, <1>5, <1>10
    <2>3. part # {}
      <3> HIDE DEF S, page, batch, room
      <3> QED
        BY <2>2, <1>4, <1>5, <1>10, OldestHasOne
    <2> HIDE DEF S, page, batch, part, room
    <2>4. G # {}
      BY <2>3, <1>a
    <2>5. Greatest(G) \in G
      BY <2>4, <1>1, <1>3, <1>4, GreatestIsIn
    <2>6. task' = [task EXCEPT ![s].got = G, ![s].at = Greatest(G)]
      BY <1>10, <1>0 DEF NextFrom, TaskOf
    <2>7. task' \in [Slots -> TaskOf(V)]
      BY <2>5, <2>6, <1>0, <1>4 DEF TaskOf
    <2>8. Shaped'
      BY <2>7 DEF Shaped
    <2>9. /\ task'[s].pc = "fetch" /\ task'[s].since = task[s].since
          /\ task'[s].at = Greatest(G) /\ task'[s].got = G
          /\ \A u \in Slots \ {s} : SameFetch(u)
      BY <2>6, <1>0, <1>2 DEF TaskOf, SameFetch
    <2>10. Tops' = Tops /\ Accounted' = Accounted
      BY <1>2, SameStores
    <2>11. NewerKnows(task[s])'
      BY <2>5, <2>9, <2>10, <1>7, <1>8 DEF NewerKnows, Covered
    <2>12. InRange(task[s])'
      BY <2>5, <2>9, <1>1, <1>2, <1>3 DEF InRange, Knows
    <2>13. Knows(task[s])'
      BY <2>9, <2>11, <2>12, <1>2 DEF Knows, StartKnows, RecentKnows,
                                      FetchedKnows, StoredKnows, StartPcs
    <2> QED
      BY <1>2, <2>8, <2>9, <2>10, <2>13, TaskMoves
  <1> QED
    BY <1>2, <1>9, <1>10

\* The page before the oldest message so far: it extends the run downwards,
\* and what is cut off below the newest Limit messages is skipped.
LEMMA FetchRecentKeeps ==
    ASSUME PagingSource, SyncInv, NEW s \in Slots, FetchRecent(s)
    PROVE  SyncInv'
  <1> DEFINE S == {t \in Tops : task[s].at = 0 \/ t < task[s].at}
  <1> DEFINE batch == Newest(S, Page)
  <1>0. PICK V : task \in [Slots -> TaskOf(V)]
    BY DEF SyncInv, Shaped
  <1>a. PICK G : G = task[s].got \cup batch
    OBVIOUS
  <1>b. PICK K : K = Newest(G, Limit)
    OBVIOUS
  <1> DEFINE spent == Cardinality(G) >= Limit
  <1>1. /\ history \in Seq(Nat) /\ Knows(task[s]) /\ Len(history) \in Nat
        /\ DOMAIN history = 1..Len(history) /\ Tops \subseteq DOMAIN history
        /\ task[s].since \in Nat /\ task[s].at \in Nat
        /\ task[s].got \subseteq DOMAIN history
    BY <1>0, HistoryFinite DEF SyncInv, TaskOf, Knows, InRange
  <1>c. Behind(task[s].at) = batch
    BY SyncAssumption DEF Behind, Served, PagingSource
  <1>2. /\ task[s].pc = "fetch" /\ task[s].since = 0
        /\ UNCHANGED <<history, rows, cursor, lost>>
        /\ \/ /\ Fetched(s, K) /\ (Cardinality(batch) < Page \/ spent)
              /\ skipped' = skipped \cup {t \in Tops : spent /\ \A u \in K : t < u}
           \/ /\ ~ (Cardinality(batch) < Page) /\ UNCHANGED skipped
              /\ task' = [task EXCEPT ![s].got = G, ![s].at = Least(batch)]
    <2> HIDE DEF batch
    <2> QED
      BY <1>a, <1>b, <1>c DEF FetchRecent, storeVars, histVars
  <1>3. /\ S \subseteq DOMAIN history /\ batch \subseteq S /\ G \subseteq DOMAIN history
        /\ K \subseteq G
    BY <1>a, <1>b, <1>1 DEF Newest
  <1>4. /\ S \subseteq Nat /\ IsFiniteSet(S) /\ batch \subseteq Nat
        /\ G \subseteq Nat /\ IsFiniteSet(G)
    <2>1. \A T \in SUBSET (DOMAIN history) : IsFiniteSet(T) /\ T \subseteq Nat
      BY <1>1, HistoryFinite
    <2> HIDE DEF S, batch
    <2> QED
      BY <1>3, <2>1
  <1>5. Page \in Int /\ Page > 0 /\ Limit \in Int
    BY SyncAssumption
  <1>6. \A t \in S, g \in batch : g <= t => t \in batch
    <2> HIDE DEF S
    <2> QED
      BY <1>4, <1>5, NewestIsClosed
  <1>7. /\ task[s].at = 0 => task[s].got = {}
        /\ \A g \in task[s].got : task[s].at <= g
        /\ \A t \in Tops, g \in task[s].got :
               task[s].at <= t /\ t <= g => t \in task[s].got
    BY <1>1, <1>2 DEF Knows, RecentKnows
  <1>8. \A u \in batch : task[s].at = 0 \/ u < task[s].at
    BY <1>3
  <1>9. \A u \in G, t \in Tops, g \in G : u <= t /\ t <= g => t \in G
    <2> SUFFICES ASSUME NEW u \in G, NEW t \in Tops, NEW g \in G, u <= t, t <= g
                 PROVE  t \in G
      OBVIOUS
    <2>0. u \in Nat /\ t \in Nat /\ g \in Nat
      BY <1>1, <1>4
    <2>1. CASE t \in S
      <3>1. CASE u \in batch
        <4> HIDE DEF S, batch
        <4> QED
          BY <2>1, <3>1, <1>6, <1>a
      <3>2. CASE u \in task[s].got
        <4>1. task[s].at # 0 /\ task[s].at <= u
          BY <3>2, <1>7
        <4>2. FALSE
          BY <4>1, <2>0, <2>1, <1>1
        <4> QED
          BY <4>2
      <3> HIDE DEF S, batch
      <3> QED
        BY <3>1, <3>2, <1>a
    <2>2. CASE t \notin S
      <3>1. task[s].at # 0 /\ task[s].at <= t
        BY <2>2, <2>0, <1>1
      <3>2. CASE g \in batch
        <4>1. g < task[s].at
          BY <3>1, <3>2, <1>8
        <4>2. FALSE
          BY <4>1, <3>1, <2>0, <1>1
        <4> QED
          BY <4>2
      <3>3. CASE g \in task[s].got
        <4> HIDE DEF S, batch
        <4> QED
          BY <3>1, <3>3, <1>7, <1>a
      <3> HIDE DEF S, batch
      <3> QED
        BY <3>2, <3>3, <1>a
    <2> QED
      BY <2>1, <2>2
  <1>10. CASE /\ Fetched(s, K) /\ (Cardinality(batch) < Page \/ spent)
              /\ skipped' = skipped \cup {t \in Tops : spent /\ \A u \in K : t < u}
    <2>1. \A t \in Tops, g \in K : t <= g => t \in K \cup Accounted'
      <3> SUFFICES ASSUME NEW t \in Tops, NEW g \in K, t <= g, t \notin skipped'
                   PROVE  t \in K
        BY DEF Accounted
      <3>1. CASE spent
        <4>1. PICK u \in K : ~ (t < u)
          BY <3>1, <1>10
        <4>2. u \in Nat /\ t \in Nat /\ u \in G /\ g \in G /\ u <= t
          BY <4>1, <1>1, <1>3, <1>4
        <4> HIDE DEF S, batch
        <4>3. t \in G
          BY <4>2, <1>9
        <4> QED
          BY <4>1, <4>2, <4>3, <1>b, <1>4, <1>5, NewestIsClosed
      <3>2. CASE ~spent
        <4>1. g \in G /\ t \in Nat /\ g \in Nat /\ (\A u \in S : u <= Len(history))
              /\ (\A u \in G : u <= Len(history))
          BY <1>1, <1>3, <1>4
        <4>2. batch = S
          <5>1. Cardinality(batch) < Page
            BY <3>2, <1>10
          <5> HIDE DEF S
          <5> QED
            BY <5>1, <4>1, <1>1, <1>4, <1>5, ShortIsAll
        <4>3. t \in G
          <5>1. CASE t \in S
            BY <5>1, <4>2, <1>a
          <5>2. CASE t \notin S
            <6>1. task[s].at # 0 /\ task[s].at <= t
              BY <5>2, <4>1, <1>1
            <6>2. g \notin batch
              <7> HIDE DEF batch
              <7> QED
                BY <6>1, <4>1, <1>1, <1>8
            <6> HIDE DEF S, batch
            <6> QED
              BY <6>1, <6>2, <4>1, <1>7, <1>a
          <5> QED
            BY <5>1, <5>2
        <4> HIDE DEF S, batch
        <4>4. Cardinality(K) <= Cardinality(G) /\ Cardinality(K) \in Nat
              /\ Cardinality(G) \in Nat
          BY <1>3, <1>4, FS_Subset, FS_CardinalityType
        <4>5. Cardinality(K) < Limit
          BY <3>2, <4>4, <1>5
        <4>6. K = G
          BY <4>1, <4>5, <1>b, <1>1, <1>4, <1>5, ShortIsAll
        <4> QED
          BY <4>3, <4>6
      <3> QED
        BY <3>1, <3>2
    <2> HIDE DEF S, batch
    <2> QED
      BY <2>1, <1>2, <1>3, <1>10, FetchedKeeps
  <1>11. CASE /\ ~ (Cardinality(batch) < Page) /\ UNCHANGED skipped
              /\ task' = [task EXCEPT ![s].got = G, ![s].at = Least(batch)]
    <2> HIDE DEF S, batch
    <2>1. batch # {}
      BY <1>5, <1>11, FS_EmptySet
    <2>2. Least(batch) \in batch /\ \A u \in batch : Least(batch) <= u
      BY <2>1, <1>4, LeastIsIn
    <2>3. task' \in [Slots -> TaskOf(V)]
      BY <2>2, <1>11, <1>0, <1>4 DEF TaskOf
    <2>4. Shaped'
      BY <2>3 DEF Shaped
    <2>5. /\ task'[s].pc = "fetch" /\ task'[s].since = 0
          /\ task'[s].at = Least(batch) /\ task'[s].got = G
          /\ \A u \in Slots \ {s} : SameFetch(u)
      BY <1>11, <1>0, <1>2 DEF TaskOf, SameFetch
    <2>6. Tops' = Tops /\ Accounted' = Accounted
      BY <1>2, <1>11, SameStores
    <2>7. \A g \in G : Least(batch) <= g
      <3> SUFFICES ASSUME NEW g \in task[s].got PROVE Least(batch) <= g
        BY <2>2, <1>a
      <3>1. task[s].at # 0 /\ task[s].at <= g /\ g \in Nat
        BY <1>7, <1>1
      <3>2. Least(batch) < task[s].at /\ Least(batch) \in Nat
        BY <3>1, <2>2, <1>8, <1>4
      <3> QED
        BY <3>1, <3>2, <1>1
    <2>8. Least(batch) # 0 /\ Least(batch) <= Len(history) /\ Least(batch) \in G
      BY <2>2, <1>a, <1>1, <1>3
    <2>9. RecentKnows(task[s])'
      BY <2>5, <2>6, <2>7, <2>8, <1>9 DEF RecentKnows
    <2>10. InRange(task[s])'
      BY <2>5, <2>8, <1>1, <1>2, <1>3 DEF InRange
    <2>11. Knows(task[s])'
      BY <2>5, <2>9, <2>10 DEF Knows, StartKnows, NewerKnows, FetchedKnows,
                               StoredKnows, StartPcs
    <2> QED
      BY <1>2, <2>4, <2>5, <2>6, <2>11, TaskMoves
  <1> QED
    BY <1>2, <1>10, <1>11

\* Replies are no top-level messages: the threads change nothing about those.
LEMMA FetchThreadsKeeps ==
    ASSUME SyncInv, NEW s \in Slots, FetchThreads(s)
    PROVE  SyncInv'
  <1>0. PICK V : task \in [Slots -> TaskOf(V)]
    BY DEF SyncInv, Shaped
  <1>1. /\ history \in Seq(Nat) /\ Knows(task[s]) /\ Len(history) \in Nat
        /\ DOMAIN history = 1..Len(history)
        /\ task[s].got \subseteq DOMAIN history
    BY <1>0, HistoryFinite DEF SyncInv, Knows, InRange
  <1>2. /\ task[s].pc = "threads" /\ UNCHANGED <<history, rows, cursor, lost, skipped>>
        /\ \E P \in SUBSET task[s].got :
               task' = [task EXCEPT ![s].pc = "upsert",
                                    ![s].got = task[s].got \cup Replies(P)]
    BY <1>0 DEF FetchThreads, storeVars, histVars, TaskOf
  <1>3. PICK P \in SUBSET task[s].got :
               task' = [task EXCEPT ![s].pc = "upsert",
                                    ![s].got = task[s].got \cup Replies(P)]
    BY <1>2
  <1>4. Replies(P) \subseteq DOMAIN history /\ Replies(P) \cap Tops = {}
    BY <1>1, <1>3 DEF Replies, Tops
  <1>a. task[s].got \cup Replies(P) \subseteq Nat
    BY <1>1, <1>4
  <1>5. task' \in [Slots -> TaskOf(V)]
    <2>1. PICK G : G = task[s].got \cup Replies(P)
      OBVIOUS
    <2>2. task' = [task EXCEPT ![s].pc = "upsert", ![s].got = G] /\ G \subseteq Nat
      BY <2>1, <1>3, <1>a
    <2> QED
      BY <2>2, <1>0, ZenonT(60) DEF TaskOf, TaskPcs
  <1>6. Shaped'
    BY <1>5 DEF Shaped
  <1>7. /\ task'[s].pc = "upsert" /\ task'[s].since = task[s].since
        /\ task'[s].at = task[s].at /\ task'[s].got = task[s].got \cup Replies(P)
        /\ \A u \in Slots \ {s} : SameFetch(u)
    BY <1>0, <1>3 DEF TaskOf, SameFetch
  <1>8. Tops' = Tops /\ Accounted' = Accounted
    BY <1>2, SameStores
  <1>9. FetchedKnows(task[s])'
    BY <1>1, <1>2, <1>4, <1>7, <1>8 DEF Knows, FetchedKnows
  <1>10. InRange(task[s])'
    BY <1>1, <1>2, <1>4, <1>7 DEF Knows, InRange
  <1>11. Knows(task[s])'
    BY <1>7, <1>9, <1>10 DEF Knows, StartKnows, NewerKnows, RecentKnows, StoredKnows,
                             StartPcs
  <1> QED
    BY <1>2, <1>6, <1>7, <1>8, <1>11, TaskMoves

\* After the upsert every top-level message fetched is stored or lost.
LEMMA UpsertKeeps ==
    ASSUME SyncInv, NEW s \in Slots, Upsert(s)
    PROVE  SyncInv'
  <1>0. PICK V : task \in [Slots -> TaskOf(V)]
    BY DEF SyncInv, Shaped
  <1>1. Knows(task[s]) /\ history' = history /\ cursor' = cursor /\ task[s].pc = "upsert"
    BY DEF SyncInv, Upsert
  <1>2. Tops' = Tops /\ Accounted \subseteq Accounted' /\ task[s].got \cap Tops \subseteq Accounted'
    BY DEF Upsert, Accounted, Tops
  <1>3. task' = [task EXCEPT ![s].pc = "complete"]
    BY DEF Upsert, Goto
  <1>4. task' \in [Slots -> TaskOf(V)]
    BY <1>0, <1>3 DEF TaskOf, TaskPcs
  <1>5. Shaped'
    BY <1>4 DEF Shaped
  <1>6. /\ task'[s].pc = "complete" /\ task'[s].since = task[s].since
        /\ task'[s].at = task[s].at /\ task'[s].got = task[s].got
        /\ \A u \in Slots \ {s} : SameFetch(u)
    BY <1>0, <1>3 DEF TaskOf, SameFetch
  <1>7. StoredKnows(task[s])'
    <2> SUFFICES ASSUME NEW g \in task[s].got \cap Tops, NEW t \in Tops, t <= g
                 PROVE  t \in Accounted'
      BY <1>2, <1>6 DEF StoredKnows, Covered
    <2>1. t \in task[s].got \cup Accounted
      BY <1>1 DEF Knows, FetchedKnows
    <2> QED
      BY <2>1, <1>2
  <1>8. Knows(task[s])'
    BY <1>1, <1>6, <1>7 DEF Knows, InRange, StartKnows, NewerKnows, RecentKnows,
                            FetchedKnows, StartPcs
  <1> QED
    BY <1>1, <1>2, <1>5, <1>6, <1>8, TaskMoves

LEMMA CompleteKeeps ==
    ASSUME SyncInv, NEW s \in Slots, Complete(s)
    PROVE  SyncInv'
  <1>0. PICK V : task \in [Slots -> TaskOf(V)]
    BY DEF SyncInv, Shaped
  <1>1. /\ Knows(task[s]) /\ task[s].pc = "complete"
        /\ UNCHANGED <<history, rows, cursor, lost, skipped>>
        /\ task' = [task EXCEPT ![s].pc = "advance"]
    BY DEF SyncInv, Complete, Goto, histVars
  <1>2. task' \in [Slots -> TaskOf(V)]
    BY <1>0, <1>1 DEF TaskOf, TaskPcs
  <1>3. Shaped'
    BY <1>2 DEF Shaped
  <1>4. /\ task'[s].pc = "advance" /\ task'[s].since = task[s].since
        /\ task'[s].at = task[s].at /\ task'[s].got = task[s].got
        /\ \A u \in Slots \ {s} : SameFetch(u)
    BY <1>0, <1>1 DEF TaskOf, SameFetch
  <1>5. Tops' = Tops /\ Accounted' = Accounted
    BY <1>1, SameStores
  <1>6. Knows(task[s])'
    BY <1>1, <1>4, <1>5 DEF Knows, InRange, StartKnows, NewerKnows, RecentKnows,
                            FetchedKnows, StoredKnows, Covered, StartPcs
  <1> QED
    BY <1>1, <1>3, <1>4, <1>5, <1>6, TaskMoves

\* The cursor moves to a message up to which everything is accounted for.
LEMMA AdvanceKeeps ==
    ASSUME SyncInv, NEW s \in Slots, Advance(s)
    PROVE  SyncInv'
  <1>0. PICK V : task \in [Slots -> TaskOf(V)]
    BY DEF SyncInv, Shaped
  <1>a. PICK top : top = task[s].got \cap Tops
    OBVIOUS
  <1>1. /\ Knows(task[s]) /\ task[s].pc = "advance" /\ history \in Seq(Nat)
        /\ UNCHANGED <<history, rows, lost, skipped>>
        /\ cursor' = IF top = {} THEN cursor ELSE Greatest(top)
        /\ task' = [task EXCEPT ![s].pc = "finish"]
        /\ Covered(cursor) /\ cursor \in Nat /\ cursor <= Len(history)
    BY <1>a DEF SyncInv, Advance, Goto, histVars, CursorCovers, Covered, Accounted
  <1>2. top \subseteq Nat /\ Len(history) \in Nat /\ \A g \in top : g <= Len(history)
    BY <1>a, <1>1, HistoryFinite DEF Knows, InRange
  <1>3. cursor' \in Nat /\ cursor' <= Len(history) /\ Covered(cursor')
    <2>1. CASE top = {}
      BY <2>1, <1>1
    <2>2. CASE top # {}
      <3>1. Greatest(top) \in top
        BY <2>2, <1>2, GreatestIsIn
      <3>2. Covered(Greatest(top))
        BY <3>1, <1>a, <1>1 DEF Knows, StoredKnows
      <3> QED
        BY <2>2, <3>1, <3>2, <1>1, <1>2
    <2> QED
      BY <2>1, <2>2
  <1>4. Tops' = Tops /\ Accounted' = Accounted
    BY <1>1, SameStores
  <1>5. CursorCovers'
    BY <1>3, <1>4 DEF CursorCovers, Covered, Accounted
  <1>6. task' \in [Slots -> TaskOf(V)]
    BY <1>0, <1>1 DEF TaskOf, TaskPcs
  <1>7. Shaped'
    BY <1>6 DEF Shaped
  <1>8. /\ task'[s].pc = "finish" /\ task'[s].since = task[s].since
        /\ task'[s].at = task[s].at /\ task'[s].got = task[s].got
        /\ \A u \in Slots \ {s} : SameFetch(u)
    BY <1>0, <1>1 DEF TaskOf, SameFetch
  <1>9. HistoryGrows
    BY <1>1 DEF HistoryGrows
  <1>10. \A u \in Slots : Knows(task[u])'
    <2>1. Knows(task[s])'
      BY <1>1, <1>8 DEF Knows, InRange, StartKnows, NewerKnows, RecentKnows,
                        FetchedKnows, StoredKnows, StartPcs
    <2>2. \A u \in Slots \ {s} : Knows(task[u])'
      BY <1>4, <1>8, <1>9, KnowsKept
    <2> QED
      BY <2>1, <2>2
  <1> QED
    BY <1>1, <1>3, <1>5, <1>7, <1>10 DEF SyncInv

LEMMA TaskStepKeeps ==
    ASSUME PagingSource, SyncInv, NEW s \in Slots, TaskStep(s)
    PROVE  SyncInv'
  <1>1. CASE Finish(s)
    BY <1>1, OverKeeps DEF Finish, storeVars, histVars
  <1> QED
    BY <1>1, FetchNewerKeeps, FetchRecentKeeps, FetchThreadsKeeps, UpsertKeeps,
       CompleteKeeps, AdvanceKeeps DEF TaskStep

LEMMA FailureKeeps ==
    ASSUME SyncInv, NEW s \in Slots, StartFails(s) \/ FetchFails(s) \/ RunFails(s)
    PROVE  SyncInv'
  BY OverKeeps DEF StartFails, FetchFails, RunFails, storeVars, histVars

LEMMA PostKeeps ==
    ASSUME SyncInv, Post
    PROVE  SyncInv'
  <1>1. PICK parent \in {0} \cup Tops : history' = Append(history, parent)
    BY DEF Post
  <1>2. history \in Seq(Nat) /\ parent \in Nat
    BY <1>1 DEF SyncInv, Tops
  <1>3. HistoryGrows
    BY <1>1, <1>2 DEF HistoryGrows
  <1>4. /\ task' = task /\ cursor' = cursor /\ Accounted' = Accounted
    BY DEF Post, storeVars, histVars, Accounted
  <1>5. Shaped' /\ \A u \in Slots : SameFetch(u)
    BY <1>4 DEF SyncInv, Shaped, SameFetch
  <1> QED
    BY <1>3, <1>4, <1>5, IdleKeeps

LEMMA ClearSyncStateKeeps ==
    ASSUME SyncInv, ClearSyncState
    PROVE  SyncInv'
  <1>0. PICK V : task \in [Slots -> TaskOf(V)]
    BY DEF SyncInv, Shaped
  <1>1. HistoryGrows /\ cursor' = 0 /\ Accounted' = Accounted
    BY DEF SyncInv, ClearSyncState, HistoryGrows, Accounted, histVars
  <1>2. task' = [s \in Slots |-> [task[s] EXCEPT !.stale = NoSlot]]
    BY DEF ClearSyncState
  <1>3. task' \in [Slots -> TaskOf({NoSlot})]
    BY <1>0, <1>2 DEF TaskOf
  <1>4. Shaped'
    BY <1>3 DEF Shaped
  <1>5. \A u \in Slots : SameFetch(u)
    BY <1>0, <1>2 DEF TaskOf, SameFetch
  <1> QED
    BY <1>1, <1>4, <1>5, IdleKeeps

LEMMA RestartKeeps ==
    ASSUME SyncInv, Restart
    PROVE  SyncInv'
  <1>1. HistoryGrows /\ cursor' = cursor /\ Accounted' = Accounted
    BY DEF SyncInv, Restart, HistoryGrows, Accounted, histVars, storeVars
  <1>2. task' = [s \in Slots |-> Quiet]
    BY DEF Restart
  <1>3. task' \in [Slots -> TaskOf({NoSlot})]
    BY <1>2 DEF TaskOf, Quiet
  <1>4. Shaped'
    BY <1>3 DEF Shaped
  <1>5. \A u \in Slots : task'[u] = Quiet
    BY <1>2
  <1> QED
    BY <1>1, <1>4, <1>5, IdleKeeps

LEMMA StutterKeeps ==
    ASSUME SyncInv, UNCHANGED <<history, rows, cursor, task, lost, skipped>>
    PROVE  SyncInv'
  <1>1. HistoryGrows /\ Accounted' = Accounted
    BY DEF SyncInv, HistoryGrows, Accounted
  <1>2. Shaped' /\ \A u \in Slots : SameFetch(u)
    BY DEF SyncInv, Shaped, SameFetch
  <1> QED
    BY <1>1, <1>2, IdleKeeps

LEMMA SyncWorkKeeps ==
    ASSUME PagingSource, SyncInv, SyncWork
    PROVE  SyncInv'
  BY PostKeeps, ClearSyncStateKeeps, StartStepKeeps, FailureKeeps, TaskStepKeeps
  DEF SyncWork

\* A channel without a cursor and without a sync has nothing to answer for.
LEMMA QuietIsCovered ==
    ASSUME TypeOK, cursor = 0, \A s \in Slots : task[s] = Quiet
    PROVE  SyncInv
  <1>1. /\ history \in Seq(Nat) /\ DOMAIN history = 1..Len(history)
        /\ Len(history) \in Nat
    BY TypedHistory, HistoryFinite
  <1>2. CursorCovers
    BY <1>1 DEF CursorCovers, Tops
  <1>3. task \in [Slots -> TaskOf({NoSlot})]
    <2>1. Quiet \in TaskOf({NoSlot})
      BY DEF Quiet, TaskOf
    <2>2. task = [s \in Slots |-> task[s]]
      BY DEF TypeOK
    <2> QED
      BY <2>1, <2>2
  <1>4. Knows(Quiet)
    BY <1>1 DEF Knows, InRange, StartKnows, NewerKnows, RecentKnows, FetchedKnows,
                StoredKnows, Quiet
  <1> QED
    BY <1>1, <1>2, <1>3, <1>4 DEF SyncInv, Shaped

\* In SyncSpec no message is ever left behind the cursor without an upsert of
\* its own having failed, or a full fetch having been cut above it
\* (sync_runner.py 1066-1186), when the source pages forward from the cursor
\* and gives as many messages as a page is asked for.
THEOREM SyncCursorCovers ==
    ASSUME PagingSource
    PROVE  SyncSpec => []CursorCovers
  <1>1. SyncInit => SyncInv
    <2> SUFFICES ASSUME SyncInit PROVE SyncInv
      OBVIOUS
    <2>1. history = <<>> /\ cursor = 0 /\ \A s \in Slots : task[s] = Quiet
      BY DEF SyncInit
    <2> QED
      BY <2>1, TypedAtFirst, QuietIsCovered
  <1>2. SyncInv /\ [SyncNext]_syncVars => SyncInv'
    <2>1. ASSUME SyncInv, UNCHANGED syncVars PROVE SyncInv'
      BY <2>1, StutterKeeps DEF syncVars, storeVars, histVars
    <2> QED
      BY <2>1, SyncWorkKeeps, RestartKeeps DEF SyncNext
  <1>3. SyncInv => CursorCovers
    BY DEF SyncInv
  <1> QED
    BY <1>1, <1>2, <1>3, PTL DEF SyncSpec
=============================================================================

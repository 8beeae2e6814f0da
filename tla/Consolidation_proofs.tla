-------------------------- MODULE Consolidation_proofs --------------------------
(***************************************************************************)
(* Proofs about Consolidation, for every set of batches, clusters and      *)
(* summary passes, every number of tasks, runs and rebuilds, and any       *)
(* number of failed calls.                                                 *)
(***************************************************************************)
EXTENDS Consolidation, FiniteSetTheorems, TLAPS

-----------------------------------------------------------------------------
(* Types, and what a step may write.                                        *)

\* What a task may be at, by its kind; the rows it has to write are those of
\* the clusters its facts go to.
Kind(c) ==
    /\ IF c.full THEN c.pc \in {"wipe", "read", "list", "assign", "upsert", "fetch",
                                "write", "links", "relink", "over"}
       ELSE c.pc \notin {"wipe", "fetch", "write"}
    /\ c.pc \in {"assign", "upsert"} => \A k \in c.todo : \E b \in c.read : c.to[b] = k

Kinds == \A t \in Tasks : Kind(con[t])

\* The records of a task, a pass and a row that are not there.
LEMMA NoneTyped ==
    /\ NoRow \in Row /\ NoCon \in ConTask /\ NoSettle \in SettleTask
    /\ Kind(NoCon) /\ ~NoCon.full /\ NoCon.pc = "none" /\ NoRow.members = {}
  <1>1. NoRow \in Row /\ NoRow.members = {}
    BY DEF NoRow, Row
  <1>2. [k \in Clusters |-> NoRow] \in [Clusters -> Row]
    BY <1>1
  <1>3. NoCon \in ConTask /\ Kind(NoCon) /\ ~NoCon.full /\ NoCon.pc = "none"
    BY <1>2 DEF NoCon, ConTask, Kind
  <1>4. NoSettle \in SettleTask
    BY <1>2 DEF NoSettle, SettleTask
  <1> QED
    BY <1>1, <1>3, <1>4

\* A list of rows is one of rows.
LEMMA ListedTyped ==
    ASSUME TypeOK, NEW ks
    PROVE  Listed(ks) \in [Clusters -> Row]
  BY NoneTyped DEF TypeOK, Listed

\* What a step of a task writes into its own record and into the registry: a
\* run goes on registered or ends and pops the registration, a rebuild touches
\* neither.
Moves(t, new) ==
    /\ new \in ConTask /\ Kind(new)
    /\ con[t].pc \notin {"none", "over"}
    /\ con' = [con EXCEPT ![t] = new]
    /\ \/ ~con[t].full /\ ~new.full /\ new.pc \notin {"none", "over"} /\ registered' = registered
       \/ ~con[t].full /\ ~new.full /\ new.pc = "over" /\ registered' = None
       \/ con[t].full /\ new.full /\ new.pc # "none" /\ registered' = registered

\* Every step of a task is such a move.
LEMMA TaskMoves ==
    ASSUME TypeOK, Kinds, NEW t \in Tasks, TaskStep(t) \/ RunFails(t) \/ RebuildFails(t)
    PROVE  \E new : Moves(t, new)
  <1> USE DEF Con, Live
  <1>0. /\ con[t] \in ConTask /\ Kind(con[t])
        /\ \A k \in Clusters : con[t].view[k] \in Row
        /\ con[t].todo \subseteq Clusters /\ con[t].read \subseteq Batches
    BY DEF TypeOK, Kinds, ConTask
  <1> DEFINE Pcs == {"none", "policy", "wipe", "read", "list", "assign", "upsert", "fetch",
                     "write", "links", "relink", "health", "tidy", "move", "keep", "last",
                     "done", "over"}
  <1>a. ASSUME NEW p \in Pcs, NEW f \in BOOLEAN, NEW v \in [Clusters -> Row],
               NEW d \in SUBSET Clusters
        PROVE  LET c == [NoCon EXCEPT !.pc = p, !.full = f, !.view = v, !.todo = d]
               IN  c \in ConTask /\ c.pc = p /\ c.full = f
    BY NoneTyped DEF ConTask
  <1>b. ASSUME NEW p \in Pcs
        PROVE  /\ [NoCon EXCEPT !.pc = p] \in ConTask
               /\ [NoCon EXCEPT !.pc = p].pc = p /\ ~[NoCon EXCEPT !.pc = p].full
    BY NoneTyped DEF ConTask
  <1>c. ASSUME NEW p \in Pcs, NEW f \in BOOLEAN
        PROVE  LET c == [NoCon EXCEPT !.pc = p, !.full = f]
               IN  c \in ConTask /\ c.pc = p /\ c.full = f
    BY NoneTyped DEF ConTask
  <1>d. ASSUME NEW k \in Clusters, NEW d \in SUBSET Clusters
        PROVE  LET c == [con[t] EXCEPT !.todo = d, !.view[k] = NoRow]
               IN  c \in ConTask /\ c.pc = con[t].pc /\ c.full = con[t].full
    <2>1. [con[t].view EXCEPT ![k] = NoRow] \in [Clusters -> Row]
      BY <1>0, NoneTyped DEF ConTask
    <2> QED
      BY <1>0, <2>1 DEF ConTask
  <1>e. AfterLinks(t) \in ConTask /\ AfterLinks(t).full = con[t].full
        /\ AfterLinks(t).pc = IF con[t].full THEN "over" ELSE "health"
    <2> DEFINE p == IF con[t].full THEN "over" ELSE "health"
    <2>1. p \in Pcs /\ con[t].full \in BOOLEAN
      BY <1>0 DEF ConTask
    <2> HIDE DEF p
    <2>2. LET c == [NoCon EXCEPT !.pc = p, !.full = con[t].full]
          IN  c \in ConTask /\ c.pc = p /\ c.full = con[t].full
      BY <2>1, NoneTyped DEF ConTask
    <2> QED
      BY <2>2 DEF AfterLinks, p
  <1>f. ASSUME NEW facts \in SUBSET Batches, NEW k \in Clusters, NEW l \in Clusters,
               NEW j \in Clusters, NEW v \in [Clusters -> Row], NEW d \in SUBSET Clusters,
               Regroup(t, facts, j, k, l, v, d), UNCHANGED registered
        PROVE  \E new : Moves(t, new)
    <2> DEFINE f == [b \in Batches |-> IF b \in facts THEN j ELSE None]
               new == [con[t] EXCEPT !.pc = "move", !.read = facts, !.to = f, !.keep = k,
                                     !.last = l, !.view = v, !.todo = d]
    <2>1. f \in [Batches -> Clusters \cup {None}]
      OBVIOUS
    <2>2. Con(t, "tidy", new)
      BY <1>f DEF Regroup
    <2> HIDE DEF f
    <2>3. new \in ConTask /\ new.pc = "move" /\ new.full = con[t].full
      BY <1>0, <2>1 DEF ConTask
    <2>4. Moves(t, new)
      <3> HIDE DEF new
      <3> QED
        BY <1>0, <1>f, <2>2, <2>3 DEF Moves, Kind
    <2> QED
      BY <2>4
  <1>g. NextOne(t) \in ConTask /\ NextOne(t).pc = "tidy" /\ ~NextOne(t).full
    <2>1. [con[t].view EXCEPT ![con[t].last] = NoRow] \in [Clusters -> Row]
      BY <1>0, NoneTyped DEF ConTask
    <2> QED
      BY <1>0, <2>1, NoneTyped DEF NextOne, ConTask
  <1>1. CASE Begin(t)
    <2> DEFINE new == [con[t] EXCEPT !.pc = "read"]
    <2>1. Con(t, "policy", new) /\ UNCHANGED registered
      BY <1>1 DEF Begin
    <2>2. new \in ConTask /\ new.pc = "read" /\ new.full = con[t].full
      BY <1>0 DEF ConTask
    <2>3. Moves(t, new)
      <3> HIDE DEF new
      <3> QED
        BY <1>0, <2>1, <2>2 DEF Moves, Kind
    <2> QED
      BY <2>3
  <1>2. CASE ReadFacts(t)
    <2> DEFINE u == Unclustered
               p == IF u # {} THEN "list" ELSE IF con[t].full THEN "over" ELSE "links"
    <2>1. u \in SUBSET Batches
      BY DEF Unclustered, TypeOK
    <2>2. Con(t, "read", [con[t] EXCEPT !.read = u, !.pc = p]) /\ UNCHANGED registered
      BY <1>2 DEF ReadFacts
    <2>3. p \in {"list", "over", "links"} /\ (p = "over" => con[t].full)
      OBVIOUS
    <2> HIDE DEF u, p
    <2> DEFINE new == [con[t] EXCEPT !.read = u, !.pc = p]
    <2>4. new \in ConTask /\ new.pc = p /\ new.full = con[t].full
      BY <1>0, <2>1, <2>3 DEF ConTask
    <2>5. Moves(t, new)
      <3> HIDE DEF new
      <3> QED
        BY <1>0, <2>2, <2>3, <2>4 DEF Moves, Kind, new
    <2> QED
      BY <2>5
  <1>3. CASE ListClusters(t)
    <2>1. PICK to \in [con[t].read -> Clusters] :
              Con(t, "list",
               LET touched == {to[b] : b \in con[t].read}
               IN  [con[t] EXCEPT !.pc = "assign", !.view = Listed(touched),
                                  !.to = [b \in Batches |-> IF b \in con[t].read
                                                            THEN to[b] ELSE None],
                                  !.todo = touched])
      <3>1. PICK to \in [con[t].read -> {k \in Clusters : cluster[k] # NoRow \/ New(k)}] :
              Con(t, "list",
               LET touched == {to[b] : b \in con[t].read}
               IN  [con[t] EXCEPT !.pc = "assign", !.view = Listed(touched),
                                  !.to = [b \in Batches |-> IF b \in con[t].read
                                                            THEN to[b] ELSE None],
                                  !.todo = touched])
        BY <1>3 DEF ListClusters
      <3>2. to \in [con[t].read -> Clusters]
        OBVIOUS
      <3> QED
        BY <3>1, <3>2
    <2> DEFINE f == [b \in Batches |-> IF b \in con[t].read THEN to[b] ELSE None]
               d == {to[b] : b \in con[t].read}
               new == [con[t] EXCEPT !.pc = "assign", !.view = Listed(d), !.to = f,
                                     !.todo = d]
    <2>2. f \in [Batches -> Clusters \cup {None}] /\ d \in SUBSET Clusters
      OBVIOUS
    <2>3. Listed(d) \in [Clusters -> Row]
      BY ListedTyped
    <2>4. Con(t, "list", new) /\ UNCHANGED registered
      BY <1>3, <2>1 DEF ListClusters
    <2>a. \A k \in d : \E b \in con[t].read : f[b] = k
      BY <1>0
    <2> HIDE DEF f, d
    <2>5. /\ new \in ConTask /\ new.pc = "assign" /\ new.full = con[t].full
          /\ new.todo = d /\ new.to = f /\ new.read = con[t].read
      BY <1>0, <2>2, <2>3 DEF ConTask
    <2>6. Moves(t, new)
      <3> HIDE DEF new
      <3> QED
        BY <1>0, <2>4, <2>5, <2>a DEF Moves, Kind
    <2> QED
      BY <2>6
  <1>4. CASE AssignFacts(t)
    <2> DEFINE new == [con[t] EXCEPT !.pc = "upsert"]
    <2>1. Con(t, "assign", new) /\ UNCHANGED registered
      BY <1>4 DEF AssignFacts
    <2>2. /\ new \in ConTask /\ new.pc = "upsert" /\ new.full = con[t].full
          /\ new.todo = con[t].todo /\ new.to = con[t].to /\ new.read = con[t].read
      BY <1>0 DEF ConTask
    <2>3. Moves(t, new)
      <3> HIDE DEF new
      <3> QED
        BY <1>0, <2>1, <2>2 DEF Moves, Kind
    <2> QED
      BY <2>3
  <1>5. CASE UpsertTouched(t)
    <2>1. PICK k \in con[t].todo :
              Con(t, "upsert",
                   IF con[t].todo \ {k} # {}
                   THEN [con[t] EXCEPT !.todo = con[t].todo \ {k}, !.view[k] = NoRow]
                   ELSE IF con[t].full
                        THEN [NoCon EXCEPT !.pc = "fetch", !.full = TRUE,
                                           !.todo = Touched(t)]
                        ELSE [NoCon EXCEPT !.pc = "links"])
      BY <1>5 DEF UpsertTouched
    <2>2. UNCHANGED registered
      BY <1>5 DEF UpsertTouched
    <2> DEFINE x == [con[t] EXCEPT !.todo = con[t].todo \ {k}, !.view[k] = NoRow]
               y == [NoCon EXCEPT !.pc = "fetch", !.full = TRUE, !.todo = Touched(t)]
               z == [NoCon EXCEPT !.pc = "links"]
    <2>3. /\ x \in ConTask /\ x.pc = con[t].pc /\ x.full = con[t].full
          /\ x.todo \subseteq con[t].todo /\ x.to = con[t].to /\ x.read = con[t].read
      BY <1>0, <1>d DEF ConTask
    <2>4. y \in ConTask /\ y.pc = "fetch" /\ y.full
      BY NoneTyped DEF ConTask, Touched
    <2>5. z \in ConTask /\ z.pc = "links" /\ ~z.full
      BY <1>b
    <2>6. con[t].pc = "upsert" /\ con' = [con EXCEPT ![t] = IF con[t].todo \ {k} # {} THEN x
                                        ELSE IF con[t].full THEN y ELSE z]
      BY <2>1
    <2> HIDE DEF x, y, z
    <2>7. Moves(t, IF con[t].todo \ {k} # {} THEN x ELSE IF con[t].full THEN y ELSE z)
      BY <1>0, <2>2, <2>3, <2>4, <2>5, <2>6 DEF Moves, Kind
    <2> QED
      BY <2>7
  <1>6. CASE ListForLinks(t)
    <2>1. PICK changed \in SUBSET Rows(cluster) :
              Con(t, "links",
               IF changed = {} THEN AfterLinks(t)
               ELSE [con[t] EXCEPT !.pc = "relink", !.todo = changed,
                                   !.view = Listed(changed)])
      BY <1>6 DEF ListForLinks
    <2>2. UNCHANGED registered
      BY <1>6 DEF ListForLinks
    <2> DEFINE x == [con[t] EXCEPT !.pc = "relink", !.todo = changed,
                                   !.view = Listed(changed)]
    <2>3. changed \in SUBSET Clusters /\ Listed(changed) \in [Clusters -> Row]
      BY ListedTyped DEF Rows
    <2>4. x \in ConTask /\ x.pc = "relink" /\ x.full = con[t].full
      BY <1>0, <2>3 DEF ConTask
    <2>5. con[t].pc = "links" /\ con' = [con EXCEPT ![t] = IF changed = {} THEN AfterLinks(t) ELSE x]
      BY <2>1
    <2> HIDE DEF x
    <2>6. Moves(t, IF changed = {} THEN AfterLinks(t) ELSE x)
      BY <1>0, <1>e, <2>2, <2>4, <2>5 DEF Moves, Kind
    <2> QED
      BY <2>6
  <1>7. CASE UpsertLinked(t)
    <2>1. PICK k \in con[t].todo :
              Con(t, "relink", IF con[t].todo \ {k} = {} THEN AfterLinks(t)
                     ELSE [con[t] EXCEPT !.todo = con[t].todo \ {k}, !.view[k] = NoRow])
      BY <1>7 DEF UpsertLinked
    <2>2. UNCHANGED registered
      BY <1>7 DEF UpsertLinked
    <2> DEFINE x == [con[t] EXCEPT !.todo = con[t].todo \ {k}, !.view[k] = NoRow]
    <2>3. x \in ConTask /\ x.pc = con[t].pc /\ x.full = con[t].full
      BY <1>0, <1>d
    <2>4. con[t].pc = "relink"
          /\ con' = [con EXCEPT ![t] = IF con[t].todo \ {k} = {} THEN AfterLinks(t) ELSE x]
      BY <2>1
    <2> HIDE DEF x
    <2>5. Moves(t, IF con[t].todo \ {k} = {} THEN AfterLinks(t) ELSE x)
      BY <1>0, <1>e, <2>2, <2>3, <2>4 DEF Moves, Kind
    <2> QED
      BY <2>5
  <1>8. CASE ListForHealth(t)
    <2> DEFINE new == [con[t] EXCEPT !.pc = "tidy", !.view = cluster, !.todo = Rows(cluster)]
    <2>1. Con(t, "health", new) /\ UNCHANGED registered
      BY <1>8 DEF ListForHealth
    <2>2. new \in ConTask /\ new.pc = "tidy" /\ new.full = con[t].full
      BY <1>0 DEF ConTask, TypeOK, Rows
    <2>3. Moves(t, new)
      <3> HIDE DEF new
      <3> QED
        BY <1>0, <2>1, <2>2 DEF Moves, Kind
    <2> QED
      BY <2>3
  <1>9. CASE SplitCluster(t)
    <2>0. PICK k \in con[t].todo, new \in Clusters :
           \E half \in SUBSET FactsOf(k) \ {{}, FactsOf(k)} :
              Regroup(t, half, new, k, new,
               [con[t].view EXCEPT
                    ![k]   = [@ EXCEPT !.members = FactsOf(k) \ half, !.dirty = TRUE],
                    ![new] = [members |-> half, dirty |-> TRUE, summary |-> FALSE]],
               con[t].todo \ {k})
      BY <1>9 DEF SplitCluster
    <2>1. PICK half \in SUBSET FactsOf(k) \ {{}, FactsOf(k)} :
           Regroup(t, half, new, k, new,
               [con[t].view EXCEPT
                    ![k]   = [@ EXCEPT !.members = FactsOf(k) \ half, !.dirty = TRUE],
                    ![new] = [members |-> half, dirty |-> TRUE, summary |-> FALSE]],
               con[t].todo \ {k})
      BY <2>0
    <2> DEFINE a == [con[t].view[k] EXCEPT !.members = FactsOf(k) \ half, !.dirty = TRUE]
               b == [members |-> half, dirty |-> TRUE, summary |-> FALSE]
               v == [con[t].view EXCEPT ![k] = a, ![new] = b]
    <2>2. FactsOf(k) \in SUBSET Batches
      BY DEF FactsOf
    <2>3. a \in Row /\ b \in Row
      BY <1>0, <2>2 DEF Row
    <2>4. v \in [Clusters -> Row]
      <3> HIDE DEF a, b
      <3> QED
        BY <1>0, <2>3 DEF ConTask
    <2>5. Regroup(t, half, new, k, new, v, con[t].todo \ {k})
      BY <2>1
    <2>6. UNCHANGED registered
      BY <1>9 DEF SplitCluster
    <2> HIDE DEF v
    <2> QED
      BY <1>0, <1>f, <2>2, <2>4, <2>5, <2>6
  <1>10. CASE MergeClusters(t)
    <2>1. PICK a, b \in Rows(con[t].view) :
           LET both == con[t].view[a].members \cup con[t].view[b].members
           IN  a # b /\ Regroup(t, con[t].view[b].members, a, a, b,
                   [con[t].view EXCEPT ![a] = [@ EXCEPT !.members = both, !.dirty = TRUE],
                                       ![b] = NoRow],
                   {})
      BY <1>10 DEF MergeClusters
    <2> DEFINE both == con[t].view[a].members \cup con[t].view[b].members
               x == [con[t].view[a] EXCEPT !.members = both, !.dirty = TRUE]
               v == [con[t].view EXCEPT ![a] = x, ![b] = NoRow]
    <2>2. a \in Clusters /\ b \in Clusters /\ con[t].view[b].members \in SUBSET Batches
          /\ both \in SUBSET Batches
      BY <1>0 DEF Rows, Row
    <2>3. x \in Row
      BY <1>0, <2>2 DEF Row
    <2>4. v \in [Clusters -> Row]
      <3> HIDE DEF x
      <3> QED
        BY <1>0, <2>2, <2>3, NoneTyped DEF ConTask
    <2>5. Regroup(t, con[t].view[b].members, a, a, b, v, {})
      BY <2>1
    <2>6. UNCHANGED registered
      BY <1>10 DEF MergeClusters
    <2> HIDE DEF v
    <2> QED
      BY <1>0, <1>f, <2>2, <2>4, <2>5, <2>6
  <1>11. CASE MoveFacts(t)
    <2> DEFINE new == [con[t] EXCEPT !.pc = "keep"]
    <2>1. Con(t, "move", new) /\ UNCHANGED registered
      BY <1>11 DEF MoveFacts
    <2>2. new \in ConTask /\ new.pc = "keep" /\ new.full = con[t].full
      BY <1>0 DEF ConTask
    <2>3. Moves(t, new)
      <3> HIDE DEF new
      <3> QED
        BY <1>0, <2>1, <2>2 DEF Moves, Kind
    <2> QED
      BY <2>3
  <1>12. CASE UpsertKept(t)
    <2> DEFINE new == [con[t] EXCEPT !.pc = "last"]
    <2>1. Con(t, "keep", new) /\ UNCHANGED registered
      BY <1>12 DEF UpsertKept
    <2>2. new \in ConTask /\ new.pc = "last" /\ new.full = con[t].full
      BY <1>0 DEF ConTask
    <2>3. Moves(t, new)
      <3> HIDE DEF new
      <3> QED
        BY <1>0, <2>1, <2>2 DEF Moves, Kind
    <2> QED
      BY <2>3
  <1>13. CASE WriteLast(t)
    <2> DEFINE new == NextOne(t)
    <2>1. Con(t, "last", new) /\ UNCHANGED registered
      BY <1>13 DEF WriteLast
    <2>2. new \in ConTask /\ new.pc = "tidy" /\ new.full = FALSE
      BY <1>g
    <2>3. Moves(t, new)
      <3> HIDE DEF new
      <3> QED
        BY <1>0, <2>1, <2>2 DEF Moves, Kind
    <2> QED
      BY <2>3
  <1>14. CASE HealthChecked(t)
    <2> DEFINE new == [NoCon EXCEPT !.pc = "done"]
    <2>1. Con(t, "tidy", new) /\ UNCHANGED registered
      BY <1>14 DEF HealthChecked
    <2>2. new \in ConTask /\ new.pc = "done" /\ new.full = FALSE
      BY <1>b
    <2>3. Moves(t, new)
      <3> HIDE DEF new
      <3> QED
        BY <1>0, <2>1, <2>2 DEF Moves, Kind
    <2> QED
      BY <2>3
  <1>15. CASE Done(t)
    <2> DEFINE new == [NoCon EXCEPT !.pc = "over"]
    <2>1. Con(t, "done", new) /\ registered' = None
      BY <1>15 DEF Done
    <2>2. new \in ConTask /\ new.pc = "over" /\ new.full = FALSE
      BY <1>b
    <2>3. Moves(t, new)
      <3> HIDE DEF new
      <3> QED
        BY <1>0, <2>1, <2>2 DEF Moves, Kind
    <2> QED
      BY <2>3
  <1>16. CASE DeleteRow(t)
    <2>1. PICK k \in con[t].todo : Con(t, "wipe", [con[t] EXCEPT !.todo = @ \ {k}])
      BY <1>16 DEF DeleteRow
    <2> DEFINE new == [con[t] EXCEPT !.todo = @ \ {k}]
    <2>2. new \in ConTask /\ new.pc = con[t].pc /\ new.full = con[t].full
      BY <1>0 DEF ConTask
    <2>3. Moves(t, new)
      <3>1. UNCHANGED registered
        BY <1>16 DEF DeleteRow
      <3>2. Con(t, "wipe", new)
        BY <2>1
      <3> HIDE DEF new
      <3> QED
        BY <1>0, <2>2, <3>1, <3>2 DEF Moves, Kind
    <2> QED
      BY <2>3
  <1>17. CASE ResetFacts(t)
    <2> DEFINE new == [con[t] EXCEPT !.pc = "read"]
    <2>1. Con(t, "wipe", new) /\ UNCHANGED registered
      BY <1>17 DEF ResetFacts
    <2>2. new \in ConTask /\ new.pc = "read" /\ new.full = con[t].full
      BY <1>0 DEF ConTask
    <2>3. Moves(t, new)
      <3> HIDE DEF new
      <3> QED
        BY <1>0, <2>1, <2>2 DEF Moves, Kind
    <2> QED
      BY <2>3
  <1>18. CASE FetchTouched(t)
    <2> DEFINE f == Found(con[t].todo)
               x == [NoCon EXCEPT !.pc = "links", !.full = TRUE]
               y == [con[t] EXCEPT !.pc = "write", !.todo = f, !.view = Listed(f)]
    <2>1. /\ con[t].pc = "fetch" /\ con' = [con EXCEPT ![t] = IF f = {} THEN x ELSE y]
          /\ UNCHANGED registered
      BY <1>18 DEF FetchTouched
    <2>2. x \in ConTask /\ x.pc = "links" /\ x.full
      BY <1>c
    <2>3. f \in SUBSET Clusters /\ Listed(f) \in [Clusters -> Row]
      BY <1>0, ListedTyped DEF Found
    <2>4. y \in ConTask /\ y.pc = "write" /\ y.full = con[t].full
      <3> HIDE DEF f
      <3> QED
        BY <1>0, <2>3 DEF ConTask
    <2> HIDE DEF x, y, f
    <2>5. Moves(t, IF f = {} THEN x ELSE y)
      BY <1>0, <2>1, <2>2, <2>4 DEF Moves, Kind
    <2> QED
      BY <2>5
  <1>19. ASSUME NEW k \in con[t].todo, RestOf(t, k), UNCHANGED registered
         PROVE  \E new : Moves(t, new)
    <2> DEFINE x == [NoCon EXCEPT !.pc = "links", !.full = TRUE]
               y == [con[t] EXCEPT !.todo = con[t].todo \ {k}, !.view[k] = NoRow]
    <2>1. /\ con[t].pc = "write"
          /\ con' = [con EXCEPT ![t] = IF con[t].todo \ {k} = {} THEN x ELSE y]
      BY <1>19 DEF RestOf
    <2>2. x \in ConTask /\ x.pc = "links" /\ x.full
      BY <1>c
    <2>3. y \in ConTask /\ y.pc = con[t].pc /\ y.full = con[t].full
      BY <1>0, <1>d
    <2> HIDE DEF x, y
    <2>4. Moves(t, IF con[t].todo \ {k} = {} THEN x ELSE y)
      BY <1>0, <1>19, <2>1, <2>2, <2>3 DEF Moves, Kind
    <2> QED
      BY <2>4
  <1>20. CASE WriteTouched(t)
    BY <1>19, <1>20 DEF WriteTouched
  <1>21. CASE RebuildFails(t)
    <2> DEFINE x == [NoCon EXCEPT !.pc = "over", !.full = TRUE]
    <2>1. x \in ConTask /\ x.pc = "over" /\ x.full
      BY <1>c
    <2>2. CASE con' = [con EXCEPT ![t] = x]
      <3>1. UNCHANGED registered /\ Live(t) /\ con[t].full
        BY <1>21 DEF RebuildFails
      <3> HIDE DEF x
      <3>2. Moves(t, x)
        BY <2>1, <2>2, <3>1 DEF Moves, Kind
      <3> QED
        BY <3>2
    <2> QED
      BY <1>19, <1>21, <2>2 DEF RebuildFails
  <1>22. CASE RunFails(t)
    <2> DEFINE x == [NoCon EXCEPT !.pc = "over"]
               y == [NoCon EXCEPT !.pc = "done"]
    <2>1. x \in ConTask /\ x.pc = "over" /\ ~x.full /\ y \in ConTask /\ y.pc = "done" /\ ~y.full
      BY <1>b
    <2>2. /\ Live(t) /\ ~con[t].full
          /\ \/ con' = [con EXCEPT ![t] = x] /\ registered' = None
             \/ /\ con' = [con EXCEPT ![t] = IF Splitting(t) THEN NextOne(t) ELSE y]
                /\ UNCHANGED registered
      BY <1>22 DEF RunFails
    <2> HIDE DEF x, y
    <2>3. Splitting(t) => NextOne(t) \in ConTask /\ NextOne(t).pc = "tidy" /\ ~NextOne(t).full
      BY <1>g
    <2>4. Moves(t, x) \/ Moves(t, IF Splitting(t) THEN NextOne(t) ELSE y)
      BY <1>0, <2>1, <2>2, <2>3 DEF Moves, Kind
    <2> QED
      BY <2>4
  <1> QED
    BY <1>1, <1>2, <1>3, <1>4, <1>5, <1>6, <1>7, <1>8, <1>9, <1>10, <1>11, <1>12, <1>13,
       <1>14, <1>15, <1>16, <1>17, <1>18, <1>20, <1>21, <1>22
       DEF TaskStep, ClusterStep, HealthStep, RebuildStep

\* The task and its record after a step, in the form later proofs use.
LEMMA TaskRecords ==
    ASSUME TypeOK, Kinds, NEW t \in Tasks, TaskStep(t) \/ RunFails(t) \/ RebuildFails(t)
    PROVE  /\ con' \in [Tasks -> ConTask] /\ Kinds'
           /\ Live(t) /\ con'[t].full = con[t].full
           /\ \A q \in Tasks \ {t} : con'[q] = con[q]
           /\ \/ ~con[t].full /\ Live(t)' /\ registered' = registered
              \/ ~con[t].full /\ ~Live(t)' /\ registered' = None
              \/ con[t].full /\ con'[t].pc # "none" /\ registered' = registered
  <1>1. PICK new : Moves(t, new)
    BY TaskMoves
  <1>2. con'[t] = new /\ \A q \in Tasks \ {t} : con'[q] = con[q]
    BY <1>1 DEF Moves, TypeOK
  <1>3. con' \in [Tasks -> ConTask]
    BY <1>1 DEF Moves, TypeOK
  <1>4. con[t].full \in BOOLEAN /\ new.full \in BOOLEAN
    BY <1>1 DEF Moves, TypeOK, ConTask
  <1> QED
    BY <1>1, <1>2, <1>3, <1>4 DEF Moves, Kinds, Live

\* What else a step of a task may write.
LEMMA TaskFrame ==
    ASSUME TypeOK, NEW t \in Tasks, TaskStep(t) \/ RunFails(t) \/ RebuildFails(t)
    PROVE  /\ UNCHANGED <<stored, running, pending, debounce, settle, triggers, lost>>
           /\ gate' \in BOOLEAN /\ (gate => gate')
           /\ dropped' \in BOOLEAN /\ (dropped => dropped')
           /\ faults' \in 0..MaxFaults
  <1>1. Fault => faults' \in 0..MaxFaults
    BY ConsolidationAssumption DEF TypeOK, Fault
  <1> USE DEF TypeOK, factVars, flagVars, boundVars
  <1>2. CASE Begin(t) \/ HealthStep(t) \/ Done(t)
    BY <1>2 DEF Begin, Done, HealthStep, ListForHealth, SplitCluster, MergeClusters,
                MoveFacts, UpsertKept, WriteLast, HealthChecked
  <1>3. CASE ClusterStep(t)
    BY <1>3 DEF ClusterStep, ReadFacts, ListClusters, AssignFacts, UpsertTouched,
                ListForLinks, UpsertLinked
  <1>4. CASE RebuildStep(t)
    BY <1>4 DEF RebuildStep, DeleteRow, ResetFacts, FetchTouched, WriteTouched
  <1>5. CASE RunFails(t) \/ RebuildFails(t)
    BY <1>1, <1>5 DEF RunFails, RebuildFails
  <1> QED
    BY <1>2, <1>3, <1>4, <1>5 DEF TaskStep

\* A summary keeps the members of its row, and a written one leaves it clean.
LEMMA SummarisedTyped ==
    ASSUME NEW row \in Row, NEW given \in BOOLEAN
    PROVE  /\ Summarised(row, given) \in Row
           /\ Summarised(row, given).members = row.members
           /\ ~Stale(Summarised(row, TRUE))
  BY DEF Summarised, Row, Stale

\* Rows are written as they were listed, with members or a summary added, or
\* not at all; facts move to clusters.
LEMMA TaskStores ==
    ASSUME TypeOK, NEW t \in Tasks, TaskStep(t) \/ RunFails(t) \/ RebuildFails(t)
    PROVE  /\ cluster' \in [Clusters -> Row]
           /\ clusterOf' \in [Batches -> Clusters \cup {None}]
  <1>0. /\ con[t] \in ConTask /\ con[t].view \in [Clusters -> Row]
        /\ con[t].todo \subseteq Clusters /\ con[t].read \subseteq Batches
        /\ con[t].to \in [Batches -> Clusters \cup {None}]
        /\ cluster \in [Clusters -> Row]
        /\ clusterOf \in [Batches -> Clusters \cup {None}]
    BY DEF TypeOK, ConTask
  <1>1. CASE AssignFacts(t) \/ MoveFacts(t)
    BY <1>0, <1>1 DEF AssignFacts, MoveFacts, Move
  <1>2. CASE UpsertTouched(t)
    <2>1. PICK k \in con[t].todo :
              cluster' = [cluster EXCEPT ![k] =
                   [con[t].view[k] EXCEPT !.members = @ \cup
                        {b \in con[t].read : con[t].to[b] = k}, !.dirty = TRUE]]
      BY <1>2 DEF UpsertTouched
    <2> DEFINE new == {b \in con[t].read : con[t].to[b] = k}
               old == con[t].view[k]
               row == [old EXCEPT !.members = old.members \cup new, !.dirty = TRUE]
    <2>2. new \in SUBSET Batches
      BY <1>0
    <2>3. cluster' = [cluster EXCEPT ![k] = row]
      BY <2>1
    <2>a. old \in Row
      BY <1>0
    <2> HIDE DEF new, old
    <2>4. row \in Row
      BY <2>2, <2>a DEF Row
    <2>5. clusterOf' = clusterOf
      BY <1>2 DEF UpsertTouched
    <2> HIDE DEF row
    <2> QED
      BY <1>0, <2>3, <2>4, <2>5
  <1>3. CASE UpsertLinked(t)
    BY <1>0, <1>3 DEF UpsertLinked
  <1>4. CASE UpsertKept(t) \/ WriteLast(t)
    BY <1>0, <1>4 DEF UpsertKept, WriteLast
  <1>5. CASE DeleteRow(t) \/ ResetFacts(t)
    BY <1>0, <1>5, NoneTyped DEF DeleteRow, ResetFacts
  <1>6. CASE WriteTouched(t) \/ RebuildFails(t)
    <2>1. /\ clusterOf' = clusterOf
          /\ \/ cluster' = cluster
             \/ \E k \in con[t].todo, given \in BOOLEAN :
                    cluster' = [cluster EXCEPT ![k] = Summarised(con[t].view[k], given)]
      BY <1>6 DEF WriteTouched, RebuildFails
    <2>2. \A k \in con[t].todo : con[t].view[k] \in Row
      BY <1>0
    <2>3. \A k \in con[t].todo, given \in BOOLEAN :
              Summarised(con[t].view[k], given) \in Row
      BY <2>2, SummarisedTyped
    <2> QED
      BY <1>0, <2>1, <2>3
  <1>7. CASE UNCHANGED <<cluster, clusterOf>>
    BY <1>0, <1>7
  <1> QED
    BY <1>1, <1>2, <1>3, <1>4, <1>5, <1>6, <1>7
       DEF TaskStep, ClusterStep, HealthStep, RebuildStep, Begin, ReadFacts, ListClusters,
           ListForLinks, ListForHealth, SplitCluster, MergeClusters, HealthChecked,
           FetchTouched, Done, RunFails, factVars

\* What a summary pass may write into its own record.
LEMMA SettleWrites ==
    ASSUME TypeOK, NEW s \in Settles, Settled(s) \/ SettleStep(s) \/ SummaryFails(s)
    PROVE  \E new \in SettleTask : settle' = [settle EXCEPT ![s] = new]
  <1> USE DEF Settle
  <1>0. /\ settle[s] \in SettleTask /\ NoSettle \in SettleTask
        /\ registered \in Tasks \cup {None}
        /\ settle[s].view \in [Clusters -> Row] /\ settle[s].todo \subseteq Clusters
    BY NoneTyped DEF TypeOK, SettleTask
  <1>1. CASE Settled(s)
    BY <1>0, <1>1 DEF Settled, SettleTask
  <1>2. CASE AwaitRun(s)
    BY <1>0, <1>2 DEF AwaitRun, SettleTask
  <1>3. CASE ListDirty(s)
    <2> DEFINE d == {k \in Clusters : NeedsSummary(k)}
    <2>1. d \in SUBSET Clusters
      OBVIOUS
    <2>2. Settle(s, "list", [settle[s] EXCEPT !.todo = d,
                                 !.pc = IF d = {} THEN "over" ELSE "fetch"])
      BY <1>3 DEF ListDirty
    <2> HIDE DEF d
    <2> QED
      BY <1>0, <2>1, <2>2 DEF SettleTask
  <1>4. CASE FetchRows(s)
    <2> DEFINE f == Found(settle[s].todo)
               x == [NoSettle EXCEPT !.pc = "over"]
               y == [settle[s] EXCEPT !.pc = "write", !.todo = f, !.view = Listed(f)]
    <2>1. settle' = [settle EXCEPT ![s] = IF f = {} THEN x ELSE y]
      BY <1>4 DEF FetchRows
    <2>2. f \in SUBSET Clusters /\ Listed(f) \in [Clusters -> Row]
      BY <1>0, ListedTyped DEF Found
    <2> HIDE DEF f
    <2>3. x \in SettleTask /\ y \in SettleTask
      BY <1>0, <2>2 DEF SettleTask
    <2> HIDE DEF x, y
    <2> QED
      BY <2>1, <2>3
  <1>5. ASSUME NEW k \in settle[s].todo, Rest(s, k)
        PROVE  \E new \in SettleTask : settle' = [settle EXCEPT ![s] = new]
    <2> DEFINE x == [NoSettle EXCEPT !.pc = "over"]
               y == [settle[s] EXCEPT !.todo = settle[s].todo \ {k}, !.view[k] = NoRow]
    <2>1. settle' = [settle EXCEPT ![s] = IF settle[s].todo \ {k} = {} THEN x ELSE y]
      BY <1>5 DEF Rest
    <2>2. [settle[s].view EXCEPT ![k] = NoRow] \in [Clusters -> Row]
      BY <1>0, NoneTyped
    <2>3. x \in SettleTask /\ y \in SettleTask
      BY <1>0, <2>2 DEF SettleTask
    <2> HIDE DEF x, y
    <2> QED
      BY <2>1, <2>3
  <1>6. CASE WriteSummary(s)
    BY <1>5, <1>6 DEF WriteSummary
  <1>7. CASE SummaryFails(s)
    <2>1. CASE settle' = [settle EXCEPT ![s] = [NoSettle EXCEPT !.pc = "over"]]
      BY <1>0, <2>1 DEF SettleTask
    <2> QED
      BY <1>5, <1>7, <2>1 DEF SummaryFails
  <1> QED
    BY <1>1, <1>2, <1>3, <1>4, <1>6, <1>7 DEF SettleStep

\* What else a summary pass may write.
LEMMA SettleFrame ==
    ASSUME TypeOK, NEW s \in Settles, Settled(s) \/ SettleStep(s) \/ SummaryFails(s)
    PROVE  /\ cluster' \in [Clusters -> Row]
           /\ gate' \in BOOLEAN /\ dropped' \in BOOLEAN /\ lost' \in BOOLEAN
           /\ faults' \in 0..MaxFaults
           /\ UNCHANGED <<stored, clusterOf, running, pending, debounce, registered, con,
                          triggers>>
  <1>0. /\ settle[s].view \in [Clusters -> Row] /\ settle[s].todo \subseteq Clusters
        /\ cluster \in [Clusters -> Row]
    BY DEF TypeOK, SettleTask
  <1>1. Fault => faults' \in 0..MaxFaults
    BY ConsolidationAssumption DEF TypeOK, Fault
  <1>2. cluster' \in [Clusters -> Row]
    <2>1. \/ cluster' = cluster
          \/ \E k \in settle[s].todo, given \in BOOLEAN :
                 cluster' = [cluster EXCEPT ![k] = Summarised(settle[s].view[k], given)]
      BY DEF Settled, SettleStep, SummaryFails, AwaitRun, ListDirty, FetchRows,
             WriteSummary, factVars
    <2>2. \A k \in settle[s].todo : settle[s].view[k] \in Row
      BY <1>0
    <2>3. \A k \in settle[s].todo, given \in BOOLEAN :
              Summarised(settle[s].view[k], given) \in Row
      BY <2>2, SummarisedTyped
    <2> QED
      BY <1>0, <2>1, <2>3
  <1>3. /\ gate' \in BOOLEAN /\ dropped' \in BOOLEAN /\ lost' \in BOOLEAN
        /\ faults' \in 0..MaxFaults
    BY <1>1 DEF TypeOK, Settled, SettleStep, SummaryFails, AwaitRun, ListDirty, FetchRows,
                WriteSummary, boundVars
  <1>4. UNCHANGED <<stored, clusterOf, running, pending, debounce, registered, con, triggers>>
    BY DEF Settled, SettleStep, SummaryFails, AwaitRun, ListDirty, FetchRows, WriteSummary,
           factVars, flagVars, boundVars
  <1> QED
    BY <1>2, <1>3, <1>4

\* _spawn_consolidation registers the task it creates, and creates one only
\* when the registered one is over.
LEMMA SpawnWrites ==
    ASSUME TypeOK, Kinds, Spawn
    PROVE  \/ UNCHANGED <<registered, con>>
           \/ /\ registered = None
              /\ registered' \in Tasks /\ con[registered'].pc = "none"
              /\ con'[registered'] \in ConTask /\ Kind(con'[registered'])
              /\ con'[registered'].pc = "policy" /\ ~con'[registered'].full
              /\ \A q \in Tasks \ {registered'} : con'[q] = con[q]
              /\ con' \in [Tasks -> ConTask]
  <1>1. CASE ~UNCHANGED <<registered, con>>
    <2>1. registered = None
      BY <1>1 DEF Spawn, TypeOK
    <2>2. PICK r \in Tasks : IsNext(r) /\ Start(r)
      BY <1>1 DEF Spawn
    <2> DEFINE new == [NoCon EXCEPT !.pc = "policy"]
    <2>3. new \in ConTask /\ new.pc = "policy" /\ ~new.full /\ Kind(new)
      BY NoneTyped DEF ConTask, Kind
    <2>4. registered' = r /\ con' = [con EXCEPT ![r] = new] /\ con[r].pc = "none"
      BY <2>2 DEF Start, IsNext, Fresh
    <2> HIDE DEF new
    <2> QED
      BY <2>1, <2>3, <2>4 DEF TypeOK
  <1> QED
    BY <1>1

\* The API's rebuild takes a task that is not there yet and touches nothing else.
LEMMA RebuildWrites ==
    ASSUME TypeOK, NEW t \in Tasks, Rebuild(t)
    PROVE  /\ con' \in [Tasks -> ConTask]
           /\ con[t].pc = "none" /\ con'[t].pc = "wipe" /\ con'[t].full /\ Kind(con'[t])
           /\ \A q \in Tasks \ {t} : con'[q] = con[q]
           /\ triggers' \in 0..MaxTriggers
           /\ UNCHANGED <<factVars, flagVars, gate, registered, settle, faults, dropped, lost>>
  <1> DEFINE new == [NoCon EXCEPT !.pc = "wipe", !.full = TRUE, !.todo = Rows(cluster)]
  <1>1. new \in ConTask /\ new.pc = "wipe" /\ new.full /\ Kind(new)
    BY NoneTyped DEF ConTask, Kind, Rows
  <1>2. con[t].pc = "none" /\ con' = [con EXCEPT ![t] = new]
    BY DEF Rebuild, Con
  <1>3. triggers' \in 0..MaxTriggers
    BY ConsolidationAssumption DEF Rebuild, TypeOK
  <1> HIDE DEF new
  <1> QED
    BY <1>1, <1>2, <1>3 DEF Rebuild, TypeOK

\* The end of a turn of the debounce loop keeps the types of its flags.
LEMMA LoopTyped ==
    ASSUME TypeOK, NEW b \in Batches, Loop(b)
    PROVE  /\ running' \in BOOLEAN /\ pending' \in BOOLEAN
           /\ debounce' \in [Batches -> {"none", "arrive", "spawn", "over"}]
  BY DEF TypeOK, Loop

\* Types, the kinds of the tasks, and the registry: a run that goes on is the
\* registered one.
OneTask == \A r \in Tasks : Live(r) /\ ~con[r].full => registered = r

TaskInv == TypeOK /\ Kinds /\ OneTask

LEMMA InitTask == Init => TaskInv
  <1> SUFFICES ASSUME Init PROVE TaskInv
    OBVIOUS
  <1> USE DEF Init
  <1>1. /\ cluster \in [Clusters -> Row] /\ con \in [Tasks -> ConTask]
        /\ settle \in [Settles -> SettleTask]
    BY NoneTyped
  <1>2. triggers \in 0..MaxTriggers /\ faults \in 0..MaxFaults
    BY ConsolidationAssumption
  <1>3. TypeOK
    BY <1>1, <1>2 DEF TypeOK
  <1>4. Kinds /\ OneTask
    BY NoneTyped DEF Kinds, OneTask, Live
  <1> QED
    BY <1>3, <1>4 DEF TaskInv

\* A task that is created is the only run that goes on.
LEMMA SpawnTask ==
    ASSUME TaskInv, Spawn
    PROVE  /\ con' \in [Tasks -> ConTask] /\ Kinds' /\ OneTask'
           /\ registered' \in Tasks \cup {None}
           /\ registered' # None => Live(registered)' /\ ~con'[registered'].full
  <1>1. CASE UNCHANGED <<registered, con>>
    BY <1>1 DEF TaskInv, TypeOK, Kinds, OneTask, Live
  <1>2. CASE ~UNCHANGED <<registered, con>>
    <2>1. /\ registered = None /\ registered' \in Tasks
          /\ Kind(con'[registered'])
          /\ con'[registered'].pc = "policy" /\ ~con'[registered'].full
          /\ \A q \in Tasks \ {registered'} : con'[q] = con[q]
          /\ con' \in [Tasks -> ConTask]
      BY <1>2, SpawnWrites DEF TaskInv
    <2>2. None \notin Tasks
      BY ConsolidationAssumption DEF Tasks
    <2> QED
      BY <2>1, <2>2 DEF TaskInv, Kinds, OneTask, Live
  <1> QED
    BY <1>1, <1>2

LEMMA TaskStepKept ==
    ASSUME TaskInv, [Next]_vars
    PROVE  TaskInv'
  <1> USE DEF TaskInv
  <1>0. None \notin Tasks /\ (Fault => faults' \in 0..MaxFaults)
    BY ConsolidationAssumption DEF TypeOK, Fault, Tasks
  <1>1. CASE UNCHANGED vars
    BY <1>1 DEF TypeOK, Kinds, OneTask, Live, vars, factVars, flagVars, boundVars
  <1>2. ASSUME NEW b \in Batches, Announce(b) PROVE TaskInv'
    BY <1>2 DEF Announce, TypeOK, Kinds, OneTask, Live, boundVars
  <1>3. ASSUME NEW b \in Batches, Arrive(b) PROVE TaskInv'
    BY <1>3 DEF Arrive, TypeOK, Kinds, OneTask, Live, factVars, boundVars
  <1>4. ASSUME NEW b \in Batches, ConsolidateOnly(b) PROVE TaskInv'
    <2>1. Spawn /\ Loop(b) /\ gate' = TRUE /\ UNCHANGED <<factVars, settle, boundVars>>
      BY <1>4 DEF ConsolidateOnly
    <2> QED
      BY <2>1, SpawnTask, LoopTyped DEF TypeOK, factVars, boundVars
  <1>5. ASSUME NEW b \in Batches, PolicyFails(b) PROVE TaskInv'
    BY <1>0, <1>5, LoopTyped DEF PolicyFails, TypeOK, Kinds, OneTask, Live, factVars
  <1>6. CASE Trigger
    <2>1. triggers' \in 0..MaxTriggers
      BY <1>6, ConsolidationAssumption DEF Trigger, TypeOK
    <2> QED
      BY <1>6, <2>1, SpawnTask DEF Trigger, TypeOK, factVars, flagVars
  <1>7. ASSUME NEW t \in Tasks, Rebuild(t) PROVE TaskInv'
    <2>1. registered # t
      BY <1>0, <1>7, RebuildWrites DEF TypeOK, Live
    <2>2. Kinds' /\ OneTask'
      BY <1>7, RebuildWrites DEF Kinds, OneTask, Live
    <2>3. registered' # None => Live(registered)' /\ ~con'[registered'].full
      BY <1>7, <2>1, RebuildWrites DEF TypeOK, Live
    <2> QED
      BY <1>7, <2>2, <2>3, RebuildWrites DEF TypeOK, factVars, flagVars
  <1>8. ASSUME NEW t \in Tasks, TaskStep(t) \/ RunFails(t) \/ RebuildFails(t)
        PROVE  TaskInv'
    <2>1. OneTask'
      BY <1>8, TaskRecords DEF OneTask, Live
    <2>2. /\ registered' \in Tasks \cup {None}
          /\ registered' # None => Live(registered)' /\ ~con'[registered'].full
      BY <1>8, TaskRecords DEF OneTask, TypeOK, Live
    <2> QED
      BY <1>8, <2>1, <2>2, TaskRecords, TaskFrame, TaskStores DEF TypeOK
  <1>9. ASSUME NEW s \in Settles, Settled(s) \/ SettleStep(s) \/ SummaryFails(s)
        PROVE  TaskInv'
    <2>1. settle' \in [Settles -> SettleTask]
      BY <1>9, SettleWrites DEF TypeOK
    <2> QED
      BY <1>9, <2>1, SettleFrame DEF TypeOK, Kinds, OneTask, Live
  <1> QED
    BY <1>1, <1>2, <1>3, <1>4, <1>5, <1>6, <1>7, <1>8, <1>9 DEF Next

\* The invariant of the tasks holds throughout.
LEMMA TaskInvariant == Spec => []TaskInv
  BY InitTask, TaskStepKept, PTL DEF Spec

\* Every variable keeps its type, and the registered task is always a run that
\* goes on: a run that ends pops the registration in the same step
\* (pipeline_orchestrator.py), and a rebuild is never registered.
THEOREM ConsolidationTypeCorrect == Spec => []TypeOK
  <1>1. TaskInv => TypeOK
    BY DEF TaskInv
  <1> QED
    BY <1>1, TaskInvariant, PTL

-----------------------------------------------------------------------------
(* The debounce: who is in the loop.                                        *)

InLoop == {b \in Batches : debounce[b] = "spawn"}

\* The loop has one task in it when running is set and none otherwise; a batch
\* that is not announced yet has no task.
Turn ==
    /\ pending => running
    /\ running => \E b \in Batches : InLoop = {b}
    /\ ~running => InLoop = {}
    /\ \A b \in Batches \ stored : debounce[b] = "none"

LEMMA InitTurn == Init => Turn
  BY DEF Init, Turn, InLoop

\* The end of a turn keeps the task in the loop when there is one more turn,
\* and takes it out when there is none.
LEMMA LoopTurn ==
    ASSUME TypeOK, Turn, NEW b \in Batches, debounce[b] = "spawn", Loop(b),
           stored' = stored
    PROVE  Turn'
  <1>1. running /\ InLoop = {b}
    BY DEF Turn, InLoop
  <1>2. /\ pending' = FALSE /\ running' = pending
        /\ debounce' = [debounce EXCEPT ![b] = IF pending THEN "spawn" ELSE "over"]
    BY DEF Loop
  <1>3. CASE pending
    <2>1. debounce' = debounce /\ running'
      BY <1>2, <1>3 DEF TypeOK
    <2>2. InLoop' = {b}
      BY <1>1, <2>1 DEF InLoop
    <2> QED
      BY <1>2, <2>1, <2>2 DEF Turn
  <1>4. CASE ~pending
    <2>1. /\ debounce'[b] = "over" /\ ~running'
          /\ \A c \in Batches \ {b} : debounce'[c] = debounce[c]
      BY <1>2, <1>4 DEF TypeOK
    <2>2. InLoop' = {}
      BY <1>1, <2>1 DEF InLoop
    <2>3. b \in stored
      BY DEF Turn
    <2> QED
      BY <1>2, <2>1, <2>2, <2>3 DEF Turn
  <1> QED
    BY <1>3, <1>4

LEMMA TurnStep ==
    ASSUME TypeOK, Turn, [Next]_vars
    PROVE  Turn'
  <1>1. CASE UNCHANGED <<running, pending, debounce, stored>>
    BY <1>1 DEF Turn, InLoop
  <1>2. ASSUME NEW b \in Batches, Announce(b) PROVE Turn'
    <2>1. /\ debounce[b] = "none" /\ debounce'[b] = "arrive"
          /\ \A c \in Batches \ {b} : debounce'[c] = debounce[c]
          /\ running' = running /\ pending' = pending /\ stored' = stored \cup {b}
      BY <1>2 DEF Announce, Turn, TypeOK
    <2>2. InLoop' = InLoop
      BY <2>1 DEF InLoop
    <2> QED
      BY <2>1, <2>2 DEF Turn
  <1>3. ASSUME NEW b \in Batches, Arrive(b) PROVE Turn'
    <2>0. stored' = stored /\ b \in stored
      BY <1>3 DEF Arrive, Turn, factVars
    <2>1. CASE running
      <3>1. /\ running' = running /\ pending' = TRUE
            /\ debounce[b] = "arrive" /\ debounce'[b] = "over"
            /\ \A c \in Batches \ {b} : debounce'[c] = debounce[c]
        BY <1>3, <2>1 DEF Arrive, TypeOK
      <3>2. InLoop' = InLoop
        BY <3>1 DEF InLoop
      <3> QED
        BY <2>0, <2>1, <3>1, <3>2 DEF Turn
    <2>2. CASE ~running
      <3>1. /\ running' = TRUE /\ pending' = FALSE /\ debounce'[b] = "spawn"
            /\ \A c \in Batches \ {b} : debounce'[c] = debounce[c]
        BY <1>3, <2>2 DEF Arrive, TypeOK
      <3>2. \A c \in Batches : debounce[c] # "spawn"
        BY <2>2 DEF Turn, InLoop
      <3>3. InLoop' = {b}
        BY <3>1, <3>2 DEF InLoop
      <3> QED
        BY <2>0, <3>1, <3>3 DEF Turn
    <2> QED
      BY <2>1, <2>2
  <1>4. ASSUME NEW b \in Batches, ConsolidateOnly(b) \/ PolicyFails(b) PROVE Turn'
    BY <1>4, LoopTurn DEF ConsolidateOnly, PolicyFails, factVars
  <1>5. CASE Trigger \/ \E t \in Tasks : Rebuild(t)
    BY <1>1, <1>5 DEF Trigger, Rebuild, factVars, flagVars
  <1>6. CASE \E t \in Tasks : TaskStep(t) \/ RunFails(t) \/ RebuildFails(t)
    <2>1. UNCHANGED <<running, pending, debounce, stored>>
      BY <1>6, TaskFrame
    <2> QED
      BY <1>1, <2>1
  <1>8. CASE \E s \in Settles : Settled(s) \/ SettleStep(s) \/ SummaryFails(s)
    <2>1. UNCHANGED <<running, pending, debounce, stored>>
      BY <1>8, SettleFrame
    <2> QED
      BY <1>1, <2>1
  <1>7. CASE UNCHANGED vars
    BY <1>1, <1>7 DEF vars, factVars, flagVars
  <1> QED
    BY <1>2, <1>3, <1>4, <1>5, <1>6, <1>7, <1>8 DEF Next

LEMMA TurnSuffices == Turn => PendingIsSeen
  <1> SUFFICES ASSUME Turn PROVE PendingIsSeen
    OBVIOUS
  <1>1. CASE running
    <2>1. PICK b \in Batches : InLoop = {b}
      BY <1>1 DEF Turn
    <2>2. Cardinality(InLoop) = 1
      BY <2>1, FS_Singleton
    <2> QED
      BY <1>1, <2>2 DEF PendingIsSeen, InLoop
  <1>2. CASE ~running
    <2>1. Cardinality(InLoop) = 0
      BY <1>2, FS_EmptySet DEF Turn
    <2> QED
      BY <1>2, <2>1 DEF PendingIsSeen, InLoop, Turn
  <1> QED
    BY <1>1, <1>2

\* The pending flag is set only while exactly one task is in the debounce loop
\* to see it (server/app.py), for every number of batches.
THEOREM ConsolidationPendingIsSeen == Spec => []PendingIsSeen
  <1>1. Spec => []TypeOK
    BY ConsolidationTypeCorrect
  <1>2. Spec => []Turn
    BY <1>1, InitTurn, TurnStep, PTL DEF Spec
  <1> QED
    BY <1>2, TurnSuffices, PTL

-----------------------------------------------------------------------------
(* The summaries that are owed.                                             *)

HasNeed(k) == NeedsSummary(k) /\ FactsOf(k) # {}

Owes(s, k) == \/ settle[s].pc \in {"await", "list"}
              \/ settle[s].pc \in {"fetch", "write"} /\ k \in settle[s].todo

\* Who comes back to a cluster.
Paid(k) == \/ gate
           \/ \E s \in Settles : Owes(s, k)
           \/ \E t \in Tasks : Summarises(t, k)

\* A run past its first step works under the gate, or a summary pass that
\* took the gate waits for it.
Waits ==
    \A r \in Tasks : Live(r) /\ ~con[r].full /\ con[r].pc # "policy" =>
        gate \/ \E s \in Settles : settle[s].pc = "await" /\ settle[s].on = r

AllPaid == dropped \/ \A k \in Clusters : HasNeed(k) => Paid(k)

OwedInv == Waits /\ AllPaid

LEMMA OwedSuffices == OwedInv => DirtyIsOwed
  BY DEF OwedInv, AllPaid, DirtyIsOwed, HasNeed, Paid, Owes

LEMMA InitOwed == Init => OwedInv
  <1> SUFFICES ASSUME Init PROVE OwedInv
    OBVIOUS
  <1>1. Waits
    BY NoneTyped DEF Init, Waits, Live
  <1>2. \A k \in Clusters : ~HasNeed(k)
    BY NoneTyped DEF Init, HasNeed, NeedsSummary, Stale
  <1> QED
    BY <1>1, <1>2 DEF OwedInv, AllPaid

\* A step that leaves the rows, the facts, the passes and the tasks that were
\* there alone and does not take the gate; a task it creates is at its start.
LEMMA StartOwed ==
    ASSUME TypeOK, OwedInv, UNCHANGED <<cluster, clusterOf, settle, dropped>>, gate => gate',
           \A r \in Tasks : \/ con'[r] = con[r]
                            \/ /\ con[r].pc = "none"
                               /\ con'[r].pc = "policy" \/ con'[r].full
    PROVE  OwedInv'
  <1>1. Waits'
    BY DEF OwedInv, Waits, Live
  <1>2. \A t \in Tasks, k \in Clusters : Summarises(t, k) => Summarises(t, k)'
    BY DEF Summarises, Touched
  <1>3. \A k \in Clusters : HasNeed(k)' <=> HasNeed(k)
    BY DEF HasNeed, NeedsSummary, FactsOf
  <1>4. \A s \in Settles, k \in Clusters : Owes(s, k)' <=> Owes(s, k)
    BY DEF Owes
  <1>5. AllPaid'
    BY <1>2, <1>3, <1>4 DEF OwedInv, AllPaid, Paid
  <1> QED
    BY <1>1, <1>5 DEF OwedInv

\* A run: its writes are under the gate or awaited by the pass that took it.
LEMMA RunOwed ==
    ASSUME TaskInv, OwedInv, NEW t \in Tasks, ~con[t].full,
           TaskStep(t) \/ RunFails(t)
    PROVE  OwedInv'
  <1>1. /\ Live(t) /\ ~con'[t].full /\ \A q \in Tasks \ {t} : con'[q] = con[q]
    BY TaskRecords DEF TaskInv
  <1>2. UNCHANGED settle /\ (gate => gate')
    BY TaskFrame DEF TaskInv
  <1>3. CASE con[t].pc = "policy"
    <2>1. UNCHANGED <<cluster, clusterOf, dropped>> /\ (gate' \/ ~Live(t)')
      <3>1. CASE Begin(t)
        BY <3>1 DEF Begin, factVars, boundVars
      <3>2. CASE RunFails(t)
        <4>1. [NoCon EXCEPT !.pc = "over"].pc = "over"
          BY NoneTyped DEF ConTask
        <4> QED
          BY <1>3, <3>2, <4>1 DEF RunFails, Live, TaskInv, TypeOK, factVars
      <3> QED
        BY <1>3, <3>1, <3>2
           DEF TaskStep, ClusterStep, HealthStep, RebuildStep, Con, ReadFacts,
               ListClusters, AssignFacts, UpsertTouched, ListForLinks, UpsertLinked,
               ListForHealth, SplitCluster, MergeClusters, Regroup, MoveFacts, UpsertKept,
               WriteLast, HealthChecked, DeleteRow, ResetFacts, FetchTouched, RestOf,
               WriteTouched, Done
    <2>2. Waits'
      BY <1>1, <1>2, <2>1 DEF OwedInv, Waits, Live
    <2>3. \A q \in Tasks, k \in Clusters : Summarises(q, k) => Summarises(q, k)'
      BY <1>1, <1>3 DEF Summarises, Touched
    <2>4. \A k \in Clusters : HasNeed(k)' <=> HasNeed(k)
      BY <2>1 DEF HasNeed, NeedsSummary, FactsOf
    <2>5. \A s \in Settles, k \in Clusters : Owes(s, k)' <=> Owes(s, k)
      BY <1>2 DEF Owes
    <2>6. AllPaid'
      BY <1>2, <2>1, <2>3, <2>4, <2>5 DEF OwedInv, AllPaid, Paid
    <2> QED
      BY <2>2, <2>6 DEF OwedInv
  <1>4. CASE con[t].pc # "policy"
    <2>1. gate \/ \E s \in Settles : settle[s].pc = "await" /\ settle[s].on = t
      BY <1>1, <1>4 DEF OwedInv, Waits
    <2>2. Waits'
      BY <1>1, <1>2, <2>1 DEF OwedInv, Waits, Live
    <2>3. gate' \/ \E s \in Settles : settle'[s].pc = "await"
      BY <1>2, <2>1
    <2>4. AllPaid'
      BY <2>3 DEF AllPaid, Paid, Owes
    <2> QED
      BY <2>2, <2>4 DEF OwedInv
  <1> QED
    BY <1>3, <1>4

\* The clusters a step of a rebuild leaves in need are those that were, or those
\* it has still to summarise.
LEMMA RebuildNeeds ==
    ASSUME TaskInv, NEW t \in Tasks, con[t].full, TaskStep(t) \/ RebuildFails(t),
           ~dropped', NEW k \in Clusters, HasNeed(k)'
    PROVE  /\ HasNeed(k) \/ Summarises(t, k)'
           /\ Summarises(t, k) => Summarises(t, k)'
  <1> USE DEF Con
  <1>0. /\ con[t] \in ConTask /\ Kind(con[t])
        /\ con \in [Tasks -> ConTask] /\ cluster \in [Clusters -> Row]
        /\ con[t].view \in [Clusters -> Row] /\ con[t].todo \subseteq Clusters
        /\ clusterOf \in [Batches -> Clusters \cup {None}]
    BY DEF TaskInv, TypeOK, Kinds, ConTask
  <1>1. ASSUME UNCHANGED <<cluster, clusterOf>>, ~Summarises(t, k)
        PROVE  HasNeed(k)
    BY <1>1 DEF HasNeed, NeedsSummary, FactsOf
  <1>2. CASE ReadFacts(t) \/ ListClusters(t) \/ ListForLinks(t)
    <2>1. ~Summarises(t, k)
      BY <1>2 DEF Summarises, ReadFacts, ListClusters, ListForLinks
    <2> QED
      BY <1>1, <1>2, <2>1 DEF ReadFacts, ListClusters, ListForLinks, factVars
  <1>3. CASE AssignFacts(t)
    <2>1. /\ con[t].pc = "assign" /\ con'[t] = [con[t] EXCEPT !.pc = "upsert"]
          /\ cluster' = cluster
          /\ clusterOf' = [b \in Batches |-> IF b \in con[t].read THEN con[t].to[b]
                                             ELSE clusterOf[b]]
      BY <1>0, <1>3 DEF AssignFacts, Move
    <2>2. /\ con'[t].pc = "upsert" /\ con'[t].full
          /\ con'[t].read = con[t].read /\ con'[t].to = con[t].to
      BY <1>0, <2>1 DEF ConTask
    <2>3. ~Summarises(t, k)
      BY <2>1 DEF Summarises
    <2>4. CASE k \in Touched(t)
      BY <2>2, <2>3, <2>4 DEF Summarises, Touched
    <2>5. CASE k \notin Touched(t)
      <3>1. PICK b \in Batches : clusterOf'[b] = k
        BY DEF HasNeed, FactsOf
      <3>2. clusterOf[b] = k
        BY <2>1, <2>5, <3>1 DEF Touched
      <3> QED
        BY <2>1, <2>3, <3>2 DEF HasNeed, NeedsSummary, FactsOf
    <2> QED
      BY <2>4, <2>5
  <1>4. CASE UpsertTouched(t)
    <2>1. PICK j \in con[t].todo :
              /\ con[t].pc = "upsert"
              /\ con' = [con EXCEPT ![t] =
                   IF con[t].todo \ {j} # {}
                   THEN [con[t] EXCEPT !.todo = con[t].todo \ {j}, !.view[j] = NoRow]
                   ELSE [NoCon EXCEPT !.pc = "fetch", !.full = TRUE, !.todo = Touched(t)]]
              /\ \A l \in Clusters \ {j} : cluster'[l] = cluster[l]
              /\ clusterOf' = clusterOf
      BY <1>0, <1>4 DEF UpsertTouched
    <2> DEFINE x == [con[t] EXCEPT !.todo = con[t].todo \ {j}, !.view[j] = NoRow]
               y == [NoCon EXCEPT !.pc = "fetch", !.full = TRUE, !.todo = Touched(t)]
    <2>2. /\ x.pc = con[t].pc /\ x.full = con[t].full
          /\ x.read = con[t].read /\ x.to = con[t].to
      BY <1>0 DEF ConTask
    <2>3. y.pc = "fetch" /\ y.full /\ y.todo = Touched(t)
      BY NoneTyped DEF ConTask
    <2>4. con'[t] = x \/ con'[t] = y
      BY <1>0, <2>1
    <2> HIDE DEF x, y
    <2>5. \A l \in Touched(t) : Summarises(t, l)'
      BY <2>1, <2>2, <2>3, <2>4 DEF Summarises, Touched
    <2>6. j \in Touched(t)
      BY <1>0, <2>1 DEF Kind, Touched
    <2>7. k # j => HasNeed(k)
      BY <2>1 DEF HasNeed, NeedsSummary, FactsOf
    <2>8. Summarises(t, k) => k \in Touched(t)
      BY <2>1 DEF Summarises
    <2> QED
      BY <2>5, <2>6, <2>7, <2>8
  <1>5. CASE UpsertLinked(t)
    <2>1. PICK j \in con[t].todo :
              /\ con[t].pc = "relink" /\ clusterOf' = clusterOf
              /\ cluster' = [cluster EXCEPT ![j] = con[t].view[j]]
              /\ ~Stale(con[t].view[j])
      BY <1>5 DEF UpsertLinked
    <2>2. k # j
      BY <1>0, <2>1 DEF HasNeed, NeedsSummary
    <2>3. HasNeed(k)
      BY <1>0, <2>1, <2>2 DEF HasNeed, NeedsSummary, FactsOf
    <2> QED
      BY <2>1, <2>3 DEF Summarises
  <1>6. CASE DeleteRow(t)
    <2>1. PICK j \in con[t].todo : /\ con[t].pc = "wipe" /\ clusterOf' = clusterOf
                                   /\ cluster' = [cluster EXCEPT ![j] = NoRow]
      BY <1>6 DEF DeleteRow
    <2>2. k # j
      BY <1>0, <2>1, NoneTyped DEF HasNeed, NeedsSummary, Stale
    <2>3. HasNeed(k)
      BY <1>0, <2>1, <2>2 DEF HasNeed, NeedsSummary, FactsOf
    <2> QED
      BY <2>1, <2>3 DEF Summarises
  <1>7. CASE ResetFacts(t)
    BY <1>7, ConsolidationAssumption DEF ResetFacts, HasNeed, FactsOf
  <1>8. CASE FetchTouched(t)
    <2> DEFINE f == Found(con[t].todo)
               x == [NoCon EXCEPT !.pc = "links", !.full = TRUE]
               y == [con[t] EXCEPT !.pc = "write", !.todo = f, !.view = Listed(f)]
    <2>1. /\ con[t].pc = "fetch" /\ UNCHANGED <<cluster, clusterOf>>
          /\ con'[t] = IF f = {} THEN x ELSE y
      BY <1>0, <1>8 DEF FetchTouched, factVars
    <2>2. y.pc = "write" /\ y.todo = f
      BY <1>0 DEF ConTask
    <2>3. HasNeed(k)
      BY <2>1 DEF HasNeed, NeedsSummary, FactsOf
    <2>4. k \in con[t].todo => k \in f
      BY <2>3, NoneTyped DEF HasNeed, NeedsSummary, Stale, Found
    <2>5. Summarises(t, k) => k \in con[t].todo
      BY <2>1 DEF Summarises
    <2> HIDE DEF f, x, y
    <2>6. Summarises(t, k) => Summarises(t, k)'
      BY <2>1, <2>2, <2>4, <2>5 DEF Summarises
    <2> QED
      BY <2>3, <2>6
  <1>9. CASE WriteTouched(t)
    <2>1. PICK j \in con[t].todo :
              RestOf(t, j) /\ cluster' = [cluster EXCEPT ![j] = Summarised(con[t].view[j], TRUE)]
      BY <1>9 DEF WriteTouched
    <2>2. clusterOf' = clusterOf
      BY <1>9 DEF WriteTouched
    <2>3. con[t].view[j] \in Row /\ j \in Clusters
      BY <1>0
    <2>4. ~Stale(Summarised(con[t].view[j], TRUE))
      BY <2>3, SummarisedTyped
    <2>5. k # j
      BY <1>0, <2>1, <2>3, <2>4 DEF HasNeed, NeedsSummary
    <2>6. HasNeed(k)
      BY <1>0, <2>1, <2>2, <2>5 DEF HasNeed, NeedsSummary, FactsOf
    <2> DEFINE y == [con[t] EXCEPT !.todo = con[t].todo \ {j}, !.view[j] = NoRow]
    <2>7. con[t].pc = "write" /\ (con[t].todo \ {j} # {} => con'[t] = y)
      BY <1>0, <2>1 DEF RestOf
    <2>8. y.pc = con[t].pc /\ y.todo = con[t].todo \ {j}
      BY <1>0 DEF ConTask
    <2> HIDE DEF y
    <2>9. Summarises(t, k) => Summarises(t, k)'
      BY <2>5, <2>7, <2>8 DEF Summarises
    <2> QED
      BY <2>6, <2>9
  <1>10. CASE RebuildFails(t)
    <2>1. con[t].pc \notin {"upsert", "fetch", "write"}
      BY <1>10 DEF RebuildFails
    <2>2. UNCHANGED <<cluster, clusterOf>> /\ ~Summarises(t, k)
      BY <1>10, <2>1 DEF RebuildFails, RestOf, Summarises
    <2> QED
      BY <1>1, <2>2
  <1> QED
    BY <1>0, <1>2, <1>3, <1>4, <1>5, <1>6, <1>7, <1>8, <1>9, <1>10
       DEF TaskStep, ClusterStep, HealthStep, RebuildStep, Kind, Begin, ListForHealth,
           SplitCluster, MergeClusters, Regroup, MoveFacts, UpsertKept, WriteLast,
           HealthChecked, Done

\* A rebuild: what it leaves in need is in its own list.
LEMMA RebuildOwed ==
    ASSUME TaskInv, OwedInv, NEW t \in Tasks, con[t].full,
           TaskStep(t) \/ RebuildFails(t)
    PROVE  OwedInv'
  <1>1. /\ con'[t].full /\ \A q \in Tasks \ {t} : con'[q] = con[q]
    BY TaskRecords DEF TaskInv
  <1>2. UNCHANGED settle /\ (gate => gate') /\ (dropped => dropped') /\ dropped' \in BOOLEAN
    BY TaskFrame DEF TaskInv
  <1>3. Waits'
    BY <1>1, <1>2 DEF OwedInv, Waits, Live
  <1>4. ASSUME ~dropped', NEW k \in Clusters, HasNeed(k)' PROVE Paid(k)'
    <2>1. /\ HasNeed(k) \/ Summarises(t, k)'
          /\ Summarises(t, k) => Summarises(t, k)'
      BY <1>4, RebuildNeeds
    <2>2. \A q \in Tasks \ {t} : Summarises(q, k) => Summarises(q, k)'
      BY <1>1 DEF Summarises, Touched
    <2>3. \A s \in Settles : Owes(s, k)' <=> Owes(s, k)
      BY <1>2 DEF Owes
    <2>4. HasNeed(k) => Paid(k)
      BY <1>2, <1>4 DEF OwedInv, AllPaid
    <2> QED
      BY <1>2, <2>1, <2>2, <2>3, <2>4 DEF Paid
  <1> QED
    BY <1>2, <1>3, <1>4 DEF OwedInv, AllPaid

\* A summary pass: it takes the gate and waits, or has listed what is in need.
LEMMA SettleOwed ==
    ASSUME TaskInv, OwedInv, NEW s \in Settles,
           Settled(s) \/ SettleStep(s) \/ SummaryFails(s)
    PROVE  OwedInv'
  <1> USE DEF TaskInv
  <1>0. UNCHANGED <<con, registered, clusterOf>>
    BY SettleFrame
  <1>1. /\ \A t \in Settles \ {s} : settle'[t] = settle[t]
        /\ NoSettle \in SettleTask /\ settle[s] \in SettleTask
        /\ settle \in [Settles -> SettleTask]
        /\ settle[s].view \in [Clusters -> Row] /\ settle[s].todo \subseteq Clusters
    BY SettleWrites, NoneTyped DEF TypeOK, SettleTask
  <1>a. \A t \in Tasks, k \in Clusters : Summarises(t, k)' <=> Summarises(t, k)
    BY <1>0 DEF Summarises, Touched
  <1>b. ASSUME cluster' = cluster, gate' = gate, dropped' = dropped,
               \A k \in Clusters : HasNeed(k) /\ Owes(s, k) => Owes(s, k)'
        PROVE  AllPaid'
    <2>1. \A k \in Clusters : HasNeed(k)' <=> HasNeed(k)
      BY <1>0, <1>b DEF HasNeed, NeedsSummary, FactsOf
    <2>2. \A k \in Clusters, t \in Settles \ {s} : Owes(t, k) => Owes(t, k)'
      BY <1>1 DEF Owes
    <2> QED
      BY <1>a, <1>b, <2>1, <2>2 DEF OwedInv, AllPaid, Paid
  <1>2. CASE Settled(s)
    <2>1. settle[s].pc = "none" /\ UNCHANGED <<cluster, dropped>>
      BY <1>2 DEF Settled, Settle, factVars, boundVars
    <2>2. CASE ~gate
      <3>1. gate' = gate
        BY <1>2, <2>2 DEF Settled
      <3>2. AllPaid'
        BY <1>b, <2>1, <3>1 DEF Owes
      <3>3. Waits'
        BY <1>0, <1>1, <2>1, <3>1 DEF OwedInv, Waits, Live
      <3> QED
        BY <3>2, <3>3 DEF OwedInv
    <2>3. CASE gate
      <3> DEFINE x == [NoSettle EXCEPT !.pc = "list"]
                 y == [NoSettle EXCEPT !.pc = "await", !.on = registered]
      <3>1. x.pc = "list" /\ y.pc = "await" /\ y.on = registered
        BY DEF NoSettle
      <3>2. \/ registered = None /\ settle' = [settle EXCEPT ![s] = x]
            \/ registered # None /\ settle' = [settle EXCEPT ![s] = y]
        BY <1>2, <2>3 DEF Settled, Settle
      <3> HIDE DEF x, y
      <3>3. \/ registered = None /\ settle'[s].pc = "list"
            \/ registered # None /\ settle'[s].pc = "await" /\ settle'[s].on = registered
        BY <1>1, <3>1, <3>2
      <3>4. AllPaid'
        BY <3>3 DEF AllPaid, Paid, Owes
      <3>5. \A r \in Tasks : Live(r)' /\ ~con'[r].full => registered = r /\ registered # None
        BY <1>0, ConsolidationAssumption DEF OneTask, Live, Tasks
      <3> QED
        BY <3>3, <3>4, <3>5 DEF OwedInv, Waits
    <2> QED
      BY <2>2, <2>3 DEF TypeOK
  <1>3. CASE AwaitRun(s)
    <2>1. /\ con[settle[s].on].pc = "over" /\ gate' = gate /\ settle'[s].pc = "list"
      BY <1>1, <1>3 DEF AwaitRun, Awaited, Settle, TypeOK, SettleTask
    <2>2. AllPaid'
      BY <2>1 DEF AllPaid, Paid, Owes
    <2>3. Waits'
      BY <1>0, <1>1, <2>1 DEF OwedInv, Waits, Live
    <2> QED
      BY <2>2, <2>3 DEF OwedInv
  <1>4. CASE ~Settled(s) /\ ~AwaitRun(s)
    <2>1. gate' = gate /\ settle[s].pc \in {"list", "fetch", "write"}
      BY <1>4 DEF SettleStep, SummaryFails, ListDirty, FetchRows, WriteSummary, Rest, Settle
    <2>2. Waits'
      BY <1>0, <1>1, <2>1 DEF OwedInv, Waits, Live
    <2>3. CASE ListDirty(s)
      <3> DEFINE d == {k \in Clusters : NeedsSummary(k)}
      <3>1. /\ settle' = [settle EXCEPT ![s] = [settle[s] EXCEPT !.todo = d,
                                  !.pc = IF d = {} THEN "over" ELSE "fetch"]]
            /\ UNCHANGED <<cluster, dropped>>
        BY <2>3 DEF ListDirty, Settle, factVars, boundVars
      <3>2. \A k \in Clusters : HasNeed(k) => k \in d
        BY DEF HasNeed
      <3> HIDE DEF d
      <3>3. d # {} => settle'[s].pc = "fetch" /\ settle'[s].todo = d
        BY <1>1, <3>1 DEF SettleTask
      <3>4. AllPaid'
        BY <1>b, <2>1, <3>1, <3>2, <3>3 DEF Owes
      <3> QED
        BY <2>2, <3>4 DEF OwedInv
    <2>4. CASE FetchRows(s)
      <3> DEFINE f == Found(settle[s].todo)
                 x == [NoSettle EXCEPT !.pc = "over"]
                 y == [settle[s] EXCEPT !.pc = "write", !.todo = f, !.view = Listed(f)]
      <3>1. /\ settle[s].pc = "fetch" /\ UNCHANGED <<cluster, dropped>>
            /\ settle'[s] = IF f = {} THEN x ELSE y
        BY <1>1, <2>4 DEF FetchRows, Settle, factVars, boundVars
      <3>2. y.pc = "write" /\ y.todo = f
        BY <1>1 DEF SettleTask
      <3>3. \A k \in settle[s].todo : HasNeed(k) => k \in f
        BY NoneTyped DEF HasNeed, NeedsSummary, Stale, Found
      <3> HIDE DEF f, x, y
      <3>4. AllPaid'
        BY <1>b, <2>1, <3>1, <3>2, <3>3 DEF Owes
      <3> QED
        BY <2>2, <3>4 DEF OwedInv
    <2>5. CASE WriteSummary(s)
      <3>1. PICK k \in settle[s].todo :
                /\ Rest(s, k)
                /\ cluster' = [cluster EXCEPT ![k] = Summarised(settle[s].view[k], TRUE)]
        BY <2>5 DEF WriteSummary
      <3>2. k \in Clusters /\ settle[s].view[k] \in Row /\ cluster \in [Clusters -> Row]
        BY <1>1 DEF TypeOK
      <3>3. ~Stale(Summarised(settle[s].view[k], TRUE))
        BY <3>2, SummarisedTyped
      <3>4. ~HasNeed(k)'
        BY <3>1, <3>2, <3>3 DEF HasNeed, NeedsSummary
      <3>5. \A l \in Clusters \ {k} : HasNeed(l)' => HasNeed(l)
        BY <1>0, <3>1, <3>2 DEF HasNeed, NeedsSummary, FactsOf
      <3> DEFINE y == [settle[s] EXCEPT !.todo = settle[s].todo \ {k}, !.view[k] = NoRow]
      <3>6. /\ settle[s].pc = "write"
            /\ settle[s].todo \ {k} # {} => settle'[s] = y
        BY <1>1, <3>1 DEF Rest, Settle
      <3>7. y.pc = settle[s].pc /\ y.todo = settle[s].todo \ {k}
        BY <1>1 DEF SettleTask
      <3> HIDE DEF y
      <3>8. dropped' = dropped
        BY <2>5 DEF WriteSummary
      <3>9. \A l \in Clusters \ {k}, t \in Settles : Owes(t, l) => Owes(t, l)'
        <4> TAKE l \in Clusters \ {k}, t \in Settles
        <4>1. CASE t = s
          BY <3>6, <3>7, <4>1 DEF Owes
        <4>2. CASE t # s
          BY <1>1, <4>2 DEF Owes
        <4> QED
          BY <4>1, <4>2
      <3>10. AllPaid'
        BY <1>a, <2>1, <3>4, <3>5, <3>8, <3>9 DEF OwedInv, AllPaid, Paid
      <3> QED
        BY <2>2, <3>10 DEF OwedInv
    <2>6. CASE SummaryFails(s)
      BY <2>2, <2>6 DEF SummaryFails, OwedInv, AllPaid
    <2> QED
      BY <1>4, <2>3, <2>4, <2>5, <2>6 DEF SettleStep
  <1> QED
    BY <1>2, <1>3, <1>4

LEMMA OwedStep ==
    ASSUME TaskInv, OwedInv, [Next]_vars
    PROVE  OwedInv'
  <1> USE DEF TaskInv
  <1>1. CASE UNCHANGED <<con, gate, cluster, clusterOf, settle, dropped>>
    BY <1>1, StartOwed
  <1>2. CASE Spawn /\ UNCHANGED <<cluster, clusterOf, settle, dropped>> /\ (gate => gate')
    BY <1>2, SpawnWrites, StartOwed
  <1>3. ASSUME NEW b \in Batches,
               Announce(b) \/ Arrive(b) \/ ConsolidateOnly(b) \/ PolicyFails(b)
        PROVE  OwedInv'
    BY <1>1, <1>2, <1>3
       DEF Announce, Arrive, ConsolidateOnly, PolicyFails, factVars, boundVars
  <1>4. CASE Trigger
    BY <1>2, <1>4 DEF Trigger, factVars
  <1>5. ASSUME NEW t \in Tasks, Rebuild(t) PROVE OwedInv'
    BY <1>5, RebuildWrites, StartOwed DEF factVars
  <1>6. ASSUME NEW t \in Tasks, TaskStep(t) \/ RunFails(t) \/ RebuildFails(t)
        PROVE  OwedInv'
    <2>1. CASE con[t].full
      BY <1>6, <2>1, RebuildOwed DEF RunFails
    <2>2. CASE ~con[t].full
      BY <1>6, <2>2, RunOwed DEF RebuildFails
    <2> QED
      BY <2>1, <2>2
  <1>7. ASSUME NEW s \in Settles, Settled(s) \/ SettleStep(s) \/ SummaryFails(s)
        PROVE  OwedInv'
    BY <1>7, SettleOwed
  <1>8. CASE UNCHANGED vars
    BY <1>1, <1>8 DEF vars, factVars, boundVars
  <1> QED
    BY <1>3, <1>4, <1>5, <1>6, <1>7, <1>8 DEF Next

\* A cluster that has facts and needs a summary is always owed one by the gate,
\* by a pass or by a rebuild, unless a summary was dropped
\* (pipeline_orchestrator.py): taking the gate while a run is registered makes
\* the pass wait for that very run, and a rebuild, which has no gate, keeps in
\* its own list what it has written.
THEOREM ConsolidationDirtyIsOwed == Spec => []DirtyIsOwed
  <1>1. Spec => []OwedInv
    BY TaskInvariant, InitOwed, OwedStep, PTL DEF Spec
  <1> QED
    BY <1>1, OwedSuffices, PTL

-----------------------------------------------------------------------------
(* No fact is left behind.                                                  *)

Excused == faults > 0 \/ lost \/ \E t \in Tasks : con[t].full

\* The task will write a row of the fact's cluster that has the fact in it.
Brings(t, b) ==
    \/ con[t].pc = "upsert" /\ clusterOf[b] \in con[t].todo /\ b \in con[t].read
       /\ con[t].to[b] = clusterOf[b]
    \/ con[t].pc = "keep" /\ clusterOf[b] \in {con[t].keep, con[t].last}
    \/ con[t].pc = "last" /\ clusterOf[b] = con[t].last

BackedBy(t) ==
    \A b \in Batches : clusterOf[b] # None =>
        b \in cluster[clusterOf[b]].members \/ Brings(t, b)

Backed ==
    \A b \in Batches : clusterOf[b] # None =>
        \/ b \in cluster[clusterOf[b]].members
        \/ \E t \in Tasks : Live(t) /\ Brings(t, b)

Current(t, k) == con[t].view[k].members = cluster[k].members

\* The rows a run has listed and still works with have the members of the rows
\* in the store, and those it is about to replace have all the facts.
ViewKnows(t) ==
    /\ con[t].pc \in {"assign", "upsert", "relink"} =>
           \A k \in con[t].todo : Current(t, k)
    /\ con[t].pc = "assign" => \A b \in con[t].read : con[t].to[b] \in con[t].todo
    /\ con[t].pc = "tidy" => \A k \in Rows(con[t].view) : Current(t, k)
    /\ con[t].pc \in {"move", "keep", "last"} =>
           /\ con[t].keep \in Clusters /\ con[t].last \in Clusters
           /\ \A k \in Rows(con[t].view) \ {con[t].keep, con[t].last} : Current(t, k)
    /\ con[t].pc = "move" => \A b \in Batches :
           IF b \in con[t].read
           THEN con[t].to[b] \in {con[t].keep, con[t].last}
                /\ b \in con[t].view[con[t].to[b]].members
           ELSE clusterOf[b] \in {con[t].keep, con[t].last} =>
                    b \in con[t].view[clusterOf[b]].members
    /\ con[t].pc = "keep" => \A b \in Batches :
           clusterOf[b] \in {con[t].keep, con[t].last} =>
               b \in con[t].view[clusterOf[b]].members
    /\ con[t].pc = "last" =>
           /\ con[t].keep # con[t].last => Current(t, con[t].keep)
           /\ \A b \in Batches : clusterOf[b] = con[t].last =>
                  b \in con[t].view[con[t].last].members

OrphanInv == Excused \/ (Backed /\ \A t \in Tasks : Live(t) => ViewKnows(t))

LEMMA InitOrphan == Init => OrphanInv
  BY NoneTyped DEF Init, OrphanInv, Backed, Live

\* A step either counts a fault or leaves the count alone.
LEMMA FaultsStep ==
    ASSUME [Next]_vars
    PROVE  Fault \/ faults' = faults
  <1>1. ASSUME NEW t \in Tasks, ClusterStep(t) PROVE faults' = faults
    BY <1>1 DEF ClusterStep, ReadFacts, ListClusters, AssignFacts, UpsertTouched,
                ListForLinks, UpsertLinked, boundVars
  <1>2. ASSUME NEW t \in Tasks, HealthStep(t) PROVE faults' = faults
    BY <1>2 DEF HealthStep, ListForHealth, SplitCluster, MergeClusters, MoveFacts,
                UpsertKept, WriteLast, HealthChecked, boundVars
  <1>3. ASSUME NEW t \in Tasks, RebuildStep(t) PROVE faults' = faults
    BY <1>3 DEF RebuildStep, DeleteRow, ResetFacts, FetchTouched, WriteTouched, boundVars
  <1>4. ASSUME NEW t \in Tasks, Begin(t) \/ Done(t) \/ Rebuild(t) PROVE faults' = faults
    BY <1>4 DEF Begin, Done, Rebuild, boundVars
  <1>5. ASSUME NEW t \in Tasks, RunFails(t) \/ RebuildFails(t) PROVE Fault
    BY <1>5 DEF RunFails, RebuildFails
  <1>6. ASSUME NEW b \in Batches,
               Announce(b) \/ Arrive(b) \/ ConsolidateOnly(b) \/ PolicyFails(b)
        PROVE  Fault \/ faults' = faults
    BY <1>6 DEF Announce, Arrive, ConsolidateOnly, PolicyFails, boundVars
  <1>7. ASSUME NEW s \in Settles, Settled(s) \/ SettleStep(s) \/ SummaryFails(s)
        PROVE  Fault \/ faults' = faults
    BY <1>7 DEF Settled, SettleStep, AwaitRun, ListDirty, FetchRows, WriteSummary,
                SummaryFails, boundVars
  <1>8. Trigger \/ UNCHANGED vars => faults' = faults
    BY DEF Trigger, vars, boundVars
  <1> QED
    BY <1>1, <1>2, <1>3, <1>4, <1>5, <1>6, <1>7, <1>8 DEF Next, TaskStep

\* No step takes an excuse back.
LEMMA ExcusedStays ==
    ASSUME TaskInv, [Next]_vars, Excused
    PROVE  Excused'
  <1> USE DEF TaskInv
  <1>1. faults > 0 => faults' > 0
    <2>1. faults' = faults \/ faults' = faults + 1
      BY FaultsStep DEF Fault
    <2> QED
      BY <2>1 DEF TypeOK
  <1>2. lost => lost'
    <2>1. ASSUME NEW t \in Tasks, TaskStep(t) \/ RunFails(t) \/ RebuildFails(t)
          PROVE  lost' = lost
      BY <2>1, TaskFrame
    <2> QED
      BY <2>1 DEF Next, vars, boundVars, Announce, Arrive, ConsolidateOnly, PolicyFails,
             Trigger, Rebuild, SettleStep, Settled, AwaitRun, ListDirty, FetchRows,
             WriteSummary, SummaryFails
  <1>3. ASSUME NEW t \in Tasks, con[t].full PROVE con'[t].full
    <2>0. con[t].pc # "none"
      BY <1>3 DEF Kinds, Kind
    <2>1. CASE Spawn
      BY <1>3, <2>0, <2>1, SpawnWrites
    <2>2. ASSUME NEW q \in Tasks, Rebuild(q) PROVE con'[t].full
      BY <1>3, <2>0, <2>2, RebuildWrites
    <2>3. ASSUME NEW q \in Tasks, TaskStep(q) \/ RunFails(q) \/ RebuildFails(q)
          PROVE  con'[t].full
      BY <1>3, <2>3, TaskRecords
    <2>4. CASE con' = con
      BY <1>3, <2>4
    <2> QED
      BY <2>1, <2>2, <2>3, <2>4
         DEF Next, vars, Announce, Arrive, ConsolidateOnly, PolicyFails, Trigger,
             Settled, SettleStep, AwaitRun, ListDirty, FetchRows, WriteSummary, SummaryFails
  <1> QED
    BY <1>1, <1>2, <1>3 DEF Excused

\* A step that leaves the facts, the members of the rows and the tasks that run
\* alone.
LEMMA OrphanKept ==
    ASSUME TypeOK, OrphanInv, ~Excused, clusterOf' = clusterOf,
           \A k \in Clusters : cluster'[k].members = cluster[k].members,
           \A t \in Tasks : \/ con'[t] = con[t]
                            \/ con[t].pc = "none" /\ con'[t].pc = "policy"
    PROVE  OrphanInv'
  <1>1. /\ \A b \in Batches : clusterOf[b] \in Clusters \cup {None}
        /\ \A t \in Tasks : con[t].todo \subseteq Clusters
    BY DEF TypeOK, ConTask
  <1>2. Backed /\ \A t \in Tasks : Live(t) => ViewKnows(t)
    BY DEF OrphanInv
  <1>3. \A t \in Tasks, b \in Batches : Live(t) /\ Brings(t, b) => (Live(t) /\ Brings(t, b))'
    BY DEF Live, Brings
  <1>4. Backed'
    BY <1>1, <1>2, <1>3 DEF Backed
  <1>5. ASSUME NEW t \in Tasks, Live(t)' PROVE ViewKnows(t)'
    <2>1. CASE con'[t] = con[t]
      <3>1. Live(t) /\ ViewKnows(t)
        BY <1>2, <1>5, <2>1 DEF Live
      <3>2. \A k \in Clusters : Current(t, k) => Current(t, k)'
        BY <2>1 DEF Current
      <3> QED
        BY <1>1, <2>1, <3>1, <3>2 DEF ViewKnows, Rows
    <2>2. CASE con'[t].pc = "policy"
      BY <2>2 DEF ViewKnows
    <2> QED
      BY <2>1, <2>2
  <1> QED
    BY <1>4, <1>5 DEF OrphanInv

\* A run moves facts only to rows that have them or that it is about to write.
LEMMA RunBacked ==
    ASSUME TaskInv, OrphanInv, ~Excused, ~Excused', NEW t \in Tasks, TaskStep(t)
    PROVE  BackedBy(t)' /\ ViewKnows(t)'
  <1> USE DEF Con
  <1>0. /\ con[t] \in ConTask /\ con \in [Tasks -> ConTask]
        /\ cluster \in [Clusters -> Row] /\ ~con[t].full
        /\ con[t].view \in [Clusters -> Row] /\ con[t].todo \subseteq Clusters
        /\ con[t].read \subseteq Batches
        /\ con[t].to \in [Batches -> Clusters \cup {None}]
        /\ clusterOf \in [Batches -> Clusters \cup {None}]
        /\ None \notin Clusters
    BY ConsolidationAssumption DEF TaskInv, TypeOK, ConTask, Excused
  <1>1. Live(t) /\ \A q \in Tasks : Live(q) => q = t
    <2>1. Live(t)
      BY TaskRecords DEF TaskInv
    <2> QED
      BY <2>1 DEF TaskInv, OneTask, Excused
  <1>2. BackedBy(t) /\ ViewKnows(t)
    BY <1>1 DEF OrphanInv, Backed, BackedBy
  <1>3. ASSUME UNCHANGED <<cluster, clusterOf>>, con[t].pc \notin {"upsert", "keep", "last"}
        PROVE  BackedBy(t)'
    BY <1>2, <1>3 DEF BackedBy, Brings
  <1>4. CASE Begin(t) \/ HealthChecked(t) \/ Done(t)
    <2>1. /\ UNCHANGED <<cluster, clusterOf>> /\ con[t].pc \notin {"upsert", "keep", "last"}
          /\ \/ con'[t] = [con[t] EXCEPT !.pc = "read"]
             \/ con'[t] = [NoCon EXCEPT !.pc = "done"]
             \/ con'[t] = [NoCon EXCEPT !.pc = "over"]
      BY <1>0, <1>4 DEF Begin, HealthChecked, Done, factVars
    <2>2. con'[t].pc \in {"read", "done", "over"}
      BY <1>0, <2>1, NoneTyped DEF ConTask
    <2> QED
      BY <1>3, <2>1, <2>2 DEF ViewKnows
  <1>5. CASE ReadFacts(t)
    <2> DEFINE p == IF Unclustered # {} THEN "list" ELSE IF con[t].full THEN "over" ELSE "links"
    <2>1. /\ UNCHANGED <<cluster, clusterOf>> /\ con[t].pc = "read"
          /\ con'[t] = [con[t] EXCEPT !.read = Unclustered, !.pc = p]
      BY <1>0, <1>5 DEF ReadFacts, factVars
    <2>2. p \in {"list", "over", "links"}
      OBVIOUS
    <2> HIDE DEF p
    <2>3. con'[t].pc = p
      BY <1>0, <2>1 DEF ConTask
    <2> QED
      BY <1>3, <2>1, <2>2, <2>3 DEF ViewKnows
  <1>6. CASE ListClusters(t)
    <2>1. UNCHANGED <<cluster, clusterOf>> /\ con[t].pc = "list"
      BY <1>6 DEF ListClusters, factVars
    <2>2. PICK to \in [con[t].read -> {k \in Clusters : cluster[k] # NoRow \/ New(k)}] :
              Con(t, "list",
               LET touched == {to[b] : b \in con[t].read}
               IN  [con[t] EXCEPT !.pc = "assign", !.view = Listed(touched),
                                  !.to = [b \in Batches |-> IF b \in con[t].read
                                                            THEN to[b] ELSE None],
                                  !.todo = touched])
      BY <1>6 DEF ListClusters
    <2> DEFINE f == [b \in Batches |-> IF b \in con[t].read THEN to[b] ELSE None]
               d == {to[b] : b \in con[t].read}
               new == [con[t] EXCEPT !.pc = "assign", !.view = Listed(d), !.to = f,
                                     !.todo = d]
    <2>3. con'[t] = new
      BY <1>0, <2>2
    <2>4. \A b \in con[t].read : f[b] \in d
      BY <1>0
    <2>5. d \subseteq Clusters /\ \A k \in d : Listed(d)[k] = cluster[k]
      BY DEF Listed
    <2> HIDE DEF f, d
    <2>6. /\ con'[t].pc = "assign" /\ con'[t].view = Listed(d) /\ con'[t].to = f
          /\ con'[t].todo = d /\ con'[t].read = con[t].read
      BY <1>0, <2>3 DEF ConTask
    <2>7. ViewKnows(t)'
      BY <2>1, <2>4, <2>5, <2>6 DEF ViewKnows, Current
    <2> QED
      BY <1>3, <2>1, <2>7
  <1>7. CASE AssignFacts(t)
    <2>1. /\ con[t].pc = "assign" /\ cluster' = cluster
          /\ con'[t] = [con[t] EXCEPT !.pc = "upsert"]
          /\ clusterOf' = [b \in Batches |-> IF b \in con[t].read THEN con[t].to[b]
                                             ELSE clusterOf[b]]
      BY <1>0, <1>7 DEF AssignFacts, Move
    <2>2. /\ con'[t].pc = "upsert" /\ con'[t].view = con[t].view /\ con'[t].to = con[t].to
          /\ con'[t].todo = con[t].todo /\ con'[t].read = con[t].read
      BY <1>0, <2>1 DEF ConTask
    <2>3. ViewKnows(t)'
      BY <1>2, <2>1, <2>2 DEF ViewKnows, Current
    <2>4. BackedBy(t)'
      BY <1>2, <2>1, <2>2 DEF ViewKnows, BackedBy, Brings
    <2> QED
      BY <2>3, <2>4
  <1>8. CASE UpsertTouched(t)
    <2>1. PICK k \in con[t].todo :
              /\ con[t].pc = "upsert"
              /\ con' = [con EXCEPT ![t] =
                   IF con[t].todo \ {k} # {}
                   THEN [con[t] EXCEPT !.todo = con[t].todo \ {k}, !.view[k] = NoRow]
                   ELSE [NoCon EXCEPT !.pc = "links"]]
              /\ cluster' = [cluster EXCEPT ![k] =
                   [con[t].view[k] EXCEPT !.members = @ \cup
                        {b \in con[t].read : con[t].to[b] = k}, !.dirty = TRUE]]
              /\ clusterOf' = clusterOf
      BY <1>0, <1>8 DEF UpsertTouched
    <2> DEFINE brought == {b \in con[t].read : con[t].to[b] = k}
               old == con[t].view[k]
               row == [old EXCEPT !.members = old.members \cup brought, !.dirty = TRUE]
               x == [con[t] EXCEPT !.todo = con[t].todo \ {k}, !.view[k] = NoRow]
               y == [NoCon EXCEPT !.pc = "links"]
    <2>2. cluster' = [cluster EXCEPT ![k] = row]
      BY <2>1
    <2>3. row.members = cluster[k].members \cup brought
      <3>1. old \in Row /\ old.members = cluster[k].members
        BY <1>0, <1>2, <2>1 DEF ViewKnows, Current
      <3> HIDE DEF old, brought
      <3> QED
        BY <3>1 DEF Row, row
    <2>4. con'[t] = IF con[t].todo \ {k} # {} THEN x ELSE y
      BY <1>0, <2>1
    <2>5. /\ x.pc = "upsert" /\ x.todo = con[t].todo \ {k} /\ x.read = con[t].read
          /\ x.to = con[t].to /\ \A j \in Clusters \ {k} : x.view[j] = con[t].view[j]
      BY <1>0, <2>1 DEF ConTask
    <2>6. y.pc = "links"
      BY NoneTyped DEF ConTask
    <2> HIDE DEF row, x, y
    <2>7. /\ cluster'[k].members = cluster[k].members \cup brought
          /\ \A j \in Clusters \ {k} : cluster'[j] = cluster[j]
      BY <1>0, <2>2, <2>3
    <2>8. BackedBy(t)'
      <3> SUFFICES ASSUME NEW b \in Batches, clusterOf[b] # None
                   PROVE  b \in cluster'[clusterOf[b]].members \/ Brings(t, b)'
        BY <2>1 DEF BackedBy
      <3>1. clusterOf[b] \in Clusters
        BY <1>0
      <3>2. CASE b \in cluster[clusterOf[b]].members
        BY <2>7, <3>1, <3>2
      <3>3. CASE Brings(t, b)
        <4>1. clusterOf[b] \in con[t].todo /\ b \in con[t].read /\ con[t].to[b] = clusterOf[b]
          BY <2>1, <3>3 DEF Brings
        <4>2. CASE clusterOf[b] = k
          BY <2>7, <4>1, <4>2
        <4>3. CASE clusterOf[b] # k
          BY <2>1, <2>4, <2>5, <4>1, <4>3 DEF Brings
        <4> QED
          BY <4>2, <4>3
      <3> QED
        BY <1>2, <3>2, <3>3 DEF BackedBy
    <2>9. ViewKnows(t)'
      <3>1. CASE con[t].todo \ {k} = {}
        BY <2>4, <2>6, <3>1 DEF ViewKnows
      <3>2. CASE con[t].todo \ {k} # {}
        BY <1>0, <1>2, <2>1, <2>4, <2>5, <2>7, <3>2 DEF ViewKnows, Current
      <3> QED
        BY <3>1, <3>2
    <2> QED
      BY <2>8, <2>9
  <1>9. CASE ListForLinks(t)
    <2>1. UNCHANGED <<cluster, clusterOf>> /\ con[t].pc = "links"
      BY <1>9 DEF ListForLinks, factVars
    <2>2. PICK changed \in SUBSET Rows(cluster) :
              Con(t, "links",
               IF changed = {} THEN AfterLinks(t)
               ELSE [con[t] EXCEPT !.pc = "relink", !.todo = changed,
                                   !.view = Listed(changed)])
      BY <1>9 DEF ListForLinks
    <2> DEFINE x == [con[t] EXCEPT !.pc = "relink", !.todo = changed,
                                   !.view = Listed(changed)]
    <2>3. con'[t] = IF changed = {} THEN AfterLinks(t) ELSE x
      BY <1>0, <2>2
    <2>4. AfterLinks(t).pc = "health"
      BY <1>0, NoneTyped DEF AfterLinks, ConTask
    <2>5. x.pc = "relink" /\ x.todo = changed /\ x.view = Listed(changed)
      BY <1>0 DEF ConTask
    <2>6. \A k \in changed : Listed(changed)[k] = cluster[k]
      BY DEF Listed, Rows
    <2> HIDE DEF x
    <2>7. ViewKnows(t)'
      BY <2>1, <2>3, <2>4, <2>5, <2>6 DEF ViewKnows, Current
    <2> QED
      BY <1>3, <2>1, <2>7
  <1>10. CASE UpsertLinked(t)
    <2>1. PICK k \in con[t].todo :
              /\ Con(t, "relink", IF con[t].todo \ {k} = {} THEN AfterLinks(t)
                     ELSE [con[t] EXCEPT !.todo = con[t].todo \ {k}, !.view[k] = NoRow])
              /\ cluster' = [cluster EXCEPT ![k] = con[t].view[k]]
              /\ clusterOf' = clusterOf
      BY <1>10 DEF UpsertLinked
    <2> DEFINE x == [con[t] EXCEPT !.todo = con[t].todo \ {k}, !.view[k] = NoRow]
    <2>2. con[t].pc = "relink"
          /\ con'[t] = IF con[t].todo \ {k} = {} THEN AfterLinks(t) ELSE x
      BY <1>0, <2>1
    <2>3. AfterLinks(t).pc = "health"
      BY <1>0, NoneTyped DEF AfterLinks, ConTask
    <2>4. /\ x.pc = "relink" /\ x.todo = con[t].todo \ {k}
          /\ \A j \in Clusters \ {k} : x.view[j] = con[t].view[j]
      BY <1>0, <2>2 DEF ConTask
    <2> HIDE DEF x
    <2>5. \A j \in Clusters : cluster'[j].members = cluster[j].members
      BY <1>0, <1>2, <2>1, <2>2 DEF ViewKnows, Current
    <2>6. BackedBy(t)'
      BY <1>0, <1>2, <2>1, <2>2, <2>5 DEF BackedBy, Brings
    <2>7. ViewKnows(t)'
      BY <1>0, <1>2, <2>2, <2>3, <2>4, <2>5 DEF ViewKnows, Current
    <2> QED
      BY <2>6, <2>7
  <1>11. CASE ListForHealth(t)
    <2>1. /\ UNCHANGED <<cluster, clusterOf>> /\ con[t].pc = "health"
          /\ con'[t] = [con[t] EXCEPT !.pc = "tidy", !.view = cluster, !.todo = Rows(cluster)]
      BY <1>0, <1>11 DEF ListForHealth, factVars
    <2>2. con'[t].pc = "tidy" /\ con'[t].view = cluster
      BY <1>0, <2>1 DEF ConTask
    <2> QED
      BY <1>3, <2>1, <2>2 DEF ViewKnows, Current
  <1>12. ASSUME NEW facts \in SUBSET Batches, NEW j \in Clusters, NEW k \in Clusters,
                NEW l \in Clusters, NEW v \in [Clusters -> Row], NEW d \in SUBSET Clusters,
                Regroup(t, facts, j, k, l, v, d), UNCHANGED <<cluster, clusterOf>>,
                j \in {k, l}, facts \subseteq v[j].members,
                \A i \in Clusters \ {k, l} : v[i] = con[t].view[i],
                \A b \in Batches \ facts :
                    clusterOf[b] \in {k, l} => b \in v[clusterOf[b]].members
         PROVE  BackedBy(t)' /\ ViewKnows(t)'
    <2> DEFINE f == [b \in Batches |-> IF b \in facts THEN j ELSE None]
    <2>1. con[t].pc = "tidy" /\ con'[t] = [con[t] EXCEPT !.pc = "move", !.read = facts,
                       !.to = f, !.keep = k, !.last = l, !.view = v, !.todo = d]
      BY <1>0, <1>12 DEF Regroup
    <2>2. \A b \in facts : f[b] = j
      OBVIOUS
    <2> HIDE DEF f
    <2>3. /\ con'[t].pc = "move" /\ con'[t].read = facts /\ con'[t].to = f
          /\ con'[t].keep = k /\ con'[t].last = l /\ con'[t].view = v
      BY <1>0, <2>1 DEF ConTask
    <2>4. \A i \in Rows(v) \ {k, l} : v[i].members = cluster[i].members
      BY <1>2, <1>12, <2>1 DEF ViewKnows, Current, Rows
    <2>5. ViewKnows(t)'
      BY <1>12, <2>2, <2>3, <2>4 DEF ViewKnows, Current
    <2> QED
      BY <1>3, <1>12, <2>1, <2>5
  <1>13. CASE SplitCluster(t)
    <2>1. PICK k \in con[t].todo, new \in {n \in Clusters : New(n)} :
           \E half \in SUBSET FactsOf(k) \ {{}, FactsOf(k)} :
              Regroup(t, half, new, k, new,
               [con[t].view EXCEPT
                    ![k]   = [@ EXCEPT !.members = FactsOf(k) \ half, !.dirty = TRUE],
                    ![new] = [members |-> half, dirty |-> TRUE, summary |-> FALSE]],
               con[t].todo \ {k})
      BY <1>13 DEF SplitCluster
    <2>2. PICK half \in SUBSET FactsOf(k) \ {{}, FactsOf(k)} :
              Regroup(t, half, new, k, new,
               [con[t].view EXCEPT
                    ![k]   = [@ EXCEPT !.members = FactsOf(k) \ half, !.dirty = TRUE],
                    ![new] = [members |-> half, dirty |-> TRUE, summary |-> FALSE]],
               con[t].todo \ {k})
      BY <2>1
    <2> DEFINE old == con[t].view[k]
               a == [old EXCEPT !.members = FactsOf(k) \ half, !.dirty = TRUE]
               b == [members |-> half, dirty |-> TRUE, summary |-> FALSE]
               v == [con[t].view EXCEPT ![k] = a, ![new] = b]
    <2>3. FactsOf(k) \in SUBSET Batches /\ half \in SUBSET Batches
      BY DEF FactsOf
    <2>4. k # new /\ FactsOf(new) = {}
      BY DEF New
    <2>5. a \in Row /\ a.members = FactsOf(k) \ half
      <3>1. old \in Row
        BY <1>0
      <3> HIDE DEF old
      <3> QED
        BY <2>3, <3>1 DEF Row
    <2>6. b \in Row /\ b.members = half
      BY <2>3 DEF Row
    <2>7. Regroup(t, half, new, k, new, v, con[t].todo \ {k})
      BY <2>2
    <2> HIDE DEF a, b
    <2>8. /\ v \in [Clusters -> Row] /\ v[k] = a /\ v[new] = b
          /\ \A i \in Clusters \ {k, new} : v[i] = con[t].view[i]
      BY <1>0, <2>4, <2>5, <2>6
    <2> HIDE DEF v
    <2>9. \A c \in Batches \ half :
              clusterOf[c] \in {k, new} => c \in v[clusterOf[c]].members
      BY <2>4, <2>5, <2>8 DEF FactsOf
    <2>10. UNCHANGED <<cluster, clusterOf>>
      BY <1>13 DEF SplitCluster, factVars
    <2> QED
      BY <1>0, <1>12, <2>3, <2>6, <2>7, <2>8, <2>9, <2>10
  <1>14. CASE MergeClusters(t)
    <2>1. PICK a, b \in Rows(con[t].view) :
           LET both == con[t].view[a].members \cup con[t].view[b].members
           IN  a # b /\ Regroup(t, con[t].view[b].members, a, a, b,
                   [con[t].view EXCEPT ![a] = [@ EXCEPT !.members = both, !.dirty = TRUE],
                                       ![b] = NoRow],
                   {})
      BY <1>14 DEF MergeClusters
    <2> DEFINE old == con[t].view[a]
               gone == con[t].view[b].members
               x == [old EXCEPT !.members = old.members \cup gone, !.dirty = TRUE]
               v == [con[t].view EXCEPT ![a] = x, ![b] = NoRow]
    <2>2. a \in Clusters /\ b \in Clusters /\ old \in Row /\ gone \in SUBSET Batches
      BY <1>0 DEF Rows, Row
    <2>3. x \in Row /\ x.members = old.members \cup gone
      <3> HIDE DEF old, gone
      <3> QED
        BY <2>2 DEF Row
    <2>4. Regroup(t, gone, a, a, b, v, {}) /\ a # b
      BY <2>1
    <2>5. con[t].pc = "tidy" /\ UNCHANGED <<cluster, clusterOf>>
      BY <1>14, <2>1 DEF MergeClusters, Regroup, factVars
    <2>6. old.members = cluster[a].members /\ gone = cluster[b].members
      BY <1>2, <2>1, <2>5 DEF ViewKnows, Current
    <2> HIDE DEF x, old, gone
    <2>7. /\ v \in [Clusters -> Row] /\ v[a] = x
          /\ \A i \in Clusters \ {a, b} : v[i] = con[t].view[i]
      BY <1>0, <2>2, <2>3, <2>4, NoneTyped
    <2> HIDE DEF v
    <2>8. \A c \in Batches : clusterOf[c] # None => c \in cluster[clusterOf[c]].members
      BY <1>2, <2>5 DEF BackedBy, Brings
    <2>9. \A c \in Batches \ gone :
              clusterOf[c] \in {a, b} => c \in v[clusterOf[c]].members
      BY <1>0, <2>2, <2>3, <2>6, <2>7, <2>8
    <2> QED
      BY <1>12, <2>2, <2>3, <2>4, <2>5, <2>7, <2>9
  <1>15. CASE MoveFacts(t)
    <2>1. /\ con[t].pc = "move" /\ cluster' = cluster
          /\ con'[t] = [con[t] EXCEPT !.pc = "keep"]
          /\ clusterOf' = [b \in Batches |-> IF b \in con[t].read THEN con[t].to[b]
                                             ELSE clusterOf[b]]
      BY <1>0, <1>15 DEF MoveFacts, Move
    <2>2. /\ con'[t].pc = "keep" /\ con'[t].view = con[t].view
          /\ con'[t].keep = con[t].keep /\ con'[t].last = con[t].last
      BY <1>0, <2>1 DEF ConTask
    <2>3. ViewKnows(t)'
      BY <1>2, <2>1, <2>2 DEF ViewKnows, Current, Rows
    <2>4. BackedBy(t)'
      BY <1>2, <2>1, <2>2 DEF ViewKnows, BackedBy, Brings
    <2> QED
      BY <2>3, <2>4
  <1>16. CASE UpsertKept(t)
    <2>1. /\ con[t].pc = "keep" /\ clusterOf' = clusterOf
          /\ con'[t] = [con[t] EXCEPT !.pc = "last"]
          /\ cluster' = [cluster EXCEPT ![con[t].keep] = con[t].view[con[t].keep]]
      BY <1>0, <1>16 DEF UpsertKept
    <2>2. /\ con'[t].pc = "last" /\ con'[t].view = con[t].view
          /\ con'[t].keep = con[t].keep /\ con'[t].last = con[t].last
      BY <1>0, <2>1 DEF ConTask
    <2>3. /\ con[t].keep \in Clusters
          /\ cluster'[con[t].keep] = con[t].view[con[t].keep]
          /\ \A k \in Clusters \ {con[t].keep} : cluster'[k] = cluster[k]
      BY <1>0, <1>2, <2>1 DEF ViewKnows
    <2>4. ViewKnows(t)'
      BY <1>2, <2>1, <2>2, <2>3 DEF ViewKnows, Current, Rows
    <2>5. BackedBy(t)'
      BY <1>0, <1>2, <2>1, <2>2, <2>3 DEF ViewKnows, BackedBy, Brings
    <2> QED
      BY <2>4, <2>5
  <1>17. CASE WriteLast(t)
    <2>1. /\ con[t].pc = "last" /\ clusterOf' = clusterOf /\ con'[t] = NextOne(t)
          /\ cluster' = [cluster EXCEPT ![con[t].last] = con[t].view[con[t].last]]
      BY <1>0, <1>17 DEF WriteLast
    <2>2. /\ con'[t].pc = "tidy"
          /\ con'[t].view = [con[t].view EXCEPT ![con[t].last] = NoRow]
      BY <2>1, NoneTyped DEF NextOne, ConTask
    <2>3. /\ con[t].last \in Clusters
          /\ cluster'[con[t].last] = con[t].view[con[t].last]
          /\ \A k \in Clusters \ {con[t].last} : cluster'[k] = cluster[k]
      BY <1>0, <1>2, <2>1 DEF ViewKnows
    <2>4. \A k \in Rows(con'[t].view) : k # con[t].last /\ con'[t].view[k] = con[t].view[k]
                                        /\ k \in Rows(con[t].view)
      BY <1>0, <2>2, <2>3 DEF Rows
    <2>5. ViewKnows(t)'
      BY <1>2, <2>1, <2>2, <2>3, <2>4 DEF ViewKnows, Current, Rows
    <2>6. BackedBy(t)'
      BY <1>0, <1>2, <2>1, <2>2, <2>3 DEF ViewKnows, BackedBy, Brings
    <2> QED
      BY <2>5, <2>6
  <1>18. ~RebuildStep(t)
    <2>1. con[t].pc \notin {"wipe", "fetch", "write"}
      BY <1>0 DEF TaskInv, Kinds, Kind
    <2> QED
      BY <2>1 DEF RebuildStep, DeleteRow, ResetFacts, FetchTouched, WriteTouched, RestOf
  <1> QED
    BY <1>4, <1>5, <1>6, <1>7, <1>8, <1>9, <1>10, <1>11, <1>13, <1>14, <1>15, <1>16,
       <1>17, <1>18 DEF TaskStep, ClusterStep, HealthStep

LEMMA OrphanStep ==
    ASSUME TaskInv, OrphanInv, [Next]_vars
    PROVE  OrphanInv'
  <1>1. SUFFICES ASSUME ~Excused, ~Excused' PROVE OrphanInv'
    BY ExcusedStays DEF OrphanInv
  <1> USE DEF TaskInv
  <1>2. faults' = faults /\ faults = 0 /\ ~Fault
    <2>1. ~(faults' > 0) /\ ~(faults > 0)
      BY <1>1 DEF Excused
    <2>2. faults = 0 /\ ~Fault
      BY <2>1 DEF TypeOK, Fault
    <2> QED
      BY <2>2, FaultsStep
  <1>3. CASE UNCHANGED <<cluster, clusterOf, con>>
    BY <1>1, <1>3, OrphanKept
  <1>4. CASE Spawn /\ UNCHANGED <<cluster, clusterOf>>
    BY <1>1, <1>4, SpawnWrites, OrphanKept
  <1>5. ASSUME NEW b \in Batches,
               Announce(b) \/ Arrive(b) \/ ConsolidateOnly(b) \/ PolicyFails(b)
        PROVE  OrphanInv'
    BY <1>2, <1>3, <1>4, <1>5 DEF Announce, Arrive, ConsolidateOnly, PolicyFails, factVars
  <1>6. CASE Trigger
    BY <1>4, <1>6 DEF Trigger, factVars
  <1>7. ASSUME NEW t \in Tasks, Rebuild(t) \/ RunFails(t) \/ RebuildFails(t)
        PROVE  OrphanInv'
    BY <1>1, <1>2, <1>7, RebuildWrites DEF Excused, RunFails, RebuildFails
  <1>8. ASSUME NEW t \in Tasks, TaskStep(t) PROVE OrphanInv'
    <2>1. BackedBy(t)' /\ ViewKnows(t)'
      BY <1>1, <1>8, RunBacked
    <2>2. Live(t) /\ \A q \in Tasks \ {t} : con'[q] = con[q]
      BY <1>8, TaskRecords
    <2>3. \A q \in Tasks \ {t} : ~Live(q)'
      BY <1>1, <2>2 DEF OneTask, Excused, Live
    <2>4. \A b \in Batches : Brings(t, b)' => Live(t)'
      BY DEF Brings, Live
    <2> QED
      BY <2>1, <2>3, <2>4 DEF OrphanInv, Backed, BackedBy
  <1>9. ASSUME NEW s \in Settles, Settled(s) \/ SettleStep(s) \/ SummaryFails(s)
        PROVE  OrphanInv'
    <2>1. UNCHANGED <<clusterOf, con>> /\ settle[s].view \in [Clusters -> Row]
          /\ settle[s].todo \subseteq Clusters /\ cluster \in [Clusters -> Row]
      BY <1>9, SettleFrame DEF TypeOK, SettleTask
    <2>2. CASE WriteSummary(s)
      <3>1. PICK k \in settle[s].todo :
                /\ cluster' = [cluster EXCEPT ![k] = Summarised(settle[s].view[k], TRUE)]
                /\ lost' = (lost \/ cluster[k].members # settle[s].view[k].members)
        BY <2>2 DEF WriteSummary
      <3>2. cluster[k].members = settle[s].view[k].members
        BY <1>1, <3>1 DEF Excused
      <3>3. Summarised(settle[s].view[k], TRUE).members = settle[s].view[k].members
        BY <2>1, SummarisedTyped
      <3>4. \A j \in Clusters : cluster'[j].members = cluster[j].members
        BY <2>1, <3>1, <3>2, <3>3
      <3> QED
        BY <1>1, <2>1, <3>4, OrphanKept
    <2>3. CASE ~WriteSummary(s)
      <3>1. cluster' = cluster
        BY <1>2, <1>9, <2>3 DEF Settled, SettleStep, AwaitRun, ListDirty, FetchRows,
                                SummaryFails, factVars
      <3> QED
        BY <1>3, <2>1, <3>1
    <2> QED
      BY <2>2, <2>3
  <1>10. CASE UNCHANGED vars
    BY <1>3, <1>10 DEF vars, factVars
  <1> QED
    BY <1>5, <1>6, <1>7, <1>8, <1>9, <1>10 DEF Next

LEMMA OrphanSuffices ==
    ASSUME TypeOK, OrphanInv
    PROVE  NoOrphans
  <1>1. CASE Excused
    BY <1>1 DEF Excused, NoOrphans
  <1>2. ASSUME ~Excused, NEW b \in Batches, clusterOf[b] # None
        PROVE  \/ cluster[clusterOf[b]] # NoRow
               \/ \E t \in Tasks : Writes(t, clusterOf[b])
    BY <1>2, NoneTyped DEF OrphanInv, Backed, Brings, Writes
  <1> QED
    BY <1>1, <1>2 DEF NoOrphans

\* A clustered fact has a row, or the task that moved it is about to write it
\* (consolidation.py): with the registry there is one run, its list of rows is
\* true while it works, and it names every fact it moves in a row it writes.  A
\* failed call, a rebuild, or a summary that took members out of a row are the
\* only excuses.
THEOREM ConsolidationNoOrphans == Spec => []NoOrphans
  <1>1. Spec => []OrphanInv
    BY TaskInvariant, InitOrphan, OrphanStep, PTL DEF Spec
  <1>2. TaskInv /\ OrphanInv => NoOrphans
    BY OrphanSuffices DEF TaskInv
  <1> QED
    BY <1>1, <1>2, TaskInvariant, PTL
=============================================================================

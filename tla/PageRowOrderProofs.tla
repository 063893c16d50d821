-------------------------- MODULE PageRowOrderProofs --------------------------
(***************************************************************************)
(* Theorems about PageRowOrder, for any rows, processes, batches and keys. *)
(* RowOrderInv is inductive as it stands: a process past the import knows  *)
(* of a view that is ready, the revision it read never runs ahead, and the *)
(* keys it holds are for rows with an edge, or for the row it creates.     *)
(* Where rows land needs more, OrderInd: while the revision of the view is *)
(* the one a process read, its keys still lie where it meant them to, and  *)
(* an import has put every row before its offset where the array says.     *)
(***************************************************************************)
EXTENDS PageRowOrder, FiniteSetTheorems, WellFoundedInduction, TLAPS

\* The steps, by name.
LEMMA Steps ==
  ASSUME [Next]_vars
  PROVE  \/ UNCHANGED vars
         \/ \E r \in Rows : DeleteOrRestore(r)
         \/ PatchLegacyOrder
         \/ \E p \in Processes :
              \/ StartBackfill(p) \/ \E r \in Rows : StartCreate(p, r)
              \/ \E m \in Moves : StartMove(p, m)
              \/ ReadView(p) \/ ReadBatch(p) \/ WriteBatch(p) \/ MarkReady(p) \/ ImportAgain(p)
              \/ ReadMissing(p) \/ ReadTail(p) \/ Repair(p)
              \/ ReadEnd(p) \/ Create(p) \/ ReadRow(p) \/ ReadGap(p) \/ Move(p)
              \/ ReadRanks(p) \/ Compact(p) \/ Abandon(p)
  BY DEF Next, Starting, Ensuring, Ordering

\* The initial view and its processes.
LEMMA Initially == Init => RowOrderInv
<1> SUFFICES ASSUME Init PROVE RowOrderInv
  OBVIOUS
<1>1. DOMAIN rank \subseteq edges
  <2>1. PICK S \in SUBSET edges :
          rank = IF ready THEN [r \in S |-> Gap * Cardinality({s \in S : s < r})] ELSE Empty
    BY DEF Init
  <2> QED BY <2>1 DEF Empty
<1>2. ViewOK
  BY <1>1 DEF Init, ViewOK
<1>3. NoJob \in Job
  BY DEF NoJob, Job, Kinds, Sides, None
<1>4. LocalsOK
  BY <1>3 DEF Init, LocalsOK, Stages
<1>5. \A p \in Processes : pc[p] = "idle"
  BY DEF Init
<1>6. \A p \in Processes : PlanOK(p)
  BY <1>5 DEF PlanOK, Repairing, Ensured
<1> QED BY <1>2, <1>4, <1>6 DEF RowOrderInv

-----------------------------------------------------------------------------
(* The other processes.                                                     *)

\* A step of p leaves the plans of the others sound if the view stays ready,
\* its revision does not go back, and no edge is lost.
LEMMA OthersKept ==
  ASSUME NEW p \in Processes, NEW q \in Processes, PlanOK(q),
         ready => ready' /\ revision <= revision', edges \subseteq edges',
         revision \in Nat, revision' \in Nat, seen[q] \in Nat,
         pc'[q] = pc[q], seen'[q] = seen[q], plan'[q] = plan[q], job'[q] = job[q]
  PROVE  PlanOK(q)'
  BY DEF PlanOK

\* An operation that ends leaves its process idle and the rest alone.
LEMMA Left ==
  ASSUME LocalsOK, NEW p \in Processes, Leave(p)
  PROVE  /\ LocalsOK'
         /\ pc'[p] = "idle"
         /\ \A q \in Processes \ {p} :
              /\ pc'[q] = pc[q] /\ seen'[q] = seen[q]
              /\ plan'[q] = plan[q] /\ job'[q] = job[q]
  <1>1. NoJob \in Job
    BY DEF NoJob, Job, Kinds, Sides, None
  <1>2. LocalsOK'
    BY <1>1 DEF LocalsOK, Leave, Goto, Stages
  <1> QED BY <1>2 DEF LocalsOK, Leave, Goto

\* What a step of p must do for the invariant to stand.
Sound(p) ==
  /\ ViewOK' /\ LocalsOK' /\ PlanOK(p)'
  /\ ready => ready' /\ revision <= revision'
  /\ edges \subseteq edges'
  /\ \A q \in Processes \ {p} : /\ pc'[q] = pc[q] /\ seen'[q] = seen[q]
                                /\ plan'[q] = plan[q] /\ job'[q] = job[q]

LEMMA SoundIsEnough ==
  ASSUME RowOrderInv, NEW p \in Processes, Sound(p)
  PROVE  RowOrderInv'
  <1>1. ASSUME NEW q \in Processes \ {p} PROVE PlanOK(q)'
    <2>1. revision \in Nat /\ revision' \in Nat /\ seen[q] \in Nat
      BY DEF RowOrderInv, Sound, ViewOK, LocalsOK
    <2>2. PlanOK(q)
      BY DEF RowOrderInv
    <2> QED BY <2>1, <2>2, OthersKept DEF Sound
  <1> QED BY <1>1 DEF RowOrderInv, Sound

-----------------------------------------------------------------------------
(* The import.                                                              *)

LEMMA StartSound ==
  ASSUME RowOrderInv, NEW p \in Processes, NEW j \in Job, Start(p, j)
  PROVE  Sound(p)
  <1>1. ViewOK'
    BY DEF RowOrderInv, ViewOK, Start, page, order
  <1>2. LocalsOK'
    BY DEF RowOrderInv, LocalsOK, Start, Goto, Stages
  <1>3. PlanOK(p)'
    <2>1. pc'[p] = "view"
      BY DEF RowOrderInv, LocalsOK, Start, Goto
    <2> QED BY <2>1 DEF PlanOK, Repairing, Ensured
  <1> QED
    BY <1>1, <1>2, <1>3 DEF Sound, RowOrderInv, ViewOK, LocalsOK, Start, Goto, page, order

\* Every request that starts an operation is one.
LEMMA Jobs ==
  /\ NoJob \in Job
  /\ \A r \in Rows : [NoJob EXCEPT !.kind = "create", !.row = r] \in Job
  /\ revision \in Nat =>
       \A m \in Moves : [kind |-> "move", row |-> m.row, side |-> m.side, anchor |-> m.anchor,
                         expected |-> revision] \in Job
  BY PageRowOrderAssumption DEF NoJob, Job, Kinds, Sides, None, MoveRequest

LEMMA StartsSound ==
  ASSUME RowOrderInv, NEW p \in Processes,
         \/ StartBackfill(p)
         \/ \E r \in Rows : StartCreate(p, r)
         \/ \E m \in Moves : StartMove(p, m)
  PROVE  Sound(p)
  <1>1. revision \in Nat
    BY DEF RowOrderInv, ViewOK
  <1>2. CASE StartBackfill(p)
    BY <1>2, StartSound, Jobs DEF StartBackfill
  <1>3. ASSUME NEW r \in Rows, StartCreate(p, r) PROVE Sound(p)
    BY <1>3, StartSound, Jobs DEF StartCreate
  <1>4. ASSUME NEW m \in Moves, StartMove(p, m) PROVE Sound(p)
    <2> DEFINE j == [kind |-> "move", row |-> m.row, side |-> m.side, anchor |-> m.anchor,
                     expected |-> revision]
    <2>1. j \in Job
      BY <1>1, Jobs
    <2>2. Start(p, j)
      BY <1>4 DEF StartMove
    <2> QED BY <2>1, <2>2, StartSound
  <1> QED BY <1>2, <1>3, <1>4

LEMMA ReadViewSound ==
  ASSUME RowOrderInv, NEW p \in Processes, ReadView(p)
  PROVE  Sound(p)
  <1>1. ViewOK'
    BY DEF RowOrderInv, ViewOK, ReadView, page, order
  <1>2. LocalsOK'
    <2>1. CASE ready
      BY <2>1 DEF RowOrderInv, ViewOK, LocalsOK, ReadView, Goto, Stages, Repairing
    <2>2. CASE ~ready
      <3>1. old' \in [Processes -> LegacyOrders \cup {<<>>}]
        BY <2>2 DEF RowOrderInv, ViewOK, LocalsOK, ReadView
      <3>2. pc' \in [Processes -> Stages]
        BY <2>2 DEF RowOrderInv, LocalsOK, ReadView, Goto, Stages, Importing
      <3>3. done' \in [Processes -> Nat]
        BY <2>2 DEF RowOrderInv, LocalsOK, ReadView
      <3> QED BY <2>2, <3>1, <3>2, <3>3 DEF RowOrderInv, LocalsOK, ReadView
    <2> QED BY <2>1, <2>2
  <1>3. PlanOK(p)'
    <2>1. CASE ready
      <3>1. pc'[p] = "repair" /\ seen'[p] = revision /\ ready' /\ revision' = revision
        BY <2>1 DEF RowOrderInv, LocalsOK, ReadView, Goto, order
      <3> QED BY <3>1 DEF PlanOK, RowOrderInv, ViewOK
    <2>2. CASE ~ready
      <3>1. pc'[p] = "import"
        BY <2>2 DEF RowOrderInv, LocalsOK, ReadView, Goto
      <3> QED BY <3>1 DEF PlanOK, Repairing, Ensured
    <2> QED BY <2>1, <2>2
  <1> QED
    BY <1>1, <1>2, <1>3
    DEF Sound, RowOrderInv, ViewOK, LocalsOK, ReadView, Goto, page, order

\* A step of an import that leaves the view alone, with a plan for its rows.
LEMMA ReadBatchSound ==
  ASSUME RowOrderInv, NEW p \in Processes, ReadBatch(p)
  PROVE  Sound(p)
  <1> DEFINE rest == {r \in edges : Place(old[p], r) >= done[p]}
             rows == {s \in rest : Place(old[p], s) < done[p] + Batch}
             keys == [r \in rows |-> Gap * Place(old[p], r)]
  <1>1. pc' = [pc EXCEPT ![p] = IF rest = {} THEN "mark" ELSE "write"]
    BY DEF ReadBatch, Goto
  <1>2. plan' = [plan EXCEPT ![p] = keys] /\ DOMAIN keys \subseteq edges
    BY DEF ReadBatch
  <1>3. UNCHANGED <<page, order, job, old, done, tries, seen, crossed>>
    BY DEF ReadBatch
  <1> HIDE DEF keys, rest
  <1>4. ViewOK'
    BY <1>3 DEF RowOrderInv, ViewOK, page, order
  <1>5. LocalsOK'
    BY <1>1, <1>2, <1>3 DEF RowOrderInv, LocalsOK, Stages, Importing
  <1>6. PlanOK(p)'
    <2>1. pc'[p] \in {"mark", "write"} /\ plan'[p] = keys /\ edges' = edges
      BY <1>1, <1>2, <1>3 DEF RowOrderInv, LocalsOK, page
    <2> QED BY <1>2, <2>1 DEF PlanOK, Repairing, Ensured
  <1> QED
    BY <1>1, <1>2, <1>3, <1>4, <1>5, <1>6
    DEF Sound, RowOrderInv, ViewOK, LocalsOK, page, order

\* Keys for rows with edges stay keys for rows with edges.
LEMMA PutRows ==
  ASSUME NEW f, NEW g
  PROVE  DOMAIN Put(f, g) = DOMAIN f \cup DOMAIN g
  BY DEF Put

LEMMA WriteBatchSound ==
  ASSUME RowOrderInv, NEW p \in Processes, WriteBatch(p)
  PROVE  Sound(p)
  <1>1. DOMAIN plan[p] \subseteq edges
    BY DEF RowOrderInv, PlanOK, WriteBatch
  <1>2. DOMAIN rank' \subseteq edges
    <2>1. rank' = Put(rank, plan[p])
      BY DEF WriteBatch
    <2>2. DOMAIN rank' = DOMAIN rank \cup DOMAIN plan[p]
      BY <2>1, PutRows
    <2> QED BY <1>1, <2>2 DEF RowOrderInv, ViewOK
  <1>3. crossed' \in BOOLEAN
    <2>1. crossed' = (\/ crossed \/ ready
                      \/ \E q \in Processes \ {p} : pc[q] \in Importing /\ old[q] # old[p])
      BY DEF WriteBatch
    <2> QED BY <2>1, Zenon
  <1>4. ViewOK'
    BY <1>2, <1>3 DEF RowOrderInv, ViewOK, WriteBatch, page
  <1>5. LocalsOK'
    <2>1. done' \in [Processes -> Nat]
      BY PageRowOrderAssumption DEF RowOrderInv, LocalsOK, WriteBatch
    <2>2. pc' \in [Processes -> Stages]
      BY DEF RowOrderInv, LocalsOK, WriteBatch, Goto, Stages, Importing
    <2> QED BY <2>1, <2>2 DEF RowOrderInv, LocalsOK, WriteBatch
  <1>6. PlanOK(p)'
    <2>1. pc'[p] = "import"
      BY DEF RowOrderInv, LocalsOK, WriteBatch, Goto
    <2> QED BY <2>1 DEF PlanOK, Repairing, Ensured
  <1> QED
    BY <1>4, <1>5, <1>6 DEF Sound, RowOrderInv, ViewOK, LocalsOK, WriteBatch, Goto, page

LEMMA MarkSound ==
  ASSUME RowOrderInv, NEW p \in Processes, MarkReady(p) \/ ImportAgain(p)
  PROVE  Sound(p)
  <1>1. ViewOK'
    <2>1. CASE MarkReady(p)
      BY <2>1 DEF RowOrderInv, ViewOK, MarkReady, page
    <2>2. CASE ImportAgain(p)
      BY <2>2 DEF RowOrderInv, ViewOK, ImportAgain, page, order
    <2> QED BY <2>1, <2>2
  <1>2. LocalsOK'
    <2>1. CASE MarkReady(p)
      BY <2>1 DEF RowOrderInv, LocalsOK, MarkReady, Goto, Stages
    <2>2. CASE ImportAgain(p)
      <3>1. tries' \in [Processes -> 0..2]
        <4>1. tries \in [Processes -> 0..2] /\ tries[p] < 2
          BY <2>2 DEF RowOrderInv, LocalsOK, ImportAgain
        <4>2. tries[p] + 1 \in 0..2
          BY <4>1
        <4>3. tries' = [tries EXCEPT ![p] = tries[p] + 1]
          BY <2>2 DEF ImportAgain
        <4> QED BY <4>1, <4>2, <4>3
      <3>2. pc' \in [Processes -> Stages]
        BY <2>2 DEF RowOrderInv, LocalsOK, ImportAgain, Goto, Stages
      <3> QED BY <2>2, <3>1, <3>2 DEF RowOrderInv, LocalsOK, ImportAgain
    <2> QED BY <2>1, <2>2
  <1>3. PlanOK(p)'
    <2>1. pc'[p] = "view"
      BY DEF RowOrderInv, LocalsOK, MarkReady, ImportAgain, Goto
    <2> QED BY <2>1 DEF PlanOK, Repairing, Ensured
  <1>4. ready => ready' /\ revision <= revision'
    BY DEF RowOrderInv, ViewOK, MarkReady, ImportAgain, Importable, order
  <1> QED
    BY <1>1, <1>2, <1>3, <1>4
    DEF Sound, RowOrderInv, ViewOK, LocalsOK, MarkReady, ImportAgain, Goto, page

-----------------------------------------------------------------------------
(* The repair.                                                              *)

\* A read that only makes a plan for rows with edges, and goes on to a stage
\* that needs no more of it.
LEMMA ReadSound ==
  ASSUME RowOrderInv, NEW p \in Processes, NEW stage \in Stages, NEW k,
         DOMAIN k \subseteq edges, stage \notin {"create", "move"},
         stage = "place" => job[p].row \in Rows,
         pc[p] \in Repairing \cup Ensured,
         pc' = [pc EXCEPT ![p] = stage], plan' = [plan EXCEPT ![p] = k],
         UNCHANGED <<page, order, job, old, done, tries, seen, crossed>>
  PROVE  Sound(p)
  <1>1. ViewOK'
    BY DEF RowOrderInv, ViewOK, page, order
  <1>2. LocalsOK'
    BY DEF RowOrderInv, LocalsOK
  <1>3. PlanOK(p)'
    <2>1. pc'[p] = stage /\ plan'[p] = k /\ seen' = seen /\ UNCHANGED <<edges, ready, revision>>
      BY DEF RowOrderInv, LocalsOK, page, order
    <2>2. ready /\ seen[p] <= revision
      BY DEF RowOrderInv, PlanOK
    <2> QED BY <2>1, <2>2 DEF PlanOK
  <1> QED
    BY <1>1, <1>2, <1>3 DEF Sound, RowOrderInv, ViewOK, LocalsOK, page, order

LEMMA ReadMissingSound ==
  ASSUME RowOrderInv, NEW p \in Processes, ReadMissing(p)
  PROVE  Sound(p)
  <1> DEFINE missing == edges \ DOMAIN rank
             first   == {r \in missing : Cardinality({s \in missing : s < r}) < Batch}
             stage   == IF missing = {} THEN Task(p) ELSE "tail"
             k       == [r \in first |-> 0]
  <1>1. pc[p] \in Repairing \cup Ensured
    BY DEF ReadMissing, Repairing
  <1>2. stage \in Stages /\ stage \notin {"create", "move"}
    BY DEF Task, Stages, Repairing, Ensured
  <1>6. stage = "place" => job[p].row \in Rows
    BY DEF RowOrderInv, LocalsOK, Job, Task
  <1>3. pc' = [pc EXCEPT ![p] = stage] /\ plan' = [plan EXCEPT ![p] = k]
    BY DEF ReadMissing, Goto
  <1>4. DOMAIN k \subseteq edges
    OBVIOUS
  <1>5. UNCHANGED <<page, order, job, old, done, tries, seen, crossed>>
    BY DEF ReadMissing
  <1> HIDE DEF k, stage
  <1> QED BY <1>1, <1>2, <1>3, <1>4, <1>5, <1>6, ReadSound

LEMMA ReadTailSound ==
  ASSUME RowOrderInv, NEW p \in Processes, ReadTail(p)
  PROVE  Sound(p)
  <1> DEFINE k == [r \in DOMAIN plan[p] |->
                     TailKey(rank) + Gap * Cardinality({s \in DOMAIN plan[p] : s < r})]
  <1>1. pc[p] = "tail" /\ pc[p] \in Repairing \cup Ensured /\ "fix" \in Stages
    BY DEF ReadTail, Repairing, Stages
  <1>2. DOMAIN k \subseteq edges
    BY <1>1 DEF RowOrderInv, PlanOK
  <1>3. pc' = [pc EXCEPT ![p] = "fix"] /\ plan' = [plan EXCEPT ![p] = k]
    BY DEF ReadTail, Goto
  <1>4. UNCHANGED <<page, order, job, old, done, tries, seen, crossed>>
    BY DEF ReadTail
  <1> HIDE DEF k
  <1> QED BY <1>1, <1>2, <1>3, <1>4, ReadSound

LEMMA ReadRanksSound ==
  ASSUME RowOrderInv, NEW p \in Processes, ReadRanks(p)
  PROVE  Sound(p)
  <1> DEFINE k == [r \in DOMAIN rank |-> Gap * Cardinality({s \in DOMAIN rank : Before(rank, s, r)})]
  <1>1. pc[p] \in Repairing \cup Ensured /\ "compact" \in Stages
    BY DEF ReadRanks, Ensured, Stages
  <1>2. DOMAIN k \subseteq edges
    BY DEF RowOrderInv, ViewOK
  <1>3. pc' = [pc EXCEPT ![p] = "compact"] /\ plan' = [plan EXCEPT ![p] = k]
    BY DEF ReadRanks, Goto
  <1>4. UNCHANGED <<page, order, job, old, done, tries, seen, crossed>>
    BY DEF ReadRanks
  <1> HIDE DEF k
  <1> QED BY <1>1, <1>2, <1>3, <1>4, ReadSound

LEMMA ReadEndSound ==
  ASSUME RowOrderInv, NEW p \in Processes, ReadEnd(p)
  PROVE  Sound(p)
  <1> DEFINE k == [r \in {job[p].row} |-> TailKey(rank)]
  <1>1. pc' = [pc EXCEPT ![p] = "create"] /\ plan' = [plan EXCEPT ![p] = k]
    BY DEF ReadEnd, Goto
  <1>2. UNCHANGED <<page, order, job, old, done, tries, seen, crossed>>
    BY DEF ReadEnd
  <1>3. DOMAIN k = {job[p].row}
    OBVIOUS
  <1> HIDE DEF k
  <1>4. ViewOK'
    BY <1>2 DEF RowOrderInv, ViewOK, page, order
  <1>5. LocalsOK'
    BY <1>1, <1>2 DEF RowOrderInv, LocalsOK, Stages, Ensured
  <1>6. PlanOK(p)'
    <2>1. pc'[p] = "create" /\ plan'[p] = k /\ seen' = seen /\ UNCHANGED <<ready, revision, job>>
      BY <1>1, <1>2 DEF RowOrderInv, LocalsOK, order
    <2>2. ready /\ seen[p] <= revision /\ job[p].row \in Rows
      BY DEF ReadEnd, RowOrderInv, PlanOK, Ensured
    <2> QED BY <1>3, <2>1, <2>2 DEF PlanOK
  <1> QED
    BY <1>1, <1>2, <1>4, <1>5, <1>6 DEF Sound, RowOrderInv, ViewOK, LocalsOK, page, order

LEMMA ReadRowSound ==
  ASSUME RowOrderInv, NEW p \in Processes, ReadRow(p)
  PROVE  Sound(p)
  <1>1. ViewOK'
    BY DEF RowOrderInv, ViewOK, ReadRow, page, order
  <1>2. LocalsOK'
    BY DEF RowOrderInv, ViewOK, LocalsOK, ReadRow, Goto, Stages, Ensured
  <1>3. PlanOK(p)'
    <2>1. pc'[p] = "aim" /\ seen'[p] = revision /\ UNCHANGED <<ready, revision>>
      BY DEF RowOrderInv, LocalsOK, ReadRow, Goto, order
    <2>2. ready /\ revision \in Nat
      BY DEF ReadRow, RowOrderInv, ViewOK, PlanOK, Ensured
    <2> QED BY <2>1, <2>2 DEF PlanOK
  <1> QED
    BY <1>1, <1>2, <1>3 DEF Sound, RowOrderInv, ViewOK, LocalsOK, ReadRow, Goto, page, order

-----------------------------------------------------------------------------
(* The statements that write.                                               *)

\* A transaction that advances the revision of a ready view, writes the keys of
\* a plan and ends with its process idle or back at the repair.
LEMMA WriteSound ==
  ASSUME RowOrderInv, NEW p \in Processes, Current(p),
         edges \subseteq edges', edges' \subseteq Rows, live' \subseteq edges',
         UNCHANGED <<legacy, ready, crossed>>,
         DOMAIN plan[p] \subseteq edges',
         rank' = Put(rank, plan[p]), revision' = NextRevision,
         LocalsOK', PlanOK(p)',
         \A q \in Processes \ {p} : /\ pc'[q] = pc[q] /\ seen'[q] = seen[q]
                                    /\ plan'[q] = plan[q] /\ job'[q] = job[q]
  PROVE  Sound(p)
  <1>1. DOMAIN rank' = DOMAIN rank \cup DOMAIN plan[p]
    BY PutRows
  <1>2. DOMAIN rank' \subseteq edges'
    BY <1>1 DEF RowOrderInv, ViewOK
  <1>3. revision \in Nat /\ revision' \in Nat /\ revision <= revision'
    BY DEF RowOrderInv, ViewOK, NextRevision
  <1>4. ViewOK'
    BY <1>2, <1>3 DEF RowOrderInv, ViewOK
  <1> QED BY <1>3, <1>4 DEF Sound

LEMMA RepairSound ==
  ASSUME RowOrderInv, NEW p \in Processes, Repair(p)
  PROVE  Sound(p)
  <1>1. seen[p] \in Nat /\ seen[p] = revision /\ ready
    BY DEF RowOrderInv, LocalsOK, Repair, Current
  <1>2. LocalsOK'
    <2>1. pc' \in [Processes -> Stages]
      BY DEF RowOrderInv, LocalsOK, Repair, Goto, Stages, Repairing
    <2>2. seen' \in [Processes -> Nat]
      BY <1>1 DEF RowOrderInv, LocalsOK, Repair
    <2> QED BY <2>1, <2>2 DEF RowOrderInv, LocalsOK, Repair
  <1>3. PlanOK(p)'
    <2>1. pc'[p] = "repair" /\ seen'[p] = seen[p] + 1 /\ revision' = revision + 1 /\ ready' = ready
      BY DEF RowOrderInv, LocalsOK, Repair, Goto, NextRevision
    <2> QED BY <1>1, <2>1 DEF PlanOK
  <1>4. \A q \in Processes \ {p} : /\ pc'[q] = pc[q] /\ seen'[q] = seen[q]
                                   /\ plan'[q] = plan[q] /\ job'[q] = job[q]
    BY DEF RowOrderInv, LocalsOK, Repair, Goto
  <1>5. DOMAIN plan[p] \subseteq edges
    BY DEF RowOrderInv, PlanOK, Repair
  <1>6. edges \subseteq Rows /\ live \subseteq edges
    BY DEF RowOrderInv, ViewOK
  <1>7. /\ Current(p) /\ rank' = Put(rank, plan[p]) /\ revision' = NextRevision
        /\ UNCHANGED <<edges, live, legacy, ready, crossed>>
    BY DEF Repair, page
  <1> QED BY <1>2, <1>3, <1>4, <1>5, <1>6, <1>7, WriteSound

\* A write that ends its operation.
LEMMA LastWriteSound ==
  ASSUME RowOrderInv, NEW p \in Processes, Current(p), Leave(p),
         edges \subseteq edges', edges' \subseteq Rows, live' \subseteq edges',
         UNCHANGED <<legacy, ready, crossed>>,
         DOMAIN plan[p] \subseteq edges',
         rank' = Put(rank, plan[p]), revision' = NextRevision
  PROVE  Sound(p)
  <1>1. LocalsOK
    BY DEF RowOrderInv
  <1>2. /\ LocalsOK' /\ pc'[p] = "idle"
        /\ \A q \in Processes \ {p} : /\ pc'[q] = pc[q] /\ seen'[q] = seen[q]
                                      /\ plan'[q] = plan[q] /\ job'[q] = job[q]
    BY <1>1, Left
  <1>3. PlanOK(p)'
    BY <1>2 DEF PlanOK, Repairing, Ensured
  <1> QED BY <1>2, <1>3, WriteSound

LEMMA CreateSound ==
  ASSUME RowOrderInv, NEW p \in Processes, Create(p)
  PROVE  Sound(p)
  <1>1. job[p].row \in Rows
    BY DEF RowOrderInv, PlanOK, Create
  <1>2. edges \subseteq Rows /\ live \subseteq edges /\ DOMAIN plan[p] = {job[p].row}
    BY DEF RowOrderInv, ViewOK, PlanOK, Create
  <1> QED BY <1>1, <1>2, LastWriteSound DEF Create

LEMMA MoveSound ==
  ASSUME RowOrderInv, NEW p \in Processes, Move(p)
  PROVE  Sound(p)
  <1>1. edges \subseteq Rows /\ live \subseteq edges
    BY DEF RowOrderInv, ViewOK
  <1>2. DOMAIN plan[p] = {job[p].row} \cup ({job[p].anchor} \ {None})
    BY DEF RowOrderInv, PlanOK, Move
  <1>3. job[p].row \in live /\ (job[p].anchor # None => job[p].anchor \in live)
    BY DEF Move
  <1>4. DOMAIN plan[p] \subseteq edges
    BY <1>1, <1>2, <1>3
  <1>5. /\ Current(p) /\ Leave(p) /\ rank' = Put(rank, plan[p]) /\ revision' = NextRevision
        /\ UNCHANGED <<edges, live, legacy, ready, crossed>>
    BY DEF Move, page
  <1> QED BY <1>1, <1>4, <1>5, LastWriteSound

LEMMA CompactSound ==
  ASSUME RowOrderInv, NEW p \in Processes, Compact(p)
  PROVE  Sound(p)
  <1>1. edges \subseteq Rows /\ live \subseteq edges
    BY DEF RowOrderInv, ViewOK
  <1>2. DOMAIN plan[p] \subseteq edges
    BY DEF RowOrderInv, PlanOK, Compact
  <1>3. /\ Current(p) /\ Leave(p) /\ rank' = Put(rank, plan[p]) /\ revision' = NextRevision
        /\ UNCHANGED <<edges, live, legacy, ready, crossed>>
    BY DEF Compact, page
  <1> QED BY <1>1, <1>2, <1>3, LastWriteSound

LEMMA AbandonSound ==
  ASSUME RowOrderInv, NEW p \in Processes, Abandon(p)
  PROVE  Sound(p)
  <1>1. /\ LocalsOK' /\ pc'[p] = "idle"
        /\ \A q \in Processes \ {p} : /\ pc'[q] = pc[q] /\ seen'[q] = seen[q]
                                      /\ plan'[q] = plan[q] /\ job'[q] = job[q]
    BY Left DEF RowOrderInv, Abandon
  <1>2. PlanOK(p)'
    BY <1>1 DEF PlanOK, Repairing, Ensured
  <1>3. ViewOK' /\ UNCHANGED <<edges, ready, revision>>
    BY DEF RowOrderInv, ViewOK, Abandon, page, order
  <1>4. revision \in Nat
    BY DEF RowOrderInv, ViewOK
  <1> QED BY <1>1, <1>2, <1>3, <1>4 DEF Sound

LEMMA ReadGapSound ==
  ASSUME RowOrderInv, NEW p \in Processes, ReadGap(p)
  PROVE  Sound(p)
  <1>1. UNCHANGED <<page, order, job, old, done, tries, seen, crossed>> /\ pc[p] = "aim"
    BY DEF ReadGap
  <1>2. \/ pc' = [pc EXCEPT ![p] = "gather"] /\ plan' = plan
        \/ \E k : /\ DOMAIN k = {job[p].row} \cup ({job[p].anchor} \ {None})
                  /\ pc' = [pc EXCEPT ![p] = "move"] /\ plan' = [plan EXCEPT ![p] = k]
    <2> DEFINE j == job[p]
               others == DOMAIN rank \ {j.row}
               keys(lower, upper) == [r \in {j.row} \cup ({j.anchor} \ {None}) |->
                                        IF r = j.row THEN KeyIn(lower, upper) ELSE rank[r]]
    <2>1. PICK group :
             IF Crowded(Lower(j, others, group), Upper(j, others, group))
             THEN Goto(p, "gather") /\ UNCHANGED plan
             ELSE /\ Goto(p, "move")
                  /\ plan' = [plan EXCEPT ![p] =
                        keys(Lower(j, others, group), Upper(j, others, group))]
      BY DEF ReadGap
    <2>2. \A x, y : DOMAIN keys(x, y) = {j.row} \cup ({j.anchor} \ {None})
      OBVIOUS
    <2> HIDE DEF keys
    <2> QED BY <2>1, <2>2 DEF Goto
  <1>3. ViewOK'
    BY <1>1 DEF RowOrderInv, ViewOK, page, order
  <1>4. LocalsOK'
    BY <1>1, <1>2 DEF RowOrderInv, LocalsOK, Stages, Ensured
  <1>5. PlanOK(p)'
    <2>1. ready /\ seen[p] <= revision
      BY <1>1 DEF RowOrderInv, PlanOK, Ensured
    <2>2. UNCHANGED <<ready, revision, seen, job>>
      BY <1>1 DEF order
    <2>3. CASE pc' = [pc EXCEPT ![p] = "gather"] /\ plan' = plan
      <3>1. pc'[p] = "gather"
        BY <2>3 DEF RowOrderInv, LocalsOK
      <3> QED BY <2>1, <2>2, <3>1 DEF PlanOK
    <2>4. ASSUME NEW k, DOMAIN k = {job[p].row} \cup ({job[p].anchor} \ {None}),
                 pc' = [pc EXCEPT ![p] = "move"], plan' = [plan EXCEPT ![p] = k]
          PROVE  PlanOK(p)'
      <3>1. pc'[p] = "move" /\ plan'[p] = k
        BY <2>4 DEF RowOrderInv, LocalsOK
      <3> QED BY <2>1, <2>2, <2>4, <3>1 DEF PlanOK
    <2> QED BY <1>2, <2>3, <2>4
  <1> QED
    BY <1>1, <1>2, <1>3, <1>4, <1>5 DEF Sound, RowOrderInv, ViewOK, LocalsOK, page, order

-----------------------------------------------------------------------------
(* The theorems.                                                            *)

\* RowOrderInv is inductive.
LEMMA Inductive == RowOrderInv /\ [Next]_vars => RowOrderInv'
<1> SUFFICES ASSUME RowOrderInv, [Next]_vars PROVE RowOrderInv'
  OBVIOUS
<1>1. CASE UNCHANGED vars
  BY <1>1 DEF RowOrderInv, ViewOK, LocalsOK, PlanOK, vars, page, order, local
<1>2. ASSUME NEW r \in Rows, DeleteOrRestore(r) PROVE RowOrderInv'
  <2>1. ViewOK'
    BY <1>2 DEF RowOrderInv, ViewOK, DeleteOrRestore, order
  <2>2. UNCHANGED <<edges, order, local>>
    BY <1>2 DEF DeleteOrRestore
  <2> QED BY <2>1, <2>2 DEF RowOrderInv, LocalsOK, PlanOK, order, local
<1>3. CASE PatchLegacyOrder
  <2>1. ViewOK'
    BY <1>3 DEF RowOrderInv, ViewOK, PatchLegacyOrder, order
  <2>2. UNCHANGED <<edges, order, local>>
    BY <1>3 DEF PatchLegacyOrder
  <2> QED BY <2>1, <2>2 DEF RowOrderInv, LocalsOK, PlanOK, order, local
<1>4. ASSUME NEW p \in Processes, Sound(p) PROVE RowOrderInv'
  BY <1>4, SoundIsEnough
<1> QED
  BY <1>1, <1>2, <1>3, <1>4, Steps, StartsSound, ReadViewSound, ReadBatchSound, WriteBatchSound,
     MarkSound, ReadMissingSound, ReadTailSound, RepairSound, ReadEndSound, CreateSound,
     ReadRowSound, ReadGapSound, MoveSound, ReadRanksSound, CompactSound, AbandonSound

\* The view, its keys and the processes that order them stay sound, whatever
\* the interleaving of the processes of page-view-row-order.ts.
THEOREM RowOrderSafe == Spec => []RowOrderInv
  BY Initially, Inductive, PTL DEF Spec

\* The ranks of a ready view change only with its revision, or with a batch of
\* an import: the compare-and-swaps of every other statement.
LEMMA RanksFollowRevision ==
  ASSUME RowOrderInv, [Next]_vars
  PROVE  ready /\ revision' = revision => rank' = rank \/ crossed'
  <1> SUFFICES ASSUME ready, revision' = revision PROVE rank' = rank \/ crossed'
    OBVIOUS
  <1>1. revision' # NextRevision
    BY DEF RowOrderInv, ViewOK, NextRevision
  <1>2. ASSUME NEW p \in Processes, WriteBatch(p) PROVE crossed'
    BY <1>2 DEF WriteBatch
  <1>3. ASSUME NEW p \in Processes, Repair(p) \/ Create(p) \/ Move(p) \/ Compact(p) PROVE FALSE
    BY <1>1, <1>3 DEF Repair, Create, Move, Compact
  <1>4. ASSUME NEW p \in Processes,
               \/ StartBackfill(p) \/ \E r \in Rows : StartCreate(p, r)
               \/ \E m \in Moves : StartMove(p, m)
        PROVE  rank' = rank
    BY <1>4 DEF StartBackfill, StartCreate, StartMove, Start, order
  <1>5. ASSUME NEW p \in Processes,
               \/ ReadView(p) \/ ReadBatch(p) \/ MarkReady(p) \/ ImportAgain(p) \/ ReadMissing(p)
               \/ ReadTail(p) \/ ReadEnd(p) \/ ReadRow(p) \/ ReadGap(p) \/ ReadRanks(p) \/ Abandon(p)
        PROVE  rank' = rank
    <2>1. UNCHANGED rank \/ UNCHANGED order
      BY <1>5 DEF ReadView, ReadBatch, MarkReady, ImportAgain, ReadMissing, ReadTail, ReadEnd,
                  ReadRow, ReadGap, ReadRanks, Abandon
    <2> QED BY <2>1 DEF order
  <1>6. ASSUME UNCHANGED vars \/ PatchLegacyOrder \/ \E r \in Rows : DeleteOrRestore(r)
        PROVE  rank' = rank
    BY <1>6 DEF vars, order, PatchLegacyOrder, DeleteOrRestore
  <1> QED BY <1>2, <1>3, <1>4, <1>5, <1>6, Steps

\* While no import crosses another or outlives the readiness of the view, a
\* revision names one order, for any number of processes.
THEOREM RevisionsNameOrders == Spec => CursorsHold
<1>1. RowOrderInv /\ [Next]_vars => [ready /\ revision' = revision => rank' = rank \/ crossed']_vars
  BY RanksFollowRevision
<1> QED BY <1>1, RowOrderSafe, PTL DEF Spec, CursorsHold

\* A ready view stays ready, no row loses its rank, and rows join it with one.
LEMMA RowsKeepRanks ==
  ASSUME RowOrderInv, [Next]_vars, ready
  PROVE  ready' /\ (DOMAIN rank = edges => DOMAIN rank' = edges')
  <1>1. ASSUME NEW p \in Processes, DOMAIN rank' = DOMAIN rank \cup DOMAIN plan[p],
               DOMAIN plan[p] \subseteq edges, edges' = edges, ready' = ready
        PROVE  ready' /\ (DOMAIN rank = edges => DOMAIN rank' = edges')
    BY <1>1
  <1>2. \A p \in Processes : DOMAIN Put(rank, plan[p]) = DOMAIN rank \cup DOMAIN plan[p]
    BY PutRows
  <1>3. ASSUME NEW p \in Processes, WriteBatch(p) \/ Repair(p) \/ Compact(p)
        PROVE  ready' /\ (DOMAIN rank = edges => DOMAIN rank' = edges')
    <2>1. DOMAIN plan[p] \subseteq edges
      BY <1>3 DEF RowOrderInv, PlanOK, WriteBatch, Repair, Compact
    <2>2. rank' = Put(rank, plan[p]) /\ edges' = edges /\ ready' = ready
      BY <1>3 DEF WriteBatch, Repair, Compact, page
    <2> QED BY <1>1, <1>2, <2>1, <2>2
  <1>4. ASSUME NEW p \in Processes, Move(p)
        PROVE  ready' /\ (DOMAIN rank = edges => DOMAIN rank' = edges')
    <2>1. DOMAIN plan[p] = {job[p].row} \cup ({job[p].anchor} \ {None}) /\ live \subseteq edges
      BY <1>4 DEF RowOrderInv, ViewOK, PlanOK, Move
    <2>2. job[p].row \in live /\ (job[p].anchor # None => job[p].anchor \in live)
      BY <1>4 DEF Move
    <2>3. DOMAIN plan[p] \subseteq edges
      BY <2>1, <2>2
    <2>4. rank' = Put(rank, plan[p]) /\ edges' = edges /\ ready' = ready
      BY <1>4 DEF Move, page
    <2> QED BY <1>1, <1>2, <2>3, <2>4
  <1>5. ASSUME NEW p \in Processes, Create(p)
        PROVE  ready' /\ (DOMAIN rank = edges => DOMAIN rank' = edges')
    <2>1. DOMAIN plan[p] = {job[p].row}
      BY <1>5 DEF RowOrderInv, PlanOK, Create
    <2>2. rank' = Put(rank, plan[p]) /\ edges' = edges \cup {job[p].row} /\ ready' = ready
      BY <1>5 DEF Create
    <2>3. DOMAIN rank' = DOMAIN rank \cup {job[p].row}
      BY <1>2, <2>1, <2>2
    <2> QED BY <2>2, <2>3
  <1>6. ASSUME UNCHANGED <<edges, ready, rank>>
        PROVE  ready' /\ (DOMAIN rank = edges => DOMAIN rank' = edges')
    BY <1>6
  <1>7. ASSUME NEW p \in Processes, MarkReady(p) PROVE FALSE
    BY <1>7 DEF MarkReady, Importable
  <1>8. ASSUME NEW p \in Processes,
               \/ StartBackfill(p) \/ \E r \in Rows : StartCreate(p, r)
               \/ \E m \in Moves : StartMove(p, m)
        PROVE  UNCHANGED <<edges, ready, rank>>
    BY <1>8 DEF StartBackfill, StartCreate, StartMove, Start, page, order
  <1>9. ASSUME NEW p \in Processes,
               \/ ReadView(p) \/ ReadBatch(p) \/ ImportAgain(p) \/ ReadMissing(p) \/ ReadTail(p)
               \/ ReadEnd(p) \/ ReadRow(p) \/ ReadGap(p) \/ ReadRanks(p) \/ Abandon(p)
        PROVE  UNCHANGED <<edges, ready, rank>>
    <2>1. UNCHANGED <<page, order>>
      BY <1>9 DEF ReadView, ReadBatch, ImportAgain, ReadMissing, ReadTail, ReadEnd, ReadRow,
                  ReadGap, ReadRanks, Abandon
    <2> QED BY <2>1 DEF page, order
  <1>10. ASSUME UNCHANGED vars \/ PatchLegacyOrder \/ \E r \in Rows : DeleteOrRestore(r)
         PROVE  UNCHANGED <<edges, ready, rank>>
    BY <1>10 DEF vars, page, order, PatchLegacyOrder, DeleteOrRestore
  <1> QED BY <1>3, <1>4, <1>5, <1>6, <1>7, <1>8, <1>9, <1>10, Steps

\* Every row of a ready view that lists them all stays listed, and a row that
\* createChild adds joins the page together with its rank.
THEOREM RowsStayPaginable == Spec => StaysPaginable
<1>1. RowOrderInv /\ [Next]_vars =>
        [ready /\ DOMAIN rank = edges => ready' /\ DOMAIN rank' = edges']_vars
  BY RowsKeepRanks
<1> QED BY <1>1, RowOrderSafe, PTL DEF Spec, StaysPaginable

-----------------------------------------------------------------------------
(* Numbers.                                                                 *)

NatLess == {ss \in Nat \X Nat : ss[1] < ss[2]}

LEMMA NatWF == IsWellFoundedOn(NatLess, Nat)
  BY NatLessThanWellFounded DEF OpToRel, NatLess

\* Every set of naturals has a least element, and what holds of zero and of
\* every successor holds of all.
LEMMA LeastNat ==
  ASSUME NEW S, S \subseteq Nat, S # {}
  PROVE  \E x \in S : \A y \in S : x <= y
  <1>1. PICK x \in S : \A y \in S : ~ (<<y, x>> \in NatLess)
    BY NatWF, WFMin, Zenon
  <1>2. ASSUME NEW y \in S PROVE x <= y
    <2>1. <<y, x>> \in Nat \X Nat
      OBVIOUS
    <2>2. ~ (y < x)
      BY <1>1, <1>2, <2>1 DEF NatLess
    <2> QED BY <2>2
  <1> QED BY <1>2

LEMMA NatInd ==
  ASSUME NEW S, 0 \in S, \A n \in Nat : n \in S => n + 1 \in S
  PROVE  Nat \subseteq S
  <1> DEFINE B == {n \in Nat : n \notin S}
  <1>1. ASSUME B # {} PROVE FALSE
    <2>1. PICK m \in B : \A y \in B : m <= y
      BY <1>1, LeastNat
    <2>2. m # 0 /\ m - 1 \in Nat
      BY <2>1
    <2>3. m - 1 \in S
      BY <2>1, <2>2
    <2> QED BY <2>1, <2>2, <2>3
  <1> QED BY <1>1

-----------------------------------------------------------------------------
(* Keys and rows in their order.                                            *)

\* The key generated after another is above it, the key before it below, and
\* the key in a gap in between, unless the gap is used up.
LEMMA KeysInOrder ==
  ASSUME NEW k \in Int
  PROVE  /\ KeyAfter(k) \in Int /\ k < KeyAfter(k)
         /\ KeyBefore(k) \in Int /\ KeyBefore(k) < k
  <1>1. PICK g \in Nat \ {0} : g = Gap
    BY PageRowOrderAssumption
  <1>2. /\ k \div g \in Int /\ k % g \in 0 .. g - 1
        /\ k = g * (k \div g) + (k % g)
    OBVIOUS
  <1>3. PICK d \in Int : d = k \div g
    BY <1>2
  <1>4. PICK m \in Int : m = k % g
    BY <1>2
  <1>5. PICK x \in Int : x = g * d
    BY <1>3
  <1>6. g * (d + 1) = x + g
    BY <1>5
  <1>7. k = x + m /\ 0 <= m /\ m < g
    BY <1>2, <1>3, <1>4, <1>5
  <1>8. KeyAfter(k) = x + g
    BY <1>1, <1>3, <1>6 DEF KeyAfter
  <1>9. KeyBefore(k) = IF m = 0 THEN k - g ELSE k - m
    BY <1>1, <1>4 DEF KeyBefore
  <1> QED BY <1>7, <1>8, <1>9

LEMMA KeyInGap ==
  ASSUME NEW a \in Int, NEW b \in Int, a < b
  PROVE  /\ KeyBetween(a, b) \in Int
         /\ KeyBetween(a, b) # a => a < KeyBetween(a, b) /\ KeyBetween(a, b) < b
  <1>1. CASE KeyAfter(a) < b
    BY <1>1, KeysInOrder DEF KeyBetween
  <1>2. CASE ~(KeyAfter(a) < b)
    <2>1. PICK c \in Int : c = (a + b) \div 2
      OBVIOUS
    <2>2. a <= c /\ c < b
      BY <2>1
    <2>3. KeyBetween(a, b) = c
      BY <1>2, <2>1 DEF KeyBetween
    <2> QED BY <2>2, <2>3
  <1> QED BY <1>1, <1>2

\* The rows of an order by rank and id, with keys f.
Ranked(f) == DOMAIN f \subseteq Rows /\ IsFiniteSet(DOMAIN f) /\ \A r \in DOMAIN f : f[r] \in Int

\* A finite set of rows has a last and a first one.
LEMMA Ends ==
  ASSUME NEW f, Ranked(f)
  PROVE  \A S \in SUBSET DOMAIN f : S # {} =>
            /\ \E r \in S : \A s \in S \ {r} : Before(f, s, r)
            /\ \E r \in S : \A s \in S \ {r} : Before(f, r, s)
  <1> DEFINE Has(S) == /\ \E r \in S : \A s \in S \ {r} : Before(f, s, r)
                       /\ \E r \in S : \A s \in S \ {r} : Before(f, r, s)
             Good   == {n \in Nat : \A S \in SUBSET DOMAIN f :
                          IsFiniteSet(S) /\ Cardinality(S) = n /\ S # {} => Has(S)}
  <1>1. 0 \in Good
    BY FS_EmptySet
  <1>2. ASSUME NEW n \in Nat, n \in Good
        PROVE  n + 1 \in Good
    <2> SUFFICES ASSUME NEW S \in SUBSET DOMAIN f, IsFiniteSet(S), Cardinality(S) = n + 1
                 PROVE  Has(S)
      OBVIOUS
    <2>1. PICK x \in S : TRUE
      BY FS_EmptySet
    <2>2. IsFiniteSet(S \ {x}) /\ Cardinality(S \ {x}) = n /\ S \ {x} \in SUBSET DOMAIN f
      <3>1. IsFiniteSet(S \ {x}) /\ Cardinality(S \ {x}) = (n + 1) - 1
        BY <2>1, FS_RemoveElement
      <3> QED BY <3>1
    <2>3. CASE S \ {x} = {}
      BY <2>1, <2>3
    <2>4. CASE S \ {x} # {}
      <3>1. Has(S \ {x})
        BY <1>2, <2>2, <2>4
      <3>2. \A r, s \in S : f[r] \in Int /\ r \in Nat
        BY PageRowOrderAssumption DEF Ranked
      <3>3. PICK m \in S \ {x} : \A s \in (S \ {x}) \ {m} : Before(f, s, m)
        BY <3>1
      <3>4. \E r \in S : \A s \in S \ {r} : Before(f, s, r)
        <4>1. CASE Before(f, x, m)
          BY <3>3, <4>1
        <4>2. CASE ~Before(f, x, m)
          <5>1. Before(f, m, x)
            BY <2>1, <3>2, <3>3, <4>2 DEF Before
          <5>2. \A s \in S \ {x} : Before(f, s, x)
            BY <2>1, <3>2, <3>3, <5>1 DEF Before
          <5> QED BY <2>1, <5>2
        <4> QED BY <4>1, <4>2
      <3>5. PICK l \in S \ {x} : \A s \in (S \ {x}) \ {l} : Before(f, l, s)
        BY <3>1
      <3>6. \E r \in S : \A s \in S \ {r} : Before(f, r, s)
        <4>1. CASE Before(f, l, x)
          BY <3>5, <4>1
        <4>2. CASE ~Before(f, l, x)
          <5>1. Before(f, x, l)
            BY <2>1, <3>2, <3>5, <4>2 DEF Before
          <5>2. \A s \in S \ {x} : Before(f, x, s)
            BY <2>1, <3>2, <3>5, <5>1 DEF Before
          <5> QED BY <2>1, <5>2
        <4> QED BY <4>1, <4>2
      <3> QED BY <3>4, <3>6
    <2> QED BY <2>3, <2>4
  <1> HIDE DEF Good
  <1>3. Nat \subseteq Good
    BY <1>1, <1>2, NatInd
  <1>4. ASSUME NEW S \in SUBSET DOMAIN f, S # {} PROVE Has(S)
    <2>1. IsFiniteSet(S) /\ Cardinality(S) \in Nat
      BY FS_Subset, FS_CardinalityType DEF Ranked
    <2>2. PICK n \in Nat : n = Cardinality(S)
      BY <2>1
    <2>3. n \in Good
      BY <1>3
    <2>4. \A T \in SUBSET DOMAIN f : IsFiniteSet(T) /\ Cardinality(T) = n /\ T # {} => Has(T)
      BY <2>3 DEF Good
    <2> HIDE DEF Has
    <2> QED BY <1>4, <2>1, <2>2, <2>4
  <1> QED BY <1>4

\* So the neighbours that the program asks for are there.
LEMMA Neighbours ==
  ASSUME NEW f, Ranked(f), NEW S \in SUBSET DOMAIN f
  PROVE  /\ S # {} => /\ LastOf(f, S) \in S
                      /\ \A s \in S \ {LastOf(f, S)} : Before(f, s, LastOf(f, S))
         /\ S # {} => /\ FirstOf(f, S) \in S
                      /\ \A s \in S \ {FirstOf(f, S)} : Before(f, FirstOf(f, S), s)
         /\ S = {} => LastOf(f, S) = None /\ FirstOf(f, S) = None
         /\ None \notin S
  <1>1. S # {} => /\ \E r \in S : \A s \in S \ {r} : Before(f, s, r)
                  /\ \E r \in S : \A s \in S \ {r} : Before(f, r, s)
    BY Ends
  <1>2. None \notin S
    BY PageRowOrderAssumption DEF Ranked, None
  <1>3. S # {} => /\ LastOf(f, S) \in S
                  /\ \A s \in S \ {LastOf(f, S)} : Before(f, s, LastOf(f, S))
    BY <1>1 DEF LastOf
  <1>4. S # {} => /\ FirstOf(f, S) \in S
                  /\ \A s \in S \ {FirstOf(f, S)} : Before(f, FirstOf(f, S), s)
    BY <1>1 DEF FirstOf
  <1> QED BY <1>2, <1>3, <1>4 DEF LastOf, FirstOf

\* The key of the tail is above those of all rows.
LEMMA TailIsLast ==
  ASSUME NEW f, Ranked(f)
  PROVE  TailKey(f) \in Int /\ \A s \in DOMAIN f : f[s] < TailKey(f)
  <1>1. CASE DOMAIN f = {}
    BY <1>1 DEF TailKey
  <1>2. CASE DOMAIN f # {}
    <2>1. PICK l : l = LastOf(f, DOMAIN f)
      OBVIOUS
    <2>2. l \in DOMAIN f /\ \A s \in DOMAIN f \ {l} : Before(f, s, l)
      BY <1>2, <2>1, Neighbours
    <2>3. \A s \in DOMAIN f : f[s] \in Int /\ f[s] <= f[l]
      BY <2>2 DEF Ranked, Before
    <2>4. KeyAfter(f[l]) \in Int /\ f[l] < KeyAfter(f[l])
      BY <2>2, <2>3, KeysInOrder
    <2>5. TailKey(f) = KeyAfter(f[l])
      BY <1>2, <2>1 DEF TailKey
    <2> QED BY <2>2, <2>3, <2>4, <2>5
  <1> QED BY <1>1, <1>2

\* The order of an import, rows of the array first, is one.
LEMMA AheadIsAnOrder ==
  ASSUME NEW q \in LegacyOrders \cup {<<>>}, NEW t \in Rows, NEW r \in Rows, NEW s \in Rows
  PROVE  /\ ~Ahead(q, r, r)
         /\ Ahead(q, t, r) /\ Ahead(q, r, s) => Ahead(q, t, s)
  <1>1. Rows \subseteq Nat
    BY PageRowOrderAssumption
  <1>2. \A i, j \in DOMAIN q : i \in Int /\ j \in Int /\ (q[i] = q[j] => i = j)
    <2>1. CASE q \in LegacyOrders
      <3>1. q \in Seq(Rows)
        BY <2>1, PageRowOrderAssumption
      <3>2. \A i \in DOMAIN q : i \in Int
        BY <3>1
      <3>3. \A i, j \in DOMAIN q : q[i] = q[j] => i = j
        BY <2>1, PageRowOrderAssumption
      <3> QED BY <3>2, <3>3
    <2>2. CASE q = <<>>
      BY <2>2
    <2> QED BY <2>1, <2>2
  <1>3. ~Ahead(q, r, r)
    <2>1. CASE Listed(q, r)
      BY <1>2, <2>1 DEF Ahead
    <2>2. CASE ~Listed(q, r)
      BY <1>1, <2>2 DEF Ahead
    <2> QED BY <2>1, <2>2
  <1>4. ASSUME Ahead(q, t, r), Ahead(q, r, s) PROVE Ahead(q, t, s)
    <2>1. CASE Listed(q, t) /\ Listed(q, r) /\ Listed(q, s)
      <3>1. PICK i, j \in DOMAIN q : i < j /\ q[i] = t /\ q[j] = r
        BY <1>4, <2>1 DEF Ahead
      <3>2. PICK k, l \in DOMAIN q : k < l /\ q[k] = r /\ q[l] = s
        BY <1>4, <2>1 DEF Ahead
      <3>3. j = k /\ i < l
        BY <1>2, <3>1, <3>2
      <3> QED BY <2>1, <3>1, <3>2, <3>3 DEF Ahead
    <2>2. CASE ~Listed(q, t)
      <3>1. ~Listed(q, r) /\ t < r
        BY <1>4, <2>2 DEF Ahead
      <3>2. ~Listed(q, s) /\ r < s
        BY <1>4, <3>1 DEF Ahead
      <3>3. t < s
        BY <1>1, <3>1, <3>2
      <3> QED BY <2>2, <3>2, <3>3 DEF Ahead
    <2>3. CASE Listed(q, t) /\ ~Listed(q, s)
      BY <2>3 DEF Ahead
    <2>4. CASE Listed(q, t) /\ ~Listed(q, r) /\ Listed(q, s)
      BY <1>4, <2>4 DEF Ahead
    <2> QED BY <2>1, <2>2, <2>3, <2>4
  <1> QED BY <1>3, <1>4

\* So a row ahead of another has a place before it.
LEMMA PlacesInOrder ==
  ASSUME edges \subseteq Rows, IsFiniteSet(edges), NEW q \in LegacyOrders \cup {<<>>},
         NEW r \in edges
  PROVE  /\ Place(q, r) \in Nat
         /\ \A s \in edges : Ahead(q, r, s) => Place(q, r) < Place(q, s)
  <1> DEFINE Front(x) == {t \in edges : Ahead(q, t, x)}
  <1>1. \A x : Front(x) \in SUBSET edges
    OBVIOUS
  <1>2. \A x : IsFiniteSet(Front(x)) /\ Cardinality(Front(x)) \in Nat
    BY <1>1, FS_Subset, FS_CardinalityType
  <1>3. ASSUME NEW s \in edges, Ahead(q, r, s)
        PROVE  Cardinality(Front(r)) < Cardinality(Front(s))
    <2>1. Front(r) \in SUBSET Front(s)
      BY <1>3, AheadIsAnOrder
    <2>2. r \in Front(s) /\ r \notin Front(r)
      BY <1>3, AheadIsAnOrder
    <2> HIDE DEF Front
    <2>3. Front(r) # Front(s)
      BY <2>2
    <2>4. /\ Cardinality(Front(r)) <= Cardinality(Front(s))
          /\ Cardinality(Front(r)) # Cardinality(Front(s))
      BY <1>2, <2>1, <2>3, FS_Subset
    <2> QED BY <1>2, <2>4
  <1>4. \A x : Place(q, x) = Cardinality(Front(x))
    BY DEF Place
  <1> HIDE DEF Front
  <1> QED BY <1>2, <1>3, <1>4

-----------------------------------------------------------------------------
(* What a process planned, while the revision it read is that of the view.  *)

\* A move is next to another row or to an end.
RequestOK(p) ==
  /\ job[p].anchor = None <=> job[p].side \in {"start", "end"}
  /\ job[p].anchor # None => job[p].anchor # job[p].row

\* The key of a move lies between its anchor and all rows on that side of it.
Beside(p) ==
  LET r == job[p].row
      a == job[p].anchor
  IN  a # None =>
        /\ r # a /\ a \in DOMAIN rank /\ plan[p][a] = rank[a]
        /\ IF job[p].side = "before"
           THEN /\ plan[p][r] < rank[a]
                /\ \A s \in DOMAIN rank \ {r} : Before(rank, s, a) => rank[s] < plan[p][r]
           ELSE /\ rank[a] < plan[p][r]
                /\ \A s \in DOMAIN rank \ {r} : Before(rank, a, s) => plan[p][r] < rank[s]

\* What each statement relies on when it finds the revision it expects.
Fit(p) ==
  /\ pc[p] \in {"tail", "fix"} => DOMAIN plan[p] \cap DOMAIN rank = {}
  /\ pc[p] \in {"fix", "create"} => \A r \in DOMAIN plan[p], s \in DOMAIN rank : rank[s] < plan[p][r]
  /\ pc[p] = "compact" => DOMAIN plan[p] \subseteq DOMAIN rank
  /\ pc[p] = "move" => Beside(p)

\* An import wrote the places before its offset, and holds those of its batch.
Imported(p) ==
  /\ pc[p] \in Importing => \A r \in edges : Place(old[p], r) < done[p] =>
        r \in DOMAIN rank /\ rank[r] = Gap * Place(old[p], r)
  /\ pc[p] = "mark" => \A r \in edges : Place(old[p], r) < done[p]
Batched(p) ==
  pc[p] = "write" =>
    /\ \A r \in edges : r \in DOMAIN plan[p] <=>
          done[p] <= Place(old[p], r) /\ Place(old[p], r) < done[p] + Batch
    /\ \A r \in DOMAIN plan[p] : plan[p][r] = Gap * Place(old[p], r)

KeysOK == /\ IsFiniteSet(edges)
          /\ \A r \in DOMAIN rank : rank[r] \in Int
          /\ \A p \in Processes : \A r \in DOMAIN plan[p] : plan[p][r] \in Int

\* Until two imports cross, plans fit the view their process read, and what
\* is imported is in place.
InStep(p) ==
  /\ RequestOK(p)
  /\ ~crossed /\ ready /\ seen[p] = revision => Fit(p)
  /\ ~ready => Batched(p)
  /\ ~crossed /\ ~ready => Imported(p)
OrderInd == RowOrderInv /\ KeysOK /\ \A p \in Processes : InStep(p)

\* In the initial view no process holds a plan.
LEMMA InitiallyInStep == Init => OrderInd
<1> SUFFICES ASSUME Init PROVE OrderInd
  OBVIOUS
<1>1. RowOrderInv
  BY Initially
<1>2. IsFiniteSet(edges)
  BY DEF Init
<1>3. \A r \in DOMAIN rank : rank[r] \in Int
  <2>1. PICK S \in SUBSET edges :
          rank = IF ready THEN [r \in S |-> Gap * Cardinality({s \in S : s < r})] ELSE Empty
    BY DEF Init
  <2>2. CASE ~ready
    BY <2>1, <2>2 DEF Empty
  <2>3. CASE ready
    <3>1. IsFiniteSet(S)
      BY <1>2, FS_Subset
    <3>2. \A r \in S : Cardinality({s \in S : s < r}) \in Nat
      <4>1. \A r \in S : {s \in S : s < r} \in SUBSET S
        OBVIOUS
      <4> QED BY <3>1, <4>1, FS_Subset, FS_CardinalityType
    <3>3. ASSUME NEW r \in S PROVE Gap * Cardinality({s \in S : s < r}) \in Int
      <4>1. Cardinality({s \in S : s < r}) \in Nat
        BY <3>2
      <4>2. \A n \in Nat : Gap * n \in Int
        BY PageRowOrderAssumption
      <4> QED BY <4>1, <4>2
    <3>4. rank = [r \in S |-> Gap * Cardinality({s \in S : s < r})]
      BY <2>1, <2>3
    <3> QED BY <3>3, <3>4
  <2> QED BY <2>2, <2>3
<1>4. ASSUME NEW p \in Processes PROVE InStep(p)
  <2>1. pc[p] = "idle" /\ job[p] = NoJob
    BY DEF Init
  <2> QED BY <2>1 DEF InStep, RequestOK, Fit, Batched, Imported, Importing, NoJob, None
<1>5. \A p \in Processes : \A r \in DOMAIN plan[p] : plan[p][r] \in Int
  BY DEF Init, Empty
<1> QED BY <1>1, <1>2, <1>3, <1>4, <1>5 DEF OrderInd, KeysOK

\* A step never goes back, and a page takes rows only once its view is ready.
LEMMA Forward ==
  ASSUME RowOrderInv, [Next]_vars
  PROVE  /\ crossed => crossed'
         /\ ready => ready' /\ revision <= revision'
         /\ edges' = edges \/ (ready /\ \E p \in Processes : edges' = edges \cup {job[p].row})
  <1> DEFINE Goal == /\ crossed => crossed'
                     /\ ready => ready' /\ revision <= revision'
                     /\ edges' = edges \/ (ready /\ \E p \in Processes : edges' = edges \cup {job[p].row})
  <1>1. revision \in Nat /\ revision <= revision /\ revision <= NextRevision
    BY DEF RowOrderInv, ViewOK, NextRevision
  <1>2. ASSUME NEW p \in Processes, WriteBatch(p) PROVE Goal
    BY <1>1, <1>2 DEF WriteBatch, page
  <1>3. ASSUME NEW p \in Processes, Repair(p) \/ Move(p) \/ Compact(p) PROVE Goal
    BY <1>1, <1>3 DEF Repair, Move, Compact, page
  <1>4. ASSUME NEW p \in Processes, Create(p) PROVE Goal
    <2>1. ready /\ edges' = edges \cup {job[p].row} /\ revision' = NextRevision
          /\ UNCHANGED <<ready, crossed>>
      BY <1>4 DEF Create, Current
    <2> QED BY <1>1, <2>1
  <1>5. ASSUME NEW p \in Processes, MarkReady(p) PROVE Goal
    BY <1>1, <1>5 DEF MarkReady, Importable, page
  <1>6. ASSUME NEW p \in Processes,
               \/ StartBackfill(p) \/ \E r \in Rows : StartCreate(p, r)
               \/ \E m \in Moves : StartMove(p, m)
        PROVE  Goal
    <2>1. UNCHANGED <<page, order, crossed>>
      BY <1>6 DEF StartBackfill, StartCreate, StartMove, Start
    <2> QED BY <1>1, <2>1 DEF page, order
  <1>7. ASSUME NEW p \in Processes,
               \/ ReadView(p) \/ ReadBatch(p) \/ ImportAgain(p) \/ ReadMissing(p) \/ ReadTail(p)
               \/ ReadEnd(p) \/ ReadRow(p) \/ ReadGap(p) \/ ReadRanks(p) \/ Abandon(p)
        PROVE  Goal
    <2>1. UNCHANGED <<page, order, crossed>>
      BY <1>7 DEF ReadView, ReadBatch, ImportAgain, ReadMissing, ReadTail, ReadEnd, ReadRow,
                  ReadGap, ReadRanks, Abandon
    <2> QED BY <1>1, <2>1 DEF page, order
  <1>8. ASSUME UNCHANGED vars \/ PatchLegacyOrder \/ \E r \in Rows : DeleteOrRestore(r)
        PROVE  Goal
    BY <1>1, <1>8 DEF vars, page, order, PatchLegacyOrder, DeleteOrRestore
  <1> HIDE DEF Goal
  <1>9. Goal
    BY <1>2, <1>3, <1>4, <1>5, <1>6, <1>7, <1>8, Steps
  <1> QED BY <1>9 DEF Goal

\* Ranks are written by an import, or in a view whose revision is the one read.
LEMMA WhoWrites ==
  ASSUME [Next]_vars
  PROVE  \/ rank' = rank
         \/ \E p \in Processes : WriteBatch(p)
         \/ \E p \in Processes : /\ Current(p) /\ rank' = Put(rank, plan[p])
                                 /\ Repair(p) \/ Create(p) \/ Move(p) \/ Compact(p)
  <1>1. ASSUME NEW p \in Processes, Repair(p) \/ Create(p) \/ Move(p) \/ Compact(p)
        PROVE  Current(p) /\ rank' = Put(rank, plan[p])
    BY <1>1 DEF Repair, Create, Move, Compact
  <1>2. ASSUME NEW p \in Processes,
               \/ StartBackfill(p) \/ \E r \in Rows : StartCreate(p, r)
               \/ \E m \in Moves : StartMove(p, m)
        PROVE  rank' = rank
    BY <1>2 DEF StartBackfill, StartCreate, StartMove, Start, order
  <1>3. ASSUME NEW p \in Processes,
               \/ ReadView(p) \/ ReadBatch(p) \/ MarkReady(p) \/ ImportAgain(p) \/ ReadMissing(p)
               \/ ReadTail(p) \/ ReadEnd(p) \/ ReadRow(p) \/ ReadGap(p) \/ ReadRanks(p) \/ Abandon(p)
        PROVE  rank' = rank
    <2>1. UNCHANGED rank \/ UNCHANGED order
      BY <1>3 DEF ReadView, ReadBatch, MarkReady, ImportAgain, ReadMissing, ReadTail, ReadEnd,
                  ReadRow, ReadGap, ReadRanks, Abandon
    <2> QED BY <2>1 DEF order
  <1>4. ASSUME UNCHANGED vars \/ PatchLegacyOrder \/ \E r \in Rows : DeleteOrRestore(r)
        PROVE  rank' = rank
    BY <1>4 DEF vars, order, PatchLegacyOrder, DeleteOrRestore
  <1> QED BY <1>1, <1>2, <1>3, <1>4, Steps

-----------------------------------------------------------------------------
(* The other processes, in step.                                            *)

\* A step is of one process, and leaves what the others keep alone.
Aside(q) == /\ pc'[q] = pc[q] /\ job'[q] = job[q] /\ old'[q] = old[q] /\ done'[q] = done[q]
            /\ seen'[q] = seen[q] /\ plan'[q] = plan[q]

LEMMA OthersAside ==
  ASSUME LocalsOK, NEW p \in Processes, NEW q \in Processes \ {p},
         Starting(p) \/ Ensuring(p) \/ Ordering(p) \/ Abandon(p)
  PROVE  Aside(q)
  <1>1. DOMAIN pc = Processes /\ DOMAIN job = Processes /\ DOMAIN old = Processes
        /\ DOMAIN done = Processes /\ DOMAIN seen = Processes /\ DOMAIN plan = Processes
    BY DEF LocalsOK
  <1>2. ASSUME NEW j, Start(p, j) PROVE Aside(q)
    BY <1>1, <1>2 DEF Start, Goto, Aside
  <1>3. ASSUME Starting(p) PROVE Aside(q)
    BY <1>2, <1>3 DEF Starting, StartBackfill, StartCreate, StartMove
  <1>4. ASSUME ReadView(p) PROVE Aside(q)
    <2>1. old'[q] = old[q] /\ done'[q] = done[q] /\ seen'[q] = seen[q] /\ pc'[q] = pc[q]
      BY <1>1, <1>4 DEF ReadView, Goto
    <2> QED BY <1>4, <2>1 DEF ReadView, Aside
  <1>5. ASSUME \/ ReadBatch(p) \/ ReadMissing(p) \/ ReadTail(p) \/ ReadEnd(p) \/ ReadRanks(p)
        PROVE  Aside(q)
    <2>1. UNCHANGED <<job, old, done, seen>>
      BY <1>5 DEF ReadBatch, ReadMissing, ReadTail, ReadEnd, ReadRanks
    <2>2. \E stage, k : pc' = [pc EXCEPT ![p] = stage] /\ plan' = [plan EXCEPT ![p] = k]
      BY <1>5, Zenon DEF ReadBatch, ReadMissing, ReadTail, ReadEnd, ReadRanks, Goto
    <2> QED BY <1>1, <2>1, <2>2 DEF Aside
  <1>6. ASSUME ReadRow(p) \/ ReadGap(p) PROVE Aside(q)
    <2>1. UNCHANGED <<job, old, done>> /\ (seen' = seen \/ \E n : seen' = [seen EXCEPT ![p] = n])
      BY <1>6 DEF ReadRow, ReadGap
    <2>2. /\ \E stage : pc' = [pc EXCEPT ![p] = stage]
          /\ plan' = plan \/ \E k : plan' = [plan EXCEPT ![p] = k]
      BY <1>6, Zenon DEF ReadRow, ReadGap, Goto
    <2> QED BY <1>1, <2>1, <2>2 DEF Aside
  <1>7. ASSUME WriteBatch(p) \/ MarkReady(p) \/ ImportAgain(p) \/ Repair(p) PROVE Aside(q)
    BY <1>1, <1>7 DEF WriteBatch, MarkReady, ImportAgain, Repair, Goto, Aside
  <1>8. ASSUME Leave(p) PROVE Aside(q)
    BY <1>1, <1>8 DEF Leave, Goto, Aside
  <1>9. Create(p) \/ Move(p) \/ Compact(p) \/ Abandon(p) => Leave(p)
    BY DEF Create, Move, Compact, Abandon
  <1> QED
    BY <1>3, <1>4, <1>5, <1>6, <1>7, <1>8, <1>9 DEF Ensuring, Ordering

\* Places are those of the edges.
LEMMA SamePlaces ==
  ASSUME NEW q \in Processes, edges' = edges, old'[q] = old[q]
  PROVE  \A r : Place(old[q], r)' = Place(old[q], r)
  BY DEF Place, Ahead, Listed

\* What the plans of an import hold, in a step that keeps the edges.
LEMMA BatchStays ==
  ASSUME NEW q \in Processes, Batched(q), Aside(q), edges' = edges
  PROVE  Batched(q)'
  <1>1. \A r : Place(old[q], r)' = Place(old[q], r)
    BY SamePlaces DEF Aside
  <1> QED BY <1>1 DEF Batched, Aside

LEMMA ImportStays ==
  ASSUME NEW q \in Processes, Imported(q), Aside(q), edges' = edges, rank' = rank
  PROVE  Imported(q)'
  <1>1. \A r : Place(old[q], r)' = Place(old[q], r)
    BY SamePlaces DEF Aside
  <1> QED BY <1>1 DEF Imported, Aside

\* A plan fits until the revision moves on: ranks do not change before.
LEMMA FitStays ==
  ASSUME RowOrderInv, [Next]_vars, NEW q \in Processes, Aside(q),
         ~crossed /\ ready /\ seen[q] = revision => Fit(q),
         ~crossed', ready', seen'[q] = revision', revision' \in Nat
  PROVE  Fit(q)'
  <1>1. CASE pc[q] \in Repairing \cup Ensured
    <2>1. ready /\ seen[q] <= revision
      BY <1>1 DEF RowOrderInv, PlanOK
    <2>2. revision <= revision' /\ ~crossed
      BY <2>1, Forward
    <2>3. revision \in Nat /\ seen[q] \in Nat /\ seen[q] = revision'
      BY DEF RowOrderInv, ViewOK, LocalsOK, Aside
    <2>4. revision' = revision /\ seen[q] = revision
      BY <2>1, <2>2, <2>3
    <2>5. rank' = rank
      BY <2>1, <2>4, RanksFollowRevision
    <2>6. Fit(q)
      BY <2>1, <2>2, <2>4
    <2> QED BY <2>5, <2>6 DEF Fit, Beside, Before, Aside
  <1>2. CASE pc[q] \notin Repairing \cup Ensured
    BY <1>2 DEF Fit, Aside, Repairing, Ensured
  <1> QED BY <1>1, <1>2

\* A batch of an import puts every row where all imports of that array do.
LEMMA ImportsAgree ==
  ASSUME OrderInd, NEW p \in Processes, NEW q \in Processes \ {p}, WriteBatch(p), Aside(q),
         ~crossed', ~ready
  PROVE  Imported(q)'
  <1>1. \A r : Place(old[q], r)' = Place(old[q], r)
    BY SamePlaces DEF WriteBatch, page, Aside
  <1>2. ~crossed /\ (pc[q] \in Importing => old[q] = old[p])
    <2>1. crossed' = (\/ crossed \/ ready
                      \/ \E x \in Processes \ {p} : pc[x] \in Importing /\ old[x] # old[p])
      BY DEF WriteBatch
    <2> QED BY <2>1
  <1>3. Imported(q) /\ Batched(p)
    BY <1>2 DEF OrderInd, InStep
  <1>4. rank' = Put(rank, plan[p]) /\ edges' = edges /\ pc[p] = "write"
    BY DEF WriteBatch, page
  <1>5. ASSUME NEW r \in edges, pc[q] \in Importing, Place(old[q], r) < done[q]
        PROVE  r \in DOMAIN rank' /\ rank'[r] = Gap * Place(old[q], r)
    <2>1. r \in DOMAIN rank /\ rank[r] = Gap * Place(old[q], r)
      BY <1>3, <1>5 DEF Imported
    <2>2. r \in DOMAIN plan[p] => plan[p][r] = Gap * Place(old[q], r)
      BY <1>2, <1>3, <1>4, <1>5 DEF Batched
    <2>3. r \in DOMAIN rank' /\ rank'[r] = IF r \in DOMAIN plan[p] THEN plan[p][r] ELSE rank[r]
      BY <1>4, <2>1 DEF Put
    <2> QED BY <2>1, <2>2, <2>3
  <1> QED BY <1>1, <1>3, <1>4, <1>5 DEF Imported, Aside

\* So a step of one process leaves the others in step.
LEMMA OthersInStep ==
  ASSUME OrderInd, [Next]_vars, RowOrderInv', NEW p \in Processes, NEW q \in Processes \ {p},
         Starting(p) \/ Ensuring(p) \/ Ordering(p) \/ Abandon(p)
  PROVE  InStep(q)'
  <1>1. RowOrderInv /\ LocalsOK /\ InStep(q)
    BY DEF OrderInd, RowOrderInv
  <1>2. Aside(q)
    BY <1>1, OthersAside
  <1>3. RequestOK(q)'
    BY <1>1, <1>2 DEF InStep, RequestOK, Aside
  <1>4. ~crossed' /\ ready' /\ seen'[q] = revision' => Fit(q)'
    <2>1. revision' \in Nat
      BY DEF RowOrderInv, ViewOK
    <2> QED BY <1>1, <1>2, <2>1, FitStays DEF InStep
  <1>5. ~ready' => ~ready /\ edges' = edges
    BY <1>1, Forward
  <1>6. ~ready' => Batched(q)'
    BY <1>1, <1>2, <1>5, BatchStays DEF InStep
  <1>7. ASSUME ~crossed', ~ready' PROVE Imported(q)'
    <2>1. ~crossed /\ ~ready /\ edges' = edges /\ Imported(q)
      BY <1>1, <1>5, <1>7, Forward DEF InStep
    <2>2. CASE rank' = rank
      BY <1>2, <2>1, <2>2, ImportStays
    <2>3. ASSUME NEW x \in Processes, WriteBatch(x) PROVE Imported(q)'
      <3>1. CASE x # q
        BY <1>2, <1>7, <2>1, <2>3, <3>1, ImportsAgree
      <3>2. CASE x = q
        <4>1. pc[q] = "write" /\ pc' = [pc EXCEPT ![q] = "import"] /\ pc \in [Processes -> Stages]
          BY <1>1, <2>3, <3>2 DEF WriteBatch, Goto, LocalsOK
        <4>2. pc'[q] # pc[q]
          BY <4>1
        <4> QED BY <1>2, <4>2 DEF Aside
      <3> QED BY <3>1, <3>2
    <2>4. \A x \in Processes : ~Current(x)
      BY <2>1 DEF Current
    <2> QED BY <2>2, <2>3, <2>4, WhoWrites
  <1> QED BY <1>3, <1>4, <1>6, <1>7 DEF InStep

-----------------------------------------------------------------------------
(* The process that makes the step.                                         *)

\* A process that plans nothing is in step.
LEMMA Unplanned ==
  ASSUME NEW p \in Processes, RequestOK(p)',
         pc'[p] \in {"idle", "view", "repair", "place", "look", "aim", "gather"}
  PROVE  InStep(p)'
  BY DEF InStep, Fit, Batched, Imported, Importing

LEMMA SameRequest ==
  ASSUME NEW p \in Processes, RequestOK(p), job'[p] = job[p]
  PROVE  RequestOK(p)'
  BY DEF RequestOK

LEMMA StartInStep ==
  ASSUME OrderInd, NEW p \in Processes, Starting(p)
  PROVE  InStep(p)'
  <1>1. pc \in [Processes -> Stages] /\ DOMAIN job = Processes
    BY DEF OrderInd, RowOrderInv, LocalsOK
  <1>2. ASSUME NEW j, Start(p, j) PROVE pc'[p] = "view" /\ job'[p] = j
    BY <1>1, <1>2 DEF Start, Goto
  <1>3. CASE StartBackfill(p)
    <2>1. pc'[p] = "view" /\ job'[p] = NoJob
      BY <1>2, <1>3 DEF StartBackfill
    <2>2. RequestOK(p)'
      BY <2>1 DEF RequestOK, NoJob, None
    <2> QED BY <2>1, <2>2, Unplanned
  <1>4. ASSUME NEW r \in Rows, StartCreate(p, r) PROVE InStep(p)'
    <2>1. pc'[p] = "view" /\ job'[p] = [NoJob EXCEPT !.kind = "create", !.row = r]
      BY <1>2, <1>4 DEF StartCreate
    <2>2. RequestOK(p)'
      BY <2>1 DEF RequestOK, NoJob, None
    <2> QED BY <2>1, <2>2, Unplanned
  <1>5. ASSUME NEW m \in Moves, StartMove(p, m) PROVE InStep(p)'
    <2>1. /\ pc'[p] = "view"
          /\ job'[p] = [kind |-> "move", row |-> m.row, side |-> m.side, anchor |-> m.anchor,
                        expected |-> revision]
      BY <1>2, <1>5 DEF StartMove
    <2>2. m \in MoveRequest /\ m.anchor # m.row
      BY <1>5, PageRowOrderAssumption DEF StartMove
    <2>3. RequestOK(p)'
      BY <2>1, <2>2 DEF RequestOK, MoveRequest
    <2> QED BY <2>1, <2>3, Unplanned
  <1> QED BY <1>3, <1>4, <1>5 DEF Starting

LEMMA LeaveInStep ==
  ASSUME OrderInd, NEW p \in Processes, Leave(p)
  PROVE  InStep(p)'
  <1>1. pc'[p] = "idle" /\ job'[p] = NoJob
    BY DEF OrderInd, RowOrderInv, LocalsOK, Leave, Goto
  <1>2. RequestOK(p)'
    BY <1>1 DEF RequestOK, NoJob, None
  <1> QED BY <1>1, <1>2, Unplanned

\* The import.
LEMMA ReadViewInStep ==
  ASSUME OrderInd, NEW p \in Processes, ReadView(p)
  PROVE  InStep(p)'
  <1>1. pc \in [Processes -> Stages] /\ old \in [Processes -> LegacyOrders \cup {<<>>}]
        /\ DOMAIN done = Processes
    BY DEF OrderInd, RowOrderInv, LocalsOK
  <1>2. RequestOK(p)'
    BY SameRequest DEF OrderInd, InStep, ReadView
  <1>3. CASE ready
    <2>1. pc'[p] = "repair"
      BY <1>1, <1>3 DEF ReadView, Goto
    <2> QED BY <1>2, <2>1, Unplanned
  <1>4. CASE ~ready
    <2>1. /\ pc'[p] = "import" /\ done'[p] = 0 /\ old'[p] = legacy
          /\ edges' = edges /\ rank' = rank /\ ready' = ready
      BY <1>1, <1>4 DEF ReadView, Goto, page, order
    <2>2. edges \subseteq Rows /\ IsFiniteSet(edges) /\ legacy \in LegacyOrders
      BY DEF OrderInd, RowOrderInv, ViewOK, KeysOK
    <2>3. \A r \in edges : Place(legacy, r) \in Nat
      BY <2>2, PlacesInOrder
    <2>4. \A r : Place(old[p], r)' = Place(legacy, r)
      BY <2>1 DEF Place, Ahead, Listed
    <2>5. Imported(p)'
      BY <2>1, <2>3, <2>4 DEF Imported
    <2> QED BY <1>2, <1>4, <2>1, <2>5 DEF InStep, Batched
  <1> QED BY <1>3, <1>4

LEMMA ReadBatchInStep ==
  ASSUME OrderInd, NEW p \in Processes, ReadBatch(p)
  PROVE  InStep(p)'
  <1> DEFINE rest == {r \in edges : Place(old[p], r) >= done[p]}
             rows == {s \in rest : Place(old[p], s) < done[p] + Batch}
             keys == [r \in rows |-> Gap * Place(old[p], r)]
  <1>1. /\ pc[p] = "import" /\ pc' = [pc EXCEPT ![p] = IF rest = {} THEN "mark" ELSE "write"]
        /\ plan' = [plan EXCEPT ![p] = keys]
        /\ UNCHANGED <<edges, rank, ready, revision, crossed, job, old, done, seen>>
    BY DEF ReadBatch, Goto, page, order
  <1>2. pc \in [Processes -> Stages] /\ DOMAIN plan = Processes /\ done[p] \in Nat
    BY DEF OrderInd, RowOrderInv, LocalsOK
  <1>3. old[p] \in LegacyOrders \cup {<<>>} /\ edges \subseteq Rows /\ IsFiniteSet(edges)
    BY DEF OrderInd, RowOrderInv, ViewOK, LocalsOK, KeysOK
  <1>4. \A r \in edges : Place(old[p], r) \in Nat
    BY <1>3, PlacesInOrder
  <1>5. pc'[p] = (IF rest = {} THEN "mark" ELSE "write") /\ plan'[p] = keys
    BY <1>1, <1>2
  <1>6. \A r : Place(old[p], r)' = Place(old[p], r)
    BY <1>1, SamePlaces
  <1>7. RequestOK(p)'
    BY <1>1, SameRequest DEF OrderInd, InStep
  <1>8. Batched(p)'
    <2>1. \A r \in edges : r \in rows <=> done[p] <= Place(old[p], r) /\ Place(old[p], r) < done[p] + Batch
      BY <1>2, <1>4
    <2>2. DOMAIN keys = rows /\ \A r \in rows : keys[r] = Gap * Place(old[p], r)
      OBVIOUS
    <2> HIDE DEF rows, keys
    <2> QED BY <1>1, <1>5, <1>6, <2>1, <2>2 DEF Batched
  <1>9. ASSUME ~crossed', ~ready' PROVE Imported(p)'
    <2>1. Imported(p) /\ pc[p] \in Importing
      BY <1>1, <1>9 DEF OrderInd, InStep, Importing
    <2>2. rest = {} => \A r \in edges : Place(old[p], r) < done[p]
      BY <1>2, <1>4
    <2> HIDE DEF rest
    <2>3. pc'[p] = "mark" => rest = {}
      BY <1>5
    <2> QED BY <1>1, <1>6, <2>1, <2>2, <2>3 DEF Imported
  <1>10. Fit(p)'
    BY <1>5 DEF Fit
  <1> QED BY <1>7, <1>8, <1>9, <1>10 DEF InStep

LEMMA WriteBatchInStep ==
  ASSUME OrderInd, NEW p \in Processes, WriteBatch(p)
  PROVE  InStep(p)'
  <1>1. /\ pc[p] = "write" /\ pc' = [pc EXCEPT ![p] = "import"] /\ done' = [done EXCEPT ![p] = @ + Batch]
        /\ rank' = Put(rank, plan[p])
        /\ UNCHANGED <<edges, ready, job, old>>
    BY DEF WriteBatch, Goto, page
  <1>2. pc \in [Processes -> Stages] /\ done \in [Processes -> Nat]
    BY DEF OrderInd, RowOrderInv, LocalsOK
  <1>3. old[p] \in LegacyOrders \cup {<<>>} /\ edges \subseteq Rows /\ IsFiniteSet(edges)
    BY DEF OrderInd, RowOrderInv, ViewOK, LocalsOK, KeysOK
  <1>4. \A r \in edges : Place(old[p], r) \in Nat
    BY <1>3, PlacesInOrder
  <1>5. pc'[p] = "import" /\ done'[p] = done[p] + Batch /\ done[p] \in Nat /\ Batch \in Nat
    BY <1>1, <1>2, PageRowOrderAssumption
  <1>6. \A r : Place(old[p], r)' = Place(old[p], r)
    BY <1>1, SamePlaces
  <1>7. RequestOK(p)'
    BY <1>1, SameRequest DEF OrderInd, InStep
  <1>8. ASSUME ~crossed', ~ready' PROVE Imported(p)'
    <2>1. ~crossed
      BY <1>8 DEF WriteBatch
    <2>2. Imported(p) /\ Batched(p) /\ pc[p] \in Importing
      BY <1>1, <1>8, <2>1 DEF OrderInd, InStep, Importing
    <2>3. ASSUME NEW r \in edges, Place(old[p], r) < done[p] + Batch
          PROVE  r \in DOMAIN rank' /\ rank'[r] = Gap * Place(old[p], r)
      <3>1. CASE r \in DOMAIN plan[p]
        BY <1>1, <2>2, <3>1 DEF Put, Batched
      <3>2. CASE r \notin DOMAIN plan[p]
        <4>1. Place(old[p], r) < done[p]
          BY <1>1, <1>4, <1>5, <2>2, <2>3, <3>2 DEF Batched
        <4>2. r \in DOMAIN rank /\ rank[r] = Gap * Place(old[p], r)
          BY <2>2, <4>1 DEF Imported
        <4> QED BY <1>1, <3>2, <4>2 DEF Put
      <3> QED BY <3>1, <3>2
    <2> QED BY <1>1, <1>5, <1>6, <2>3 DEF Imported
  <1> QED BY <1>5, <1>7, <1>8 DEF InStep, Fit, Batched

LEMMA MarkInStep ==
  ASSUME OrderInd, NEW p \in Processes, MarkReady(p) \/ ImportAgain(p)
  PROVE  InStep(p)'
  <1>1. pc'[p] = "view" /\ job' = job
    BY DEF OrderInd, RowOrderInv, LocalsOK, MarkReady, ImportAgain, Goto
  <1>2. RequestOK(p)'
    BY <1>1, SameRequest DEF OrderInd, InStep
  <1> QED BY <1>1, <1>2, Unplanned

\* The repair.
LEMMA ReadMissingInStep ==
  ASSUME OrderInd, NEW p \in Processes, ReadMissing(p)
  PROVE  InStep(p)'
  <1> DEFINE missing == edges \ DOMAIN rank
             first   == {r \in missing : Cardinality({s \in missing : s < r}) < Batch}
             k       == [r \in first |-> 0]
  <1>1. /\ pc' = [pc EXCEPT ![p] = IF missing = {} THEN Task(p) ELSE "tail"]
        /\ plan' = [plan EXCEPT ![p] = k] /\ job' = job /\ rank' = rank
    BY DEF ReadMissing, Goto, order
  <1>2. pc \in [Processes -> Stages] /\ DOMAIN plan = Processes
    BY DEF OrderInd, RowOrderInv, LocalsOK
  <1>3. DOMAIN k \cap DOMAIN rank = {}
    OBVIOUS
  <1> HIDE DEF k
  <1>4. pc'[p] = (IF missing = {} THEN Task(p) ELSE "tail") /\ plan'[p] = k
    BY <1>1, <1>2
  <1>5. RequestOK(p)'
    BY <1>1, SameRequest DEF OrderInd, InStep
  <1>6. CASE pc'[p] = Task(p)
    <2>1. pc'[p] \in {"idle", "place", "look"}
      BY <1>6 DEF Task
    <2> QED BY <1>5, <2>1, Unplanned
  <1>7. CASE pc'[p] = "tail"
    BY <1>1, <1>3, <1>4, <1>5, <1>7 DEF InStep, Fit, Batched, Imported, Importing
  <1> QED BY <1>4, <1>6, <1>7

\* The rows of the view, with their keys.
LEMMA RowsRanked ==
  ASSUME OrderInd
  PROVE  Ranked(rank)
  <1>1. DOMAIN rank \in SUBSET edges /\ edges \subseteq Rows /\ IsFiniteSet(edges)
    BY DEF OrderInd, RowOrderInv, ViewOK, KeysOK
  <1>2. IsFiniteSet(DOMAIN rank)
    BY <1>1, FS_Subset
  <1> QED BY <1>1, <1>2 DEF Ranked, OrderInd, KeysOK

LEMMA ReadTailInStep ==
  ASSUME OrderInd, NEW p \in Processes, ReadTail(p)
  PROVE  InStep(p)'
  <1> DEFINE rows == DOMAIN plan[p]
             k    == [r \in rows |-> TailKey(rank) + Gap * Cardinality({s \in rows : s < r})]
  <1>1. /\ pc[p] = "tail" /\ pc' = [pc EXCEPT ![p] = "fix"]
        /\ plan' = [plan EXCEPT ![p] = k]
        /\ UNCHANGED <<rank, ready, revision, crossed, job, seen>>
    BY DEF ReadTail, Goto, order
  <1>2. pc \in [Processes -> Stages] /\ DOMAIN plan = Processes
    BY DEF OrderInd, RowOrderInv, LocalsOK
  <1>3. IsFiniteSet(rows)
    <2>1. rows \in SUBSET edges /\ IsFiniteSet(edges)
      BY <1>1 DEF OrderInd, RowOrderInv, PlanOK, KeysOK
    <2> QED BY <2>1, FS_Subset
  <1>4. TailKey(rank) \in Int /\ \A s \in DOMAIN rank : rank[s] < TailKey(rank) /\ rank[s] \in Int
    BY RowsRanked, TailIsLast DEF Ranked
  <1>5. ASSUME NEW r \in rows, NEW s \in DOMAIN rank PROVE rank[s] < k[r]
    <2>1. {x \in rows : x < r} \in SUBSET rows
      OBVIOUS
    <2>2. PICK n \in Nat : n = Cardinality({x \in rows : x < r})
      BY <1>3, <2>1, FS_Subset, FS_CardinalityType
    <2>3. Gap * n \in Nat
      BY PageRowOrderAssumption
    <2>4. k[r] = TailKey(rank) + Gap * n
      BY <2>2
    <2> QED BY <1>4, <2>3, <2>4
  <1>6. DOMAIN k = rows
    OBVIOUS
  <1> HIDE DEF k, rows
  <1>7. pc'[p] = "fix" /\ plan'[p] = k
    BY <1>1, <1>2
  <1>8. RequestOK(p)'
    BY <1>1, SameRequest DEF OrderInd, InStep
  <1>9. ASSUME ~crossed', ready', seen'[p] = revision' PROVE Fit(p)'
    <2>1. rows \cap DOMAIN rank = {}
      BY <1>1, <1>9 DEF OrderInd, InStep, Fit, rows
    <2> QED BY <1>1, <1>5, <1>6, <1>7, <2>1 DEF Fit
  <1> QED BY <1>7, <1>8, <1>9 DEF InStep, Batched, Imported, Importing

LEMMA RepairInStep ==
  ASSUME OrderInd, NEW p \in Processes, Repair(p)
  PROVE  InStep(p)'
  <1>1. pc'[p] = "repair" /\ job' = job
    BY DEF OrderInd, RowOrderInv, LocalsOK, Repair, Goto
  <1>2. RequestOK(p)'
    BY <1>1, SameRequest DEF OrderInd, InStep
  <1> QED BY <1>1, <1>2, Unplanned

\* The rest of the reads.
LEMMA ReadEndInStep ==
  ASSUME OrderInd, NEW p \in Processes, ReadEnd(p)
  PROVE  InStep(p)'
  <1> DEFINE k == [r \in {job[p].row} |-> TailKey(rank)]
  <1>1. /\ pc' = [pc EXCEPT ![p] = "create"] /\ plan' = [plan EXCEPT ![p] = k]
        /\ UNCHANGED <<rank, job>>
    BY DEF ReadEnd, Goto, order
  <1>2. pc \in [Processes -> Stages] /\ DOMAIN plan = Processes
    BY DEF OrderInd, RowOrderInv, LocalsOK
  <1>3. \A r \in DOMAIN k, s \in DOMAIN rank : rank[s] < k[r]
    BY RowsRanked, TailIsLast
  <1> HIDE DEF k
  <1>4. pc'[p] = "create" /\ plan'[p] = k
    BY <1>1, <1>2
  <1>5. RequestOK(p)'
    BY <1>1, SameRequest DEF OrderInd, InStep
  <1> QED
    BY <1>1, <1>3, <1>4, <1>5 DEF InStep, Fit, Batched, Imported, Importing

LEMMA ReadRowInStep ==
  ASSUME OrderInd, NEW p \in Processes, ReadRow(p)
  PROVE  InStep(p)'
  <1>1. pc'[p] = "aim" /\ job' = job
    BY DEF OrderInd, RowOrderInv, LocalsOK, ReadRow, Goto
  <1>2. RequestOK(p)'
    BY <1>1, SameRequest DEF OrderInd, InStep
  <1> QED BY <1>1, <1>2, Unplanned

LEMMA ReadRanksInStep ==
  ASSUME OrderInd, NEW p \in Processes, ReadRanks(p)
  PROVE  InStep(p)'
  <1> DEFINE k == [r \in DOMAIN rank |-> Gap * Cardinality({s \in DOMAIN rank : Before(rank, s, r)})]
  <1>1. /\ pc' = [pc EXCEPT ![p] = "compact"] /\ plan' = [plan EXCEPT ![p] = k]
        /\ UNCHANGED <<rank, job>>
    BY DEF ReadRanks, Goto, order
  <1>2. pc \in [Processes -> Stages] /\ DOMAIN plan = Processes
    BY DEF OrderInd, RowOrderInv, LocalsOK
  <1>3. DOMAIN k = DOMAIN rank
    OBVIOUS
  <1> HIDE DEF k
  <1>4. pc'[p] = "compact" /\ plan'[p] = k
    BY <1>1, <1>2
  <1>5. RequestOK(p)'
    BY <1>1, SameRequest DEF OrderInd, InStep
  <1> QED
    BY <1>1, <1>3, <1>4, <1>5 DEF InStep, Fit, Batched, Imported, Importing

\* The gap that a row is moved to.  Its neighbours are rows of the view, and
\* its key an integer.
LEMMA GapIsOfRows ==
  ASSUME Ranked(rank), NEW S \in SUBSET DOMAIN rank, NEW r
  PROVE  /\ LastOf(rank, S) \in DOMAIN rank \cup {None}
         /\ FirstOf(rank, S) \in DOMAIN rank \cup {None}
         /\ Previous(rank, S, r) \in DOMAIN rank \cup {None}
         /\ Following(rank, S, r) \in DOMAIN rank \cup {None}
  <1>1. ASSUME NEW T \in SUBSET DOMAIN rank
        PROVE  LastOf(rank, T) \in DOMAIN rank \cup {None} /\ FirstOf(rank, T) \in DOMAIN rank \cup {None}
    BY <1>1, Neighbours
  <1>2. /\ {s \in S : Before(rank, s, r)} \in SUBSET DOMAIN rank
        /\ {s \in S : Before(rank, r, s)} \in SUBSET DOMAIN rank
    OBVIOUS
  <1>3. Previous(rank, S, r) \in DOMAIN rank \cup {None}
    BY <1>1, <1>2 DEF Previous
  <1>4. Following(rank, S, r) \in DOMAIN rank \cup {None}
    BY <1>1, <1>2 DEF Following
  <1> QED BY <1>1, <1>3, <1>4

LEMMA KeysAreIntegers ==
  ASSUME Ranked(rank), NEW lower \in DOMAIN rank \cup {None}, NEW upper \in DOMAIN rank \cup {None}
  PROVE  KeyIn(lower, upper) \in Int
  <1>1. \A s \in DOMAIN rank : rank[s] \in Int
    BY DEF Ranked
  <1>2. \A x, y \in Int : KeyAfter(x) \in Int /\ KeyBefore(x) \in Int /\ KeyBetween(x, y) \in Int
    <2>1. ASSUME NEW x \in Int, NEW y \in Int
          PROVE  KeyAfter(x) \in Int /\ KeyBefore(x) \in Int /\ KeyBetween(x, y) \in Int
      <3>1. KeyAfter(x) \in Int /\ KeyBefore(x) \in Int
        BY KeysInOrder
      <3>2. (x + y) \div 2 \in Int
        OBVIOUS
      <3> QED BY <3>1, <3>2 DEF KeyBetween
    <2> QED BY <2>1
  <1>3. lower # None => rank[lower] \in Int
    BY <1>1
  <1>4. upper # None => rank[upper] \in Int
    BY <1>1
  <1>5. CASE lower = None /\ upper = None
    BY <1>5 DEF KeyIn
  <1>6. CASE lower = None /\ upper # None
    <2>1. KeyIn(lower, upper) = KeyBefore(rank[upper])
      BY <1>6 DEF KeyIn
    <2> QED BY <1>2, <1>4, <1>6, <2>1
  <1>7. CASE lower # None /\ upper = None
    <2>1. KeyIn(lower, upper) = KeyAfter(rank[lower])
      BY <1>7 DEF KeyIn
    <2> QED BY <1>2, <1>3, <1>7, <2>1
  <1>8. CASE lower # None /\ upper # None
    <2>1. KeyIn(lower, upper) = KeyBetween(rank[lower], rank[upper])
      BY <1>8 DEF KeyIn
    <2> QED BY <1>2, <1>3, <1>4, <1>8, <2>1
  <1> QED BY <1>5, <1>6, <1>7, <1>8

LEMMA EndsAreOfRows ==
  ASSUME Ranked(rank), NEW j, NEW others \in SUBSET DOMAIN rank, NEW group \in SUBSET others,
         j.anchor \in DOMAIN rank \cup {None}
  PROVE  /\ Lower(j, others, group) \in DOMAIN rank \cup {None}
         /\ Upper(j, others, group) \in DOMAIN rank \cup {None}
  <1>1. \A T \in SUBSET DOMAIN rank : \A r :
            /\ LastOf(rank, T) \in DOMAIN rank \cup {None}
            /\ FirstOf(rank, T) \in DOMAIN rank \cup {None}
            /\ Previous(rank, T, r) \in DOMAIN rank \cup {None}
            /\ Following(rank, T, r) \in DOMAIN rank \cup {None}
    BY GapIsOfRows
  <1>2. group \in SUBSET DOMAIN rank
    OBVIOUS
  <1>3. Lower(j, others, group) \in DOMAIN rank \cup {None}
    <2>1. CASE j.side = "after"
      BY <2>1 DEF Lower
    <2>2. CASE j.side = "before"
      BY <1>1, <2>2 DEF Lower
    <2>3. CASE j.side = "end"
      BY <1>1, <1>2, <2>3 DEF Lower
    <2>4. CASE j.side \notin {"after", "before", "end"}
      <3>1. Lower(j, others, group) =
              IF group # {} THEN Previous(rank, others, FirstOf(rank, group))
              ELSE IF Board THEN LastOf(rank, others) ELSE None
        BY <2>4 DEF Lower
      <3> QED BY <1>1, <3>1
    <2> QED BY <2>1, <2>2, <2>3, <2>4
  <1>4. \/ Upper(j, others, group) = j.anchor
        \/ Upper(j, others, group) = FirstOf(rank, group)
        \/ Upper(j, others, group) = None
        \/ Upper(j, others, group) = Following(rank, others, Lower(j, others, group))
    BY DEF Upper
  <1>5. Upper(j, others, group) \in DOMAIN rank \cup {None}
    BY <1>1, <1>2, <1>4
  <1> QED BY <1>3, <1>5

\* The key for the place after a row is above its key, and below those of all
\* rows behind it.
LEMMA KeyBehind ==
  ASSUME Ranked(rank), NEW others \in SUBSET DOMAIN rank, NEW a \in others, NEW upper,
         upper = Following(rank, others, a), ~Crowded(a, upper)
  PROVE  /\ KeyIn(a, upper) \in Int /\ rank[a] < KeyIn(a, upper)
         /\ \A s \in others : Before(rank, a, s) => KeyIn(a, upper) < rank[s]
  <1> DEFINE S == {s \in others : Before(rank, a, s)}
  <1>1. S \in SUBSET DOMAIN rank /\ upper = FirstOf(rank, S)
    BY DEF Following
  <1>2. \A s \in DOMAIN rank : rank[s] \in Int /\ s # None
    BY PageRowOrderAssumption DEF Ranked, None
  <1>3. CASE S = {}
    <2>1. upper = None
      BY <1>1, <1>3, Neighbours
    <2>2. KeyIn(a, upper) = KeyAfter(rank[a])
      BY <1>2, <2>1 DEF KeyIn
    <2>3. KeyAfter(rank[a]) \in Int /\ rank[a] < KeyAfter(rank[a])
      BY <1>2, KeysInOrder
    <2> QED BY <1>3, <2>2, <2>3
  <1>4. CASE S # {}
    <2>1. upper \in S /\ \A s \in S \ {upper} : Before(rank, upper, s)
      BY <1>1, <1>4, Neighbours
    <2>2. upper \in DOMAIN rank /\ Before(rank, a, upper)
      BY <2>1
    <2>3. rank[a] # rank[upper] /\ KeyBetween(rank[a], rank[upper]) # rank[a]
      BY <1>2, <2>2 DEF Crowded
    <2>4. rank[a] < rank[upper] /\ rank[a] \in Int /\ rank[upper] \in Int
      BY <1>2, <2>2, <2>3 DEF Before
    <2>5. /\ KeyBetween(rank[a], rank[upper]) \in Int
          /\ rank[a] < KeyBetween(rank[a], rank[upper]) /\ KeyBetween(rank[a], rank[upper]) < rank[upper]
      BY <2>3, <2>4, KeyInGap
    <2>6. KeyIn(a, upper) = KeyBetween(rank[a], rank[upper])
      BY <1>2, <2>2 DEF KeyIn
    <2>7. \A s \in S : rank[upper] <= rank[s]
      BY <1>2, <2>1, <2>2 DEF Before
    <2> QED BY <1>2, <2>4, <2>5, <2>6, <2>7
  <1> QED BY <1>3, <1>4

\* And the same for the place before a row.
LEMMA KeyInFront ==
  ASSUME Ranked(rank), NEW others \in SUBSET DOMAIN rank, NEW a \in others, NEW lower,
         lower = Previous(rank, others, a), ~Crowded(lower, a)
  PROVE  /\ KeyIn(lower, a) \in Int /\ KeyIn(lower, a) < rank[a]
         /\ \A s \in others : Before(rank, s, a) => rank[s] < KeyIn(lower, a)
  <1> DEFINE S == {s \in others : Before(rank, s, a)}
  <1>1. S \in SUBSET DOMAIN rank /\ lower = LastOf(rank, S)
    BY DEF Previous
  <1>2. \A s \in DOMAIN rank : rank[s] \in Int /\ s # None
    BY PageRowOrderAssumption DEF Ranked, None
  <1>3. CASE S = {}
    <2>1. lower = None
      BY <1>1, <1>3, Neighbours
    <2>2. KeyIn(lower, a) = KeyBefore(rank[a])
      BY <1>2, <2>1 DEF KeyIn
    <2>3. KeyBefore(rank[a]) \in Int /\ KeyBefore(rank[a]) < rank[a]
      BY <1>2, KeysInOrder
    <2> QED BY <1>3, <2>2, <2>3
  <1>4. CASE S # {}
    <2>1. lower \in S /\ \A s \in S \ {lower} : Before(rank, s, lower)
      BY <1>1, <1>4, Neighbours
    <2>2. lower \in DOMAIN rank /\ Before(rank, lower, a)
      BY <2>1
    <2>3. rank[lower] # rank[a] /\ KeyBetween(rank[lower], rank[a]) # rank[lower]
      BY <1>2, <2>2 DEF Crowded
    <2>4. rank[lower] < rank[a] /\ rank[lower] \in Int /\ rank[a] \in Int
      BY <1>2, <2>2, <2>3 DEF Before
    <2>5. /\ KeyBetween(rank[lower], rank[a]) \in Int
          /\ rank[lower] < KeyBetween(rank[lower], rank[a]) /\ KeyBetween(rank[lower], rank[a]) < rank[a]
      BY <2>3, <2>4, KeyInGap
    <2>6. KeyIn(lower, a) = KeyBetween(rank[lower], rank[a])
      BY <1>2, <2>2 DEF KeyIn
    <2>7. \A s \in S : rank[s] <= rank[lower]
      BY <1>2, <2>1, <2>2 DEF Before
    <2> QED BY <1>2, <2>4, <2>5, <2>6, <2>7
  <1> QED BY <1>3, <1>4

\* What the last read of a move plans, or that it found no room.
LEMMA GapRead ==
  ASSUME NEW p \in Processes, ReadGap(p)
  PROVE  \E group \in SUBSET (DOMAIN rank \ {job[p].row}) : \E lower, upper :
           /\ lower = Lower(job[p], DOMAIN rank \ {job[p].row}, group)
           /\ upper = Upper(job[p], DOMAIN rank \ {job[p].row}, group)
           /\ \/ pc' = [pc EXCEPT ![p] = "gather"] /\ plan' = plan
              \/ /\ ~Crowded(lower, upper) /\ pc' = [pc EXCEPT ![p] = "move"]
                 /\ plan' = [plan EXCEPT ![p] =
                       [r \in {job[p].row} \cup ({job[p].anchor} \ {None}) |->
                          IF r = job[p].row THEN KeyIn(lower, upper) ELSE rank[r]]]
  <1> DEFINE j      == job[p]
             others == DOMAIN rank \ {j.row}
             keys(l, u) == [r \in {j.row} \cup ({j.anchor} \ {None}) |->
                              IF r = j.row THEN KeyIn(l, u) ELSE rank[r]]
  <1>1. PICK group \in IF Board THEN SUBSET (others \cap live) ELSE {others \cap live} :
           IF Crowded(Lower(j, others, group), Upper(j, others, group))
           THEN Goto(p, "gather") /\ UNCHANGED plan
           ELSE /\ Goto(p, "move")
                /\ plan' = [plan EXCEPT ![p] =
                      keys(Lower(j, others, group), Upper(j, others, group))]
    BY DEF ReadGap
  <1>2. group \in SUBSET others
    BY <1>1
  <1>3. PICK lower : lower = Lower(j, others, group)
    OBVIOUS
  <1>4. PICK upper : upper = Upper(j, others, group)
    OBVIOUS
  <1>5. \/ pc' = [pc EXCEPT ![p] = "gather"] /\ plan' = plan
        \/ /\ ~Crowded(lower, upper) /\ pc' = [pc EXCEPT ![p] = "move"]
           /\ plan' = [plan EXCEPT ![p] = keys(lower, upper)]
    BY <1>1, <1>3, <1>4 DEF Goto
  <1> QED BY <1>2, <1>3, <1>4, <1>5

LEMMA ReadGapInStep ==
  ASSUME OrderInd, NEW p \in Processes, ReadGap(p)
  PROVE  InStep(p)'
  <1> DEFINE others == DOMAIN rank \ {job[p].row}
             keys(l, u) == [r \in {job[p].row} \cup ({job[p].anchor} \ {None}) |->
                              IF r = job[p].row THEN KeyIn(l, u) ELSE rank[r]]
  <1>1. /\ job[p].anchor # None => job[p].anchor \in live \cap DOMAIN rank
        /\ UNCHANGED <<rank, job>>
    BY DEF ReadGap, order
  <1>2. pc \in [Processes -> Stages] /\ DOMAIN plan = Processes
    BY DEF OrderInd, RowOrderInv, LocalsOK
  <1>3. RequestOK(p) /\ RequestOK(p)'
    BY <1>1, SameRequest DEF OrderInd, InStep
  <1>4. PICK group \in SUBSET others : \E lower, upper :
           /\ lower = Lower(job[p], others, group)
           /\ upper = Upper(job[p], others, group)
           /\ \/ pc' = [pc EXCEPT ![p] = "gather"] /\ plan' = plan
              \/ /\ ~Crowded(lower, upper) /\ pc' = [pc EXCEPT ![p] = "move"]
                 /\ plan' = [plan EXCEPT ![p] = keys(lower, upper)]
    BY GapRead
  <1>5. PICK lower, upper :
           /\ lower = Lower(job[p], others, group)
           /\ upper = Upper(job[p], others, group)
           /\ \/ pc' = [pc EXCEPT ![p] = "gather"] /\ plan' = plan
              \/ /\ ~Crowded(lower, upper) /\ pc' = [pc EXCEPT ![p] = "move"]
                 /\ plan' = [plan EXCEPT ![p] = keys(lower, upper)]
    BY <1>4
  <1>6. CASE pc' = [pc EXCEPT ![p] = "gather"]
    <2>1. pc'[p] = "gather"
      BY <1>2, <1>6
    <2> QED BY <1>3, <2>1, Unplanned
  <1>7. ASSUME ~Crowded(lower, upper), pc' = [pc EXCEPT ![p] = "move"],
               plan' = [plan EXCEPT ![p] = keys(lower, upper)]
        PROVE  InStep(p)'
    <2>1. pc'[p] = "move" /\ plan'[p] = keys(lower, upper)
      BY <1>2, <1>7
    <2>2. ASSUME job[p].anchor # None
          PROVE  Beside(p)'
      <3> DEFINE a == job[p].anchor
                 r == job[p].row
      <3>1. a \in others /\ a # r /\ a \in DOMAIN rank
        BY <1>1, <1>3, <2>2 DEF RequestOK
      <3>2. plan'[p][r] = KeyIn(lower, upper) /\ plan'[p][a] = rank[a]
        BY <2>1, <2>2, <3>1
      <3>3. CASE job[p].side = "before"
        <4>1. upper = a /\ lower = Previous(rank, others, a)
          BY <1>5, <3>3 DEF Upper, Lower
        <4>2. /\ KeyIn(lower, upper) < rank[a]
              /\ \A s \in others : Before(rank, s, a) => rank[s] < KeyIn(lower, upper)
          BY <1>7, <3>1, <4>1, RowsRanked, KeyInFront
        <4> QED BY <1>1, <3>1, <3>2, <3>3, <4>2 DEF Beside, Before
      <3>4. CASE job[p].side # "before"
        <4>1. job[p].side = "after"
          <5>1. job[p].side \in Sides
            BY DEF OrderInd, RowOrderInv, LocalsOK, Job
          <5> QED BY <1>3, <2>2, <3>4, <5>1 DEF RequestOK, Sides
        <4>2. lower = a
          BY <1>5, <4>1 DEF Lower
        <4>3. upper = Following(rank, others, a)
          BY <1>5, <2>2, <4>1, <4>2 DEF Upper
        <4>4. /\ rank[a] < KeyIn(lower, upper)
              /\ \A s \in others : Before(rank, a, s) => KeyIn(lower, upper) < rank[s]
          BY <1>7, <3>1, <4>2, <4>3, RowsRanked, KeyBehind
        <4> QED BY <1>1, <3>1, <3>2, <3>4, <4>4 DEF Beside, Before
      <3> QED BY <3>3, <3>4
    <2>3. Beside(p)'
      BY <1>1, <2>2 DEF Beside
    <2> QED BY <1>3, <2>1, <2>3 DEF InStep, Fit, Batched, Imported, Importing
  <1> QED BY <1>5, <1>6, <1>7

\* Keys stay integers, and edges finite.
LEMMA KeysStay ==
  ASSUME OrderInd, [Next]_vars
  PROVE  KeysOK'
  <1>1. RowOrderInv /\ LocalsOK /\ KeysOK /\ Ranked(rank)
    BY RowsRanked DEF OrderInd, RowOrderInv
  <1>2. IsFiniteSet(edges')
    <2>1. \A x : IsFiniteSet(edges \cup {x})
      BY <1>1, FS_AddElement DEF KeysOK
    <2> QED BY <1>1, <2>1, Forward DEF KeysOK
  <1>3. \A r \in DOMAIN rank' : rank'[r] \in Int
    <2>1. rank' = rank \/ \E p \in Processes : rank' = Put(rank, plan[p])
      BY WhoWrites DEF WriteBatch
    <2>2. ASSUME NEW p \in Processes, rank' = Put(rank, plan[p])
          PROVE  \A r \in DOMAIN rank' : rank'[r] \in Int
      BY <1>1, <2>2 DEF Put, KeysOK
    <2> QED BY <1>1, <2>1, <2>2 DEF KeysOK
  <1>4. ASSUME NEW p \in Processes, NEW k, plan' = [plan EXCEPT ![p] = k],
               \A r \in DOMAIN k : k[r] \in Int
        PROVE  \A q \in Processes : \A r \in DOMAIN plan'[q] : plan'[q][r] \in Int
    <2>1. DOMAIN plan = Processes
      BY <1>1 DEF LocalsOK
    <2>2. ASSUME NEW q \in Processes PROVE plan'[q] = IF q = p THEN k ELSE plan[q]
      BY <1>4, <2>1
    <2> QED BY <1>1, <1>4, <2>2 DEF KeysOK
  <1>5. ASSUME plan' = plan
        PROVE  \A q \in Processes : \A r \in DOMAIN plan'[q] : plan'[q][r] \in Int
    BY <1>1, <1>5 DEF KeysOK
  <1> DEFINE Plans == \A q \in Processes : \A r \in DOMAIN plan'[q] : plan'[q][r] \in Int
  <1>6. ASSUME NEW p \in Processes, plan' = [plan EXCEPT ![p] = Empty] PROVE Plans
    <2>1. \A r \in DOMAIN Empty : Empty[r] \in Int
      BY DEF Empty
    <2> QED BY <1>4, <1>6, <2>1
  <1>7. ASSUME NEW p \in Processes, ReadBatch(p) PROVE Plans
    <2> DEFINE rest == {r \in edges : Place(old[p], r) >= done[p]}
               rows == {s \in rest : Place(old[p], s) < done[p] + Batch}
               k    == [r \in rows |-> Gap * Place(old[p], r)]
    <2>1. plan' = [plan EXCEPT ![p] = k]
      BY <1>7 DEF ReadBatch
    <2>2. old[p] \in LegacyOrders \cup {<<>>} /\ edges \subseteq Rows /\ IsFiniteSet(edges)
      BY <1>1 DEF RowOrderInv, ViewOK, LocalsOK, KeysOK
    <2>3. \A r \in edges : Place(old[p], r) \in Nat
      BY <2>2, PlacesInOrder
    <2>4. \A n \in Nat : Gap * n \in Int
      BY PageRowOrderAssumption
    <2>5. \A r \in DOMAIN k : k[r] \in Int
      BY <2>3, <2>4
    <2> HIDE DEF k
    <2> QED BY <1>4, <2>1, <2>5
  <1>8. ASSUME NEW p \in Processes, ReadMissing(p) PROVE Plans
    <2>1. PICK S : plan' = [plan EXCEPT ![p] = [r \in S |-> 0]]
      BY <1>8 DEF ReadMissing
    <2>2. PICK k : k = [r \in S |-> 0]
      OBVIOUS
    <2>3. \A r \in DOMAIN k : k[r] \in Int
      BY <2>2
    <2> QED BY <1>4, <2>1, <2>2, <2>3
  <1>9. ASSUME NEW p \in Processes, ReadTail(p) PROVE Plans
    <2> DEFINE rows == DOMAIN plan[p]
               k    == [r \in rows |-> TailKey(rank) + Gap * Cardinality({s \in rows : s < r})]
    <2>1. plan' = [plan EXCEPT ![p] = k]
      BY <1>9 DEF ReadTail
    <2>2. rows \in SUBSET edges /\ IsFiniteSet(edges)
      BY <1>1, <1>9 DEF RowOrderInv, PlanOK, KeysOK, ReadTail
    <2>3. \A T \in SUBSET rows : Cardinality(T) \in Nat
      BY <2>2, FS_Subset, FS_CardinalityType
    <2>4. \A n \in Nat : TailKey(rank) + Gap * n \in Int
      BY <1>1, TailIsLast, PageRowOrderAssumption
    <2>5. \A r \in rows : {s \in rows : s < r} \in SUBSET rows
      OBVIOUS
    <2>6. \A r \in DOMAIN k : k[r] \in Int
      BY <2>3, <2>4, <2>5
    <2> HIDE DEF k
    <2> QED BY <1>4, <2>1, <2>6
  <1>10. ASSUME NEW p \in Processes, ReadEnd(p) PROVE Plans
    <2> DEFINE k == [r \in {job[p].row} |-> TailKey(rank)]
    <2>1. plan' = [plan EXCEPT ![p] = k]
      BY <1>10 DEF ReadEnd
    <2>2. \A r \in DOMAIN k : k[r] \in Int
      BY <1>1, TailIsLast
    <2> HIDE DEF k
    <2> QED BY <1>4, <2>1, <2>2
  <1>11. ASSUME NEW p \in Processes, ReadRanks(p) PROVE Plans
    <2> DEFINE k == [r \in DOMAIN rank |-> Gap * Cardinality({s \in DOMAIN rank : Before(rank, s, r)})]
    <2>1. plan' = [plan EXCEPT ![p] = k]
      BY <1>11 DEF ReadRanks
    <2>2. \A T \in SUBSET DOMAIN rank : Cardinality(T) \in Nat
      BY <1>1, FS_Subset, FS_CardinalityType DEF Ranked
    <2>3. \A n \in Nat : Gap * n \in Int
      BY PageRowOrderAssumption
    <2>4. \A r : {s \in DOMAIN rank : Before(rank, s, r)} \in SUBSET DOMAIN rank
      OBVIOUS
    <2>5. \A r \in DOMAIN k : k[r] \in Int
      BY <2>2, <2>3, <2>4
    <2> HIDE DEF k
    <2> QED BY <1>4, <2>1, <2>5
  <1>12. ASSUME NEW p \in Processes, ReadGap(p) PROVE Plans
    <2> DEFINE others == DOMAIN rank \ {job[p].row}
               keys(l, u) == [r \in {job[p].row} \cup ({job[p].anchor} \ {None}) |->
                                IF r = job[p].row THEN KeyIn(l, u) ELSE rank[r]]
    <2>0. PICK group \in SUBSET others : \E lower, upper :
             /\ lower = Lower(job[p], others, group)
             /\ upper = Upper(job[p], others, group)
             /\ \/ pc' = [pc EXCEPT ![p] = "gather"] /\ plan' = plan
                \/ /\ ~Crowded(lower, upper) /\ pc' = [pc EXCEPT ![p] = "move"]
                   /\ plan' = [plan EXCEPT ![p] = keys(lower, upper)]
      BY <1>12, GapRead
    <2>1. PICK lower, upper :
             /\ lower = Lower(job[p], others, group)
             /\ upper = Upper(job[p], others, group)
             /\ plan' = plan \/ plan' = [plan EXCEPT ![p] = keys(lower, upper)]
      BY <2>0
    <2>2. job[p].anchor \in DOMAIN rank \cup {None}
      BY <1>12 DEF ReadGap
    <2>3. lower \in DOMAIN rank \cup {None} /\ upper \in DOMAIN rank \cup {None}
      BY <1>1, <2>1, <2>2, EndsAreOfRows
    <2>4. KeyIn(lower, upper) \in Int
      BY <1>1, <2>3, KeysAreIntegers
    <2>5. PICK k : k = keys(lower, upper)
      OBVIOUS
    <2>6. \A r \in DOMAIN k : k[r] \in Int
      BY <1>1, <2>2, <2>4, <2>5 DEF Ranked
    <2> HIDE DEF keys
    <2>7. CASE plan' = plan
      BY <1>5, <2>7
    <2>8. CASE plan' = [plan EXCEPT ![p] = k]
      BY <1>4, <2>6, <2>8
    <2> QED BY <2>1, <2>5, <2>7, <2>8
  <1>13. ASSUME NEW p \in Processes,
                \/ WriteBatch(p) \/ Repair(p) \/ Create(p) \/ Move(p) \/ Compact(p) \/ Abandon(p)
         PROVE  Plans
    <2>1. plan' = [plan EXCEPT ![p] = Empty]
      BY <1>13 DEF WriteBatch, Repair, Create, Move, Compact, Abandon, Leave
    <2> QED BY <1>6, <2>1
  <1>14. ASSUME NEW p \in Processes,
                \/ StartBackfill(p) \/ \E r \in Rows : StartCreate(p, r)
                \/ \E m \in Moves : StartMove(p, m)
                \/ ReadView(p) \/ MarkReady(p) \/ ImportAgain(p) \/ ReadRow(p)
         PROVE  Plans
    <2>1. plan' = plan
      BY <1>14 DEF StartBackfill, StartCreate, StartMove, Start, ReadView, MarkReady, ImportAgain, ReadRow
    <2> QED BY <1>5, <2>1
  <1>15. ASSUME UNCHANGED vars \/ PatchLegacyOrder \/ \E r \in Rows : DeleteOrRestore(r)
         PROVE  Plans
    <2>1. plan' = plan
      BY <1>15 DEF vars, local, PatchLegacyOrder, DeleteOrRestore
    <2> QED BY <1>5, <2>1
  <1> HIDE DEF Plans
  <1>16. Plans
    BY <1>7, <1>8, <1>9, <1>10, <1>11, <1>12, <1>13, <1>14, <1>15, Steps
  <1> QED BY <1>2, <1>3, <1>16 DEF KeysOK, Plans

\* What is planned stays in step with the view.
LEMMA InductiveInStep == OrderInd /\ [Next]_vars => OrderInd'
<1> SUFFICES ASSUME OrderInd, [Next]_vars PROVE OrderInd'
  OBVIOUS
<1>1. RowOrderInv' /\ KeysOK'
  BY Inductive, KeysStay DEF OrderInd
<1>2. ASSUME NEW p \in Processes, Starting(p) \/ Ensuring(p) \/ Ordering(p) \/ Abandon(p)
      PROVE  InStep(p)'
  <2>1. Create(p) \/ Move(p) \/ Compact(p) \/ Abandon(p) => Leave(p)
    BY DEF Create, Move, Compact, Abandon
  <2> QED
    BY <1>2, <2>1, StartInStep, ReadViewInStep, ReadBatchInStep, WriteBatchInStep, MarkInStep,
       ReadMissingInStep, ReadTailInStep, RepairInStep, ReadEndInStep, ReadRowInStep,
       ReadGapInStep, ReadRanksInStep, LeaveInStep DEF Ensuring, Ordering
<1>3. ASSUME NEW p \in Processes, Starting(p) \/ Ensuring(p) \/ Ordering(p) \/ Abandon(p),
             NEW q \in Processes
      PROVE  InStep(q)'
  <2>1. CASE q = p
    BY <1>2, <1>3, <2>1
  <2>2. CASE q # p
    BY <1>1, <1>3, <2>2, OthersInStep
  <2> QED BY <2>1, <2>2
<1>4. ASSUME UNCHANGED vars \/ PatchLegacyOrder \/ \E r \in Rows : DeleteOrRestore(r),
             NEW q \in Processes
      PROVE  InStep(q)'
  <2>1. /\ Aside(q) /\ rank' = rank /\ edges' = edges /\ crossed' = crossed
        /\ ready' = ready /\ revision' = revision
    BY <1>4 DEF vars, page, order, local, PatchLegacyOrder, DeleteOrRestore, Aside
  <2>2. InStep(q) /\ RowOrderInv
    BY DEF OrderInd
  <2>3. RequestOK(q)'
    BY <2>1, <2>2 DEF InStep, RequestOK, Aside
  <2>4. ~crossed' /\ ready' /\ seen'[q] = revision' => Fit(q)'
    <3>1. revision' \in Nat
      BY <1>1 DEF RowOrderInv, ViewOK
    <3> QED BY <2>1, <2>2, <3>1, FitStays DEF InStep
  <2>5. ~ready' => Batched(q)'
    BY <2>1, <2>2, BatchStays DEF InStep
  <2>6. ~crossed' /\ ~ready' => Imported(q)'
    BY <2>1, <2>2, ImportStays DEF InStep
  <2> QED BY <2>3, <2>4, <2>5, <2>6 DEF InStep
<1>5. \A q \in Processes : InStep(q)'
  BY <1>3, <1>4 DEF Next
<1> QED BY <1>1, <1>5 DEF OrderInd

\* Plans stay in step with the view whose revision they were made for, and
\* imports with their array, for any number of processes.
THEOREM PlansFit == Spec => []OrderInd
  BY InitiallyInStep, InductiveInStep, PTL DEF Spec

-----------------------------------------------------------------------------
(* What plans in step are good for.                                         *)

\* Rows join a ready view behind all others.
LEMMA JoinBehind ==
  ASSUME OrderInd, [Next]_vars, ready, ~crossed'
  PROVE  \A r \in DOMAIN rank' \ DOMAIN rank, s \in DOMAIN rank : rank'[s] < rank'[r]
  <1>1. RowOrderInv /\ ~crossed
    BY Forward DEF OrderInd
  <1>2. CASE rank' = rank
    BY <1>2
  <1>3. ASSUME NEW p \in Processes, WriteBatch(p) PROVE FALSE
    BY <1>3 DEF WriteBatch
  <1>4. ASSUME NEW p \in Processes, Current(p), rank' = Put(rank, plan[p]),
               Repair(p) \/ Create(p) \/ Move(p) \/ Compact(p)
        PROVE  \A r \in DOMAIN rank' \ DOMAIN rank, s \in DOMAIN rank : rank'[s] < rank'[r]
    <2>1. Fit(p)
      BY <1>1, <1>4 DEF OrderInd, InStep, Current
    <2>2. DOMAIN rank' = DOMAIN rank \cup DOMAIN plan[p]
      BY <1>4, PutRows
    <2>3. \A r \in DOMAIN rank' : rank'[r] = IF r \in DOMAIN plan[p] THEN plan[p][r] ELSE rank[r]
      BY <1>4 DEF Put
    <2>4. CASE Repair(p)
      <3>1. /\ DOMAIN plan[p] \cap DOMAIN rank = {}
            /\ \A r \in DOMAIN plan[p], s \in DOMAIN rank : rank[s] < plan[p][r]
        BY <2>1, <2>4 DEF Fit, Repair
      <3> QED BY <2>2, <2>3, <3>1
    <2>5. CASE Create(p)
      <3>1. DOMAIN plan[p] = {job[p].row} /\ job[p].row \notin DOMAIN rank
        BY <1>1, <2>5 DEF RowOrderInv, ViewOK, PlanOK, Create
      <3>2. \A r \in DOMAIN plan[p], s \in DOMAIN rank : rank[s] < plan[p][r]
        BY <2>1, <2>5 DEF Fit, Create
      <3> QED BY <2>2, <2>3, <3>1, <3>2
    <2>6. CASE Move(p)
      <3>1. DOMAIN plan[p] = {job[p].row} \cup ({job[p].anchor} \ {None}) /\ job[p].row \in DOMAIN rank
        BY <1>1, <2>6 DEF RowOrderInv, PlanOK, Move
      <3>2. job[p].anchor # None => job[p].anchor \in DOMAIN rank
        BY <2>1, <2>6 DEF Fit, Beside, Move
      <3>3. DOMAIN plan[p] \subseteq DOMAIN rank
        BY <3>1, <3>2
      <3> QED BY <2>2, <3>3
    <2>7. CASE Compact(p)
      <3>1. DOMAIN plan[p] \subseteq DOMAIN rank
        BY <2>1, <2>7 DEF Fit, Compact
      <3> QED BY <2>2, <3>1
    <2> QED BY <1>4, <2>4, <2>5, <2>6, <2>7
  <1> QED BY <1>2, <1>3, <1>4, WhoWrites

\* A row created by any process, or found without a rank by any other, goes to
\* the end of the view, whatever the rest do between the read of the tail and
\* the write.
THEOREM RowsJoinLast == Spec => NewRowsLast
<1>1. OrderInd /\ [Next]_vars =>
        [ready /\ ~crossed' =>
           \A r \in DOMAIN rank' \ DOMAIN rank, s \in DOMAIN rank : rank'[s] < rank'[r]]_vars
  BY JoinBehind
<1> QED BY <1>1, PlansFit, PTL DEF Spec, NewRowsLast

\* The order a move leaves behind.
LEMMA LandBeside ==
  ASSUME OrderInd, NEW p \in Processes, Move(p), job[p].anchor # None, ~crossed
  PROVE  LET r == job[p].row
             a == job[p].anchor
             Between(x, y) == {s \in DOMAIN rank' : Before(rank', x, s) /\ Before(rank', s, y)}
         IN  IF job[p].side = "before"
             THEN Before(rank', r, a) /\ Between(r, a) = {}
             ELSE Before(rank', a, r) /\ Between(a, r) = {}
  <1> DEFINE r == job[p].row
             a == job[p].anchor
             new == plan[p][r]
  <1>1. Beside(p)
    BY DEF OrderInd, InStep, Fit, Move, Current
  <1>2. /\ r # a /\ a \in DOMAIN rank /\ plan[p][a] = rank[a]
        /\ IF job[p].side = "before"
           THEN /\ new < rank[a]
                /\ \A s \in DOMAIN rank \ {r} : Before(rank, s, a) => rank[s] < new
           ELSE /\ rank[a] < new
                /\ \A s \in DOMAIN rank \ {r} : Before(rank, a, s) => new < rank[s]
    BY <1>1 DEF Beside
  <1>3. DOMAIN plan[p] = {r, a} /\ r \in DOMAIN rank
    <2>1. DOMAIN plan[p] = {r} \cup ({a} \ {None})
      BY DEF OrderInd, RowOrderInv, PlanOK, Move
    <2> QED BY <2>1 DEF Move
  <1>4. rank' = Put(rank, plan[p])
    BY DEF Move
  <1>5. DOMAIN rank' = DOMAIN rank
    <2>1. DOMAIN rank' = DOMAIN rank \cup DOMAIN plan[p]
      BY <1>4, PutRows
    <2> QED BY <1>2, <1>3, <2>1
  <1>6. rank'[r] = new /\ \A s \in DOMAIN rank \ {r} : rank'[s] = rank[s]
    BY <1>2, <1>3, <1>4 DEF Put
  <1>7. new \in Int /\ \A s \in DOMAIN rank : rank[s] \in Int
    BY <1>3 DEF OrderInd, KeysOK
  <1>8. \A s \in DOMAIN rank : s \in Nat
    BY PageRowOrderAssumption DEF OrderInd, RowOrderInv, ViewOK
  <1> HIDE DEF new
  <1>9. CASE job[p].side = "before"
    <2>1. Before(rank', r, a)
      BY <1>2, <1>6, <1>9 DEF Before
    <2>2. ASSUME NEW s \in DOMAIN rank, Before(rank', r, s), Before(rank', s, a) PROVE FALSE
      <3>1. s # r
        BY <1>3, <1>6, <1>7, <1>8, <2>2 DEF Before
      <3>2. Before(rank, s, a)
        BY <1>2, <1>6, <2>2, <3>1 DEF Before
      <3>3. rank[s] < new
        BY <1>2, <1>9, <3>1, <3>2
      <3>4. new <= rank[s]
        BY <1>6, <1>7, <2>2, <3>1 DEF Before
      <3> QED BY <1>7, <3>3, <3>4
    <2> QED BY <1>5, <1>9, <2>1, <2>2
  <1>10. CASE job[p].side # "before"
    <2>1. Before(rank', a, r)
      BY <1>2, <1>6, <1>10 DEF Before
    <2>2. ASSUME NEW s \in DOMAIN rank, Before(rank', a, s), Before(rank', s, r) PROVE FALSE
      <3>1. s # r
        BY <1>3, <1>6, <1>7, <1>8, <2>2 DEF Before
      <3>2. Before(rank, a, s)
        BY <1>2, <1>6, <2>2, <3>1 DEF Before
      <3>3. new < rank[s]
        BY <1>2, <1>10, <3>1, <3>2
      <3>4. rank[s] <= new
        BY <1>6, <1>7, <2>2, <3>1 DEF Before
      <3> QED BY <1>7, <3>3, <3>4
    <2> QED BY <1>5, <1>10, <2>1, <2>2
  <1> QED BY <1>9, <1>10

\* A recorded move puts the row next to its anchor, although the neighbours were
\* read before: nobody came in between under the same revision.
THEOREM MovesArrive == Spec => MovesLandBeside
<1> DEFINE Landed(p) ==
      Move(p) /\ job[p].anchor # None /\ ~crossed =>
        LET r == job[p].row
            a == job[p].anchor
            Between(x, y) == {s \in DOMAIN rank' : Before(rank', x, s) /\ Before(rank', s, y)}
        IN  IF job[p].side = "before"
            THEN Before(rank', r, a) /\ Between(r, a) = {}
            ELSE Before(rank', a, r) /\ Between(a, r) = {}
<1>1. OrderInd /\ [Next]_vars => [\A p \in Processes : Landed(p)]_vars
  BY LandBeside
<1> QED BY <1>1, PlansFit, PTL DEF Spec, MovesLandBeside

\* What the mark of an import finds.
LEMMA ImportIsWhole ==
  ASSUME OrderInd, NEW p \in Processes, MarkReady(p), ~crossed
  PROVE  /\ DOMAIN rank = edges
         /\ \A r, s \in edges : Ahead(legacy, r, s) => rank[r] < rank[s]
  <1>1. pc[p] = "mark" /\ ~ready /\ legacy = old[p]
    BY DEF MarkReady, Importable
  <1>2. Imported(p)
    BY <1>1 DEF OrderInd, InStep
  <1>3. \A r \in edges : r \in DOMAIN rank /\ rank[r] = Gap * Place(legacy, r)
    BY <1>1, <1>2 DEF Imported, Importing
  <1>4. legacy \in LegacyOrders /\ edges \subseteq Rows /\ IsFiniteSet(edges) /\ DOMAIN rank \subseteq edges
    BY DEF OrderInd, RowOrderInv, ViewOK, KeysOK
  <1>5. ASSUME NEW r \in edges, NEW s \in edges, Ahead(legacy, r, s)
        PROVE  rank[r] < rank[s]
    <2>1. PICK m \in Nat : m = Place(legacy, r)
      BY <1>4, PlacesInOrder
    <2>2. PICK n \in Nat : n = Place(legacy, s)
      BY <1>4, PlacesInOrder
    <2>3. m < n
      BY <1>4, <1>5, <2>1, <2>2, PlacesInOrder
    <2>4. Gap * m < Gap * n
      BY <2>3, PageRowOrderAssumption
    <2> QED BY <1>3, <2>1, <2>2, <2>4
  <1> QED BY <1>3, <1>4, <1>5

\* A view becomes ready in the order that its array gave it, row by row, if no
\* other import of another array came across.
THEOREM ImportsKeepOrder == Spec => ImportKeepsLegacyOrder
<1> DEFINE Kept == /\ DOMAIN rank = edges
                   /\ \A r, s \in edges : Ahead(legacy, r, s) => rank[r] < rank[s]
<1>1. ASSUME [Next]_vars, ~ready, ready' PROVE \E p \in Processes : MarkReady(p)
  <2>1. ASSUME NEW p \in Processes,
               \/ StartBackfill(p) \/ \E r \in Rows : StartCreate(p, r)
               \/ \E m \in Moves : StartMove(p, m)
               \/ ReadView(p) \/ ReadBatch(p) \/ WriteBatch(p) \/ ImportAgain(p) \/ ReadMissing(p)
               \/ ReadTail(p) \/ ReadEnd(p) \/ ReadRow(p) \/ ReadGap(p) \/ ReadRanks(p) \/ Abandon(p)
               \/ Repair(p) \/ Create(p) \/ Move(p) \/ Compact(p)
        PROVE  ready' = ready
    <3>1. UNCHANGED order \/ UNCHANGED ready
      BY <2>1 DEF StartBackfill, StartCreate, StartMove, Start, ReadView, ReadBatch, WriteBatch,
                  ImportAgain, ReadMissing, ReadTail, ReadEnd, ReadRow, ReadGap, ReadRanks, Abandon,
                  Repair, Create, Move, Compact
    <3> QED BY <3>1 DEF order
  <2>2. ASSUME UNCHANGED vars \/ PatchLegacyOrder \/ \E r \in Rows : DeleteOrRestore(r)
        PROVE  ready' = ready
    BY <2>2 DEF vars, order, PatchLegacyOrder, DeleteOrRestore
  <2> QED BY <1>1, <2>1, <2>2, Steps
<1>2. OrderInd /\ [Next]_vars => [~ready /\ ready' /\ ~crossed => Kept]_vars
  BY <1>1, ImportIsWhole
<1> QED BY <1>2, PlansFit, PTL DEF Spec, ImportKeepsLegacyOrder
=============================================================================

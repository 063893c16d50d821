----------------------------- MODULE PageRowOrder -----------------------------
(***************************************************************************)
(* The order of a page's rows in one of its views: the ranks kept in       *)
(* page_view_row_order and the revision that names them                    *)
(* (page-view-row-order.ts, page-view-row-move-repository.ts and the child *)
(* creation of page-hierarchy-repository.ts and form-repository.ts).       *)
(*                                                                         *)
(* Within a process withPageRowOrderLock runs one operation on the page at *)
(* a time; several processes, the backfill script among them, are kept     *)
(* apart only by compare-and-swaps on the revision.  One step is one       *)
(* statement or one transaction.  Fractional keys are integers: multiples  *)
(* of Gap are the keys generated one after another, the rest are the keys  *)
(* in between, and a gap used up stands for a key longer than 128.         *)
(***************************************************************************)
EXTENDS Integers, Sequences, FiniteSets

CONSTANTS
    Rows,           \* ids of child pages; ULIDs, so ordered: positive numbers
    Processes,      \* processes that use the database
    Batch,          \* ROW_ORDER_BACKFILL_BATCH
    Gap,            \* keys between two integer keys, plus one
    LegacyOrders,   \* the arrays orderedRows takes, without repetitions
    Board,          \* whether the view groups its rows
    Moves,          \* bound: the moves that clients ask for
    Removable,      \* bound: the rows that are deleted and restored
    MaxRevision     \* bound: no row is created or moved past this revision

None  == 0
Sides == {"before", "after", "start", "end"}

\* What a client asks for: a row, and a side of an anchor or an end.
MoveRequest == {m \in [row : Rows, side : Sides, anchor : Rows \cup {None}] :
                  m.anchor = None <=> m.side \in {"start", "end"}}

ASSUME PageRowOrderAssumption ==
    /\ Rows \subseteq Nat \ {0}
    /\ Batch \in Nat \ {0}
    /\ Gap \in Nat \ {0}
    /\ LegacyOrders \subseteq Seq(Rows)
    /\ \A q \in LegacyOrders : \A i, j \in DOMAIN q : q[i] = q[j] => i = j
    /\ Board \in BOOLEAN
    /\ Moves \subseteq MoveRequest
    /\ Removable \subseteq Rows
    /\ MaxRevision \in Nat

VARIABLES
    edges,      \* children of the page: page_edges
    live,       \* those not deleted
    legacy,     \* orderedRows, until it is imported
    ready,      \* rowOrder.version = 2
    revision,   \* rowOrder.revision
    rank,       \* page_view_row_order, by row
    pc, job,    \* by process: where it is, and in which operation
    old,        \* by process: the array it is importing
    done,       \* by process: rows of it imported, the OFFSET
    tries,      \* by process: importAttempt
    seen,       \* by process: the revision it read
    plan,       \* by process: the keys its next statement writes
    crossed     \* history: two imports of different arrays overlapped, or one
                \* wrote after the view was ready

page  == <<edges, live, legacy>>
order == <<ready, revision, rank>>
local == <<pc, job, old, done, tries, seen, plan>>
vars  == <<page, order, local, crossed>>

-----------------------------------------------------------------------------
(* Keys.                                                                    *)

Empty == [r \in {} |-> 0]

\* generateKeyBetween(k, null) and generateKeyBetween(null, k).
KeyAfter(k)  == Gap * ((k \div Gap) + 1)
KeyBefore(k) == IF k % Gap = 0 THEN k - Gap ELSE k - (k % Gap)

\* generateKeyBetween(a, b), for a < b; a itself when the gap is used up.
KeyBetween(a, b) == IF KeyAfter(a) < b THEN KeyAfter(a) ELSE (a + b) \div 2

\* ORDER BY rank, row_id.
Before(f, r, s) == f[r] < f[s] \/ (f[r] = f[s] /\ r < s)

\* The row next to r, or at an end, among the rows of S.
LastOf(f, S)  == IF S = {} THEN None ELSE CHOOSE r \in S : \A s \in S \ {r} : Before(f, s, r)
FirstOf(f, S) == IF S = {} THEN None ELSE CHOOSE r \in S : \A s \in S \ {r} : Before(f, r, s)
Previous(f, S, r) == LastOf(f, {s \in S : Before(f, s, r)})
Following(f, S, r) == FirstOf(f, {s \in S : Before(f, r, s)})

\* generateKeyBetween at the tail of a view whose rows have keys f.
TailKey(f) == IF DOMAIN f = {} THEN 0 ELSE KeyAfter(f[LastOf(f, DOMAIN f)])

\* insertRowRankStatement for every row of g.
PutExisting(f, g) == [r \in DOMAIN f |-> IF r \in DOMAIN g THEN g[r] ELSE f[r]]  \* mutant
Put(f, g) == [r \in DOMAIN f \cup DOMAIN g |-> IF r \in DOMAIN g THEN g[r] ELSE f[r]]

\* The order of an import: rows of the array first, then the rest by id.
Listed(q, r) == \E i \in DOMAIN q : q[i] = r
Ahead(q, r, s) ==
    IF Listed(q, r)
    THEN Listed(q, s) => \E i, j \in DOMAIN q : i < j /\ q[i] = r /\ q[j] = s
    ELSE ~Listed(q, s) /\ r < s
Place(q, r) == Cardinality({s \in edges : Ahead(q, s, r)})

-----------------------------------------------------------------------------
Kinds == {"backfill", "create", "move"}
Job   == {j \in [kind : Kinds, row : Rows \cup {None}, side : Sides,
                  anchor : Rows \cup {None}, expected : Nat] :
            j.kind = "create" => j.row \in Rows}
NoJob == [kind |-> "backfill", row |-> None, side |-> "end", anchor |-> None, expected |-> 0]

Importing == {"import", "write", "mark"}
Ensured   == {"place", "create", "look", "aim", "move", "gather", "compact"}
Repairing == {"repair", "tail", "fix"}
Stages    == {"idle", "view"} \cup Importing \cup Repairing \cup Ensured

\* A view never imported, or one with rows that older code created unranked.
Init ==
    /\ edges \in SUBSET Rows /\ IsFiniteSet(edges)
    /\ live = edges
    /\ legacy \in LegacyOrders
    /\ ready \in BOOLEAN
    /\ revision = 0
    /\ \E S \in SUBSET edges :
          rank = IF ready THEN [r \in S |-> Gap * Cardinality({s \in S : s < r})] ELSE Empty
    /\ pc = [p \in Processes |-> "idle"]
    /\ job = [p \in Processes |-> NoJob]
    /\ old = [p \in Processes |-> <<>>]
    /\ done = [p \in Processes |-> 0]
    /\ tries = [p \in Processes |-> 0]
    /\ seen = [p \in Processes |-> 0]
    /\ plan = [p \in Processes |-> Empty]
    /\ crossed = FALSE

Goto(p, stage) == pc' = [pc EXCEPT ![p] = stage]
\* The operation ends: what the process kept is forgotten.
Leave(p) ==
    /\ Goto(p, "idle")
    /\ job' = [job EXCEPT ![p] = NoJob]
    /\ old' = [old EXCEPT ![p] = <<>>]
    /\ done' = [done EXCEPT ![p] = 0]
    /\ tries' = [tries EXCEPT ![p] = 0]
    /\ seen' = [seen EXCEPT ![p] = 0]
    /\ plan' = [plan EXCEPT ![p] = Empty]

-----------------------------------------------------------------------------
(* The rest of the program.                                                 *)

\* Rows are deleted and restored; their edges and ranks stay.
DeleteOrRestore(r) ==
    /\ r \in edges \cap Removable
    /\ live' = IF r \in live THEN live \ {r} ELSE live \cup {r}
    /\ UNCHANGED <<edges, legacy, order, local, crossed>>

\* A PATCH of orderedRows, refused once the view is ready.
PatchLegacyOrder ==
    /\ ~ready
    /\ legacy' \in LegacyOrders
    /\ UNCHANGED <<edges, live, order, local, crossed>>

-----------------------------------------------------------------------------
(* ensurePageViewRowOrder, which every operation begins with.               *)

Start(p, j) ==
    /\ pc[p] = "idle"
    /\ Goto(p, "view")
    /\ job' = [job EXCEPT ![p] = j]
    /\ UNCHANGED <<page, order, old, done, tries, seen, plan, crossed>>
StartBackfill(p) == Start(p, NoJob)
StartCreate(p, r) ==
    /\ revision < MaxRevision
    /\ r \notin edges
    /\ Start(p, [NoJob EXCEPT !.kind = "create", !.row = r])
\* The client moves a row of the order it was shown last.
StartMove(p, m) ==
    /\ revision < MaxRevision
    /\ m.row \in live /\ m.anchor \in (edges \cup {None}) \ {m.row}
    /\ Start(p, [kind |-> "move", row |-> m.row, side |-> m.side, anchor |-> m.anchor,
                 expected |-> revision])

\* readView.
ReadView(p) ==
    /\ pc[p] = "view"
    /\ IF ready
       THEN /\ Goto(p, "repair")
            /\ seen' = [seen EXCEPT ![p] = revision]
            /\ UNCHANGED <<old, done>>
       ELSE /\ Goto(p, "import")
            /\ old' = [old EXCEPT ![p] = legacy]
            /\ done' = [done EXCEPT ![p] = 0]
            /\ UNCHANGED seen
    /\ UNCHANGED <<page, order, job, tries, plan, crossed>>

\* The rows of the next batch, LIMIT and OFFSET in the order of the import.
ReadBatch(p) ==
    LET rest == {r \in edges : Place(old[p], r) >= done[p]}
        keys == [r \in {s \in rest : Place(old[p], s) < done[p] + Batch} |->
                    Gap * Place(old[p], r)]
    IN  /\ pc[p] = "import"
        /\ Goto(p, IF rest = {} THEN "mark" ELSE "write")
        /\ plan' = [plan EXCEPT ![p] = keys]
        /\ UNCHANGED <<page, order, job, old, done, tries, seen, crossed>>

\* The transaction of a batch has no guard.
WriteBatch(p) ==
    /\ pc[p] = "write"
    /\ rank' = Put(rank, plan[p])
    /\ done' = [done EXCEPT ![p] = @ + Batch]
    /\ plan' = [plan EXCEPT ![p] = Empty]
    /\ crossed' = (\/ crossed
                   \/ ready
                   \/ \E q \in Processes \ {p} : pc[q] \in Importing /\ old[q] # old[p])
    /\ Goto(p, "import")
    /\ UNCHANGED <<page, ready, revision, job, old, tries, seen>>

\* The view becomes ready unless it is, or its array is no longer the one
\* imported; then the import is tried again, twice.
ImportableWhenUnready(p) == ~ready  \* mutant
Importable(p) == ~ready /\ legacy = old[p]
MarkReady(p) ==
    /\ pc[p] = "mark"
    /\ Importable(p)
    /\ ready' = TRUE
    /\ revision' = 0
    /\ Goto(p, "view")
    /\ UNCHANGED <<page, rank, job, old, done, tries, seen, plan, crossed>>
ImportAgain(p) ==
    /\ pc[p] = "mark"
    /\ ~Importable(p)
    /\ tries[p] < 2
    /\ tries' = [tries EXCEPT ![p] = @ + 1]
    /\ Goto(p, "view")
    /\ UNCHANGED <<page, order, job, old, done, seen, plan, crossed>>

\* Rows without a rank, and then the tail they go after.
Task(p) == CASE job[p].kind = "backfill" -> "idle"
             [] job[p].kind = "create" -> "place"
             [] OTHER -> "look"
ReadMissing(p) ==
    LET missing == edges \ DOMAIN rank
        first   == {r \in missing : Cardinality({s \in missing : s < r}) < Batch}
    IN  /\ pc[p] = "repair"
        /\ Goto(p, IF missing = {} THEN Task(p) ELSE "tail")
        /\ plan' = [plan EXCEPT ![p] = [r \in first |-> 0]]
        /\ UNCHANGED <<page, order, job, old, done, tries, seen, crossed>>
ReadTail(p) ==
    LET rows == DOMAIN plan[p]
    IN  /\ pc[p] = "tail"
        /\ Goto(p, "fix")
        /\ plan' = [plan EXCEPT ![p] = [r \in rows |->
                        TailKey(rank) + Gap * Cardinality({s \in rows : s < r})]]
        /\ UNCHANGED <<page, order, job, old, done, tries, seen, crossed>>

\* incrementOrderRevisionStatement: when it changes no row, the statement after
\* it breaks a constraint and the transaction is rolled back.
CurrentWhenReady(p) == ready  \* mutant
Current(p) == ready /\ revision = seen[p]
SameRevision == revision  \* mutant
NextRevision == revision + 1

Repair(p) ==
    /\ pc[p] = "fix"
    /\ Current(p)
    /\ rank' = Put(rank, plan[p])
    /\ revision' = NextRevision
    /\ seen' = [seen EXCEPT ![p] = @ + 1]
    /\ plan' = [plan EXCEPT ![p] = Empty]
    /\ Goto(p, "repair")
    /\ UNCHANGED <<page, ready, job, old, done, tries, crossed>>

-----------------------------------------------------------------------------
(* Creation of a row.                                                       *)

ReadEnd(p) ==
    /\ pc[p] = "place"
    /\ Goto(p, "create")
    /\ plan' = [plan EXCEPT ![p] = [r \in {job[p].row} |-> TailKey(rank)]]
    /\ UNCHANGED <<page, order, job, old, done, tries, seen, crossed>>
\* Page, edge, rank and revision in one transaction.
Create(p) ==
    /\ pc[p] = "create"
    /\ Current(p)
    /\ job[p].row \notin edges
    /\ edges' = edges \cup {job[p].row}
    /\ live' = live \cup {job[p].row}
    /\ rank' = Put(rank, plan[p])
    /\ revision' = NextRevision
    /\ Leave(p)
    /\ UNCHANGED <<legacy, ready, crossed>>

-----------------------------------------------------------------------------
(* PageViewRowMoveStore.move.                                               *)

\* The row and the revision, which must be the one the client was shown.
ReadRow(p) ==
    /\ pc[p] = "look"
    /\ job[p].row \in live \cap DOMAIN rank
    /\ job[p].expected = revision
    /\ seen' = [seen EXCEPT ![p] = revision]
    /\ Goto(p, "aim")
    /\ UNCHANGED <<page, order, job, old, done, tries, plan, crossed>>

\* The neighbours of the gap the row goes to.  On a board the ends are those
\* of a group of rows, and an empty group means the end of the whole view.
Lower(j, others, group) ==
    CASE j.side = "after"  -> j.anchor
      [] j.side = "before" -> Previous(rank, others, j.anchor)
      [] j.side = "end"    -> IF group = {} /\ Board THEN LastOf(rank, others) ELSE LastOf(rank, group)
      [] OTHER -> IF group # {} THEN Previous(rank, others, FirstOf(rank, group))
                  ELSE IF Board THEN LastOf(rank, others) ELSE None
Upper(j, others, group) ==
    CASE j.side = "before" -> j.anchor
      [] j.side = "start" /\ group # {} -> FirstOf(rank, group)
      [] OTHER -> LET lower == Lower(j, others, group)
                  IN  IF lower = None THEN None ELSE Following(rank, others, lower)

Crowded(lower, upper) ==
    /\ lower # None /\ upper # None
    /\ rank[lower] = rank[upper] \/ KeyBetween(rank[lower], rank[upper]) = rank[lower]
KeyBesideOne(lower, upper) ==  \* mutant
    IF lower # None THEN KeyAfter(rank[lower])
    ELSE IF upper = None THEN 0 ELSE KeyBefore(rank[upper])
KeyIn(lower, upper) ==
    IF lower = None THEN IF upper = None THEN 0 ELSE KeyBefore(rank[upper])
    ELSE IF upper = None THEN KeyAfter(rank[lower]) ELSE KeyBetween(rank[lower], rank[upper])

\* The plan also holds the anchor with the rank read, which the UPDATE demands.
ReadGap(p) ==
    LET j      == job[p]
        others == DOMAIN rank \ {j.row}
    IN  /\ pc[p] = "aim"
        /\ j.anchor # None => j.anchor \in live \cap DOMAIN rank
        /\ \E group \in IF Board THEN SUBSET (others \cap live) ELSE {others \cap live} :
              LET lower == Lower(j, others, group)
                  upper == Upper(j, others, group)
              IN  IF Crowded(lower, upper)
                  THEN Goto(p, "gather") /\ UNCHANGED plan
                  ELSE /\ Goto(p, "move")
                       /\ plan' = [plan EXCEPT ![p] =
                             [r \in {j.row} \cup ({j.anchor} \ {None}) |->
                                IF r = j.row THEN KeyIn(lower, upper) ELSE rank[r]]]
        /\ UNCHANGED <<page, order, job, old, done, tries, seen, crossed>>

Move(p) ==
    LET j == job[p]
    IN  /\ pc[p] = "move"
        /\ Current(p)
        /\ j.row \in live \cap DOMAIN rank
        /\ j.anchor # None => j.anchor \in live /\ rank[j.anchor] = plan[p][j.anchor]
        /\ rank' = Put(rank, plan[p])
        /\ revision' = NextRevision
        /\ Leave(p)
        /\ UNCHANGED <<page, ready, crossed>>

\* compactViewRowRanks; the move itself is refused.
ReadRanks(p) ==
    /\ pc[p] = "gather"
    /\ Goto(p, "compact")
    /\ plan' = [plan EXCEPT ![p] = [r \in DOMAIN rank |->
                    Gap * Cardinality({s \in DOMAIN rank : Before(rank, s, r)})]]
    /\ UNCHANGED <<page, order, job, old, done, tries, seen, crossed>>
Compact(p) ==
    /\ pc[p] = "compact"
    /\ Current(p)
    /\ rank' = Put(rank, plan[p])
    /\ revision' = NextRevision
    /\ Leave(p)
    /\ UNCHANGED <<page, ready, crossed>>

\* A check fails, a transaction is rolled back, access or the view is gone, or
\* the process stops: nothing is written.
Abandon(p) ==
    /\ pc[p] # "idle"
    /\ Leave(p)
    /\ UNCHANGED <<page, order, crossed>>

Starting(p) ==
    \/ StartBackfill(p)
    \/ \E r \in Rows : StartCreate(p, r)
    \/ \E m \in Moves : StartMove(p, m)
Ensuring(p) ==
    \/ ReadView(p) \/ ReadBatch(p) \/ WriteBatch(p) \/ MarkReady(p) \/ ImportAgain(p)
    \/ ReadMissing(p) \/ ReadTail(p) \/ Repair(p)
Ordering(p) ==
    \/ ReadEnd(p) \/ Create(p) \/ ReadRow(p) \/ ReadGap(p) \/ Move(p)
    \/ ReadRanks(p) \/ Compact(p)

Next ==
    \/ \E r \in Rows : DeleteOrRestore(r)
    \/ PatchLegacyOrder
    \/ \E p \in Processes : Starting(p) \/ Ensuring(p) \/ Ordering(p) \/ Abandon(p)

Spec == Init /\ [][Next]_vars
-----------------------------------------------------------------------------
(* Properties.                                                              *)

ViewOK ==
    /\ edges \subseteq Rows /\ live \subseteq edges /\ DOMAIN rank \subseteq edges
    /\ legacy \in LegacyOrders
    /\ ready \in BOOLEAN /\ revision \in Nat /\ crossed \in BOOLEAN
LocalsOK ==
    /\ pc \in [Processes -> Stages]
    /\ job \in [Processes -> Job]
    /\ old \in [Processes -> LegacyOrders \cup {<<>>}]
    /\ done \in [Processes -> Nat] /\ tries \in [Processes -> 0..2]
    /\ seen \in [Processes -> Nat]
    /\ DOMAIN plan = Processes
PlanOK(p) ==
    /\ pc[p] \in Repairing \cup Ensured => ready /\ seen[p] <= revision
    /\ pc[p] \in {"write", "tail", "fix", "compact"} => DOMAIN plan[p] \subseteq edges
    /\ pc[p] \in {"place", "create"} => job[p].row \in Rows
    /\ pc[p] = "create" => DOMAIN plan[p] = {job[p].row}
    /\ pc[p] = "move" => DOMAIN plan[p] = {job[p].row} \cup ({job[p].anchor} \ {None})

\* The columns and the locals have their types; past the import the view is
\* ready and no revision read is ahead of it; and what a process is about to
\* write are keys of the rows that the statement it has reached is for.
RowOrderInv == ViewOK /\ LocalsOK /\ \A p \in Processes : PlanOK(p)

\* A cursor is bound to the revision: while that stands, so do the rows and
\* their order, whatever the processes do.
RevisionNamesOrder == [][ready /\ revision' = revision => rank' = rank]_vars

\* The same while no import crossed another or outlived the readiness.
CursorsHold == [][ready /\ revision' = revision => rank' = rank \/ crossed']_vars

\* A view never imported becomes ready with the rows of its array in front, in
\* that order, and the rest behind, by id: what its last reader was shown.
ImportKeepsLegacyOrder ==
    [][~ready /\ ready' /\ ~crossed =>
         /\ DOMAIN rank = edges
         /\ \A r, s \in edges : Ahead(legacy, r, s) => rank[r] < rank[s]]_vars

\* A row that appears in a ready view, created or repaired, goes to its end.
NewRowsLast ==
    [][ready /\ ~crossed' =>
         \A r \in DOMAIN rank' \ DOMAIN rank, s \in DOMAIN rank : rank'[s] < rank'[r]]_vars

\* A row moved next to another lands beside it, with none in between, in the
\* order as it is when the move is recorded.
MovesLandBeside ==
    [][\A p \in Processes :
         Move(p) /\ job[p].anchor # None /\ ~crossed =>
           LET r == job[p].row
               a == job[p].anchor
               Between(x, y) == {s \in DOMAIN rank' : Before(rank', x, s) /\ Before(rank', s, y)}
           IN  IF job[p].side = "before"
               THEN Before(rank', r, a) /\ Between(r, a) = {}
               ELSE Before(rank', a, r) /\ Between(a, r) = {}]_vars

\* Every row of a ready view stays listed: once each has a rank, none loses it
\* and no row is created without one.
StaysPaginable ==
    [][ready /\ DOMAIN rank = edges => ready' /\ DOMAIN rank' = edges']_vars
=============================================================================

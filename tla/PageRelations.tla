---------------------------- MODULE PageRelations ----------------------------
(***************************************************************************)
(* Relations between the pages of two databases, kept on one side or as a  *)
(* property on each side (page-relation-write-repository.ts, the checks of *)
(* page-relation-repository.ts, the column and value controllers that call *)
(* them and the triggers of relation-triggers.json).                       *)
(*                                                                         *)
(* A request reads definitions and cells, plans its writes, and commits    *)
(* them in one transaction that compares the definitions and cells it      *)
(* writes or mirrors.  That no cell has a value before a relation changes  *)
(* its target is asked in a statement of its own and not again, and a      *)
(* column that is not a relation may forget or change its target unasked.  *)
(* Changing the type, resetting and deleting a column compare nothing;     *)
(* `outdated` records that one of these was written over a definition it   *)
(* had not read.  A cell is the set of pages it names, and a row with no   *)
(* cell is one that names none; their order, names and public keys are     *)
(* left out, and so are cells written and columns reset while the column   *)
(* is not a relation.                                                      *)
(***************************************************************************)
EXTENDS Integers, FiniteSets

CONSTANTS
    Pages, Databases,
    Home,           \* by page: the database it is a row of
    Properties,     \* page_columns there may come to be
    Given,          \* the columns there are at first
    Editors,
    Sees,           \* by editor: the pages they may read and write
    Configurations, \* what the request for a column may ask
    Edits,          \* requests served at the same time
    Absent          \* no definition, no target, no inverse property

ASSUME RelationsAssumption ==
    /\ Home \in [Pages -> Databases] /\ Sees \in [Editors -> SUBSET Pages]
    /\ DOMAIN Given \subseteq Properties
    /\ Configurations \subseteq
           [enable : BOOLEAN, one : BOOLEAN, inverseOne : BOOLEAN, to : Databases]
    /\ Absent \notin Properties \cup Databases

VARIABLES
    property,       \* page_columns
    cell,           \* page_columns_values, by page and column
    edit,           \* by request: what it read and means to write
    outdated,       \* an update was written over a definition it had not read
    overtaken,      \* the requests since whose check a cell of their column was written
    stray           \* the columns with values whose target changed all the same

relationsVars == <<property, cell, edit, outdated, overtaken, stray>>

\* The columns and their cells, and what is remembered of them.
tables == <<property, cell, outdated, stray>>

Definition == [kind : {"relation", "text", "deleted"}, from : Databases, to : Databases \cup {Absent},
               one : BOOLEAN, pair : Properties \cup {Absent}]
Cells == Pages \X Properties

\* i is what the definition d of c is shown as at its target.
LeadsBack(c, d, i) == i # Absent /\ i.kind = "relation" /\ i.pair = c /\ i.from = d.to /\ i.to = d.from

\* No absence is a definition, and the pairs there are at first name each other.
ASSUME DefinitionsAssumption ==
    /\ Absent \notin Definition
    /\ \A c \in DOMAIN Given :
          /\ Given[c] \in Definition
          /\ Given[c].pair # Absent =>
                /\ Given[c].kind = "relation" /\ Given[c].pair \in DOMAIN Given \ {c}
                /\ LeadsBack(c, Given[c], Given[Given[c].pair])

Quiet == [at |-> "idle", by |-> Absent, what |-> "nothing", column |-> Absent, page |-> Absent,
          want |-> Absent, defs |-> <<>>, cells |-> <<>>, newDefs |-> <<>>, newCells |-> <<>>]

RowsIn(d)   == {p \in Pages : Home[p] = d}
Paired(c) == property[c] # Absent /\ property[c].pair # Absent

RelationsInit ==
    /\ property = [c \in Properties |-> IF c \in DOMAIN Given THEN Given[c] ELSE Absent]
    /\ cell = [x \in Cells |-> {}]
    /\ edit = [t \in Edits |-> Quiet]
    /\ outdated = FALSE /\ overtaken = {} /\ stray = {}

\* A plan is written over what there is.
Upon(new, old) ==
    [i \in DOMAIN new \cup DOMAIN old |-> IF i \in DOMAIN new THEN new[i] ELSE old[i]]

Forget(t) == edit' = [edit EXCEPT ![t] = Quiet] /\ overtaken' = overtaken \ {t}

\* What a plan writes, and what it found where it writes or relies on.
Planned(t, defs, cells, newDefs, newCells) ==
    /\ edit' = [edit EXCEPT ![t].at = "commit", ![t].want = Absent,
           ![t].defs = defs, ![t].cells = cells, ![t].newDefs = newDefs, ![t].newCells = newCells]
    /\ UNCHANGED overtaken

Over(d, names) == d.one /\ Cardinality(names) > 1

\* A mirror is written in rows of the database that t's editor may write.
Reaches(t, p, database) == p \in Sees[edit[t].by] \cap RowsIn(database)

\* Some row has a value in the column.
HasValues(c) == \E p \in Pages : cell[<<p, c>>] # {}

-----------------------------------------------------------------------------
(* Editing a cell.                                                          *)

\* The controllers read the cell and its column.
ReadCell(t, u, p, c, want) ==
    /\ edit[t].at = "idle"
    /\ property[c] # Absent /\ property[c].kind = "relation"
    /\ Home[p] = property[c].from /\ p \in Sees[u]
    /\ want \subseteq RowsIn(property[c].to) \cap Sees[u]
    /\ edit' = [edit EXCEPT ![t] = [Quiet EXCEPT !.at = "cell", !.by = u, !.what = "cell",
            !.column = c, !.page = p, !.want = want,
            !.defs = [i \in {c} |-> property[i]], !.cells = [x \in {<<p, c>>} |-> cell[x]]]]
    /\ UNCHANGED <<tables, overtaken>>

\* The inverse property must name this one back.
NamedBack(c, d) ==
    d.pair # Absent => LeadsBack(c, d, property[d.pair])

\* Targets the editor cannot read stay in the cell.
Targets(t) == edit[t].want \cup (cell[<<edit[t].page, edit[t].column>>] \ Sees[edit[t].by])

BothSides(c, d) == {c} \cup (IF d.pair = Absent THEN {} ELSE {d.pair})

\* Each target added is a row of the relation's target that the editor sees,
\* and each added or removed has its mirror updated.
PlanCell(t) ==
    /\ edit[t].at = "cell"
    /\ LET c == edit[t].column  row == edit[t].page
           d == edit[t].defs[c] old == edit[t].cells[<<row, c>>]  new == Targets(t)
           changed == (old \ new) \cup (new \ old)
           mirrors == changed \X (BothSides(c, d) \ {c})
           mirror == [x \in mirrors |-> IF x[1] \in new THEN cell[x] \cup {row} ELSE cell[x] \ {row}]
       IN IF \/ ~NamedBack(c, d) \/ Over(d, new) \/ \E q \in new \ old : ~Reaches(t, q, d.to)
             \/ \E x \in mirrors : ~Reaches(t, x[1], d.to) \/ Over(property[d.pair], mirror[x])
          THEN Forget(t)
          ELSE Planned(t, [i \in BothSides(c, d) |-> IF i = c THEN d ELSE property[i]],
                       [x \in {<<row, c>>} \cup mirrors |-> IF x = <<row, c>> THEN old ELSE cell[x]],
                       <<>>,
                       [x \in {<<row, c>>} \cup mirrors |-> IF x = <<row, c>> THEN new ELSE mirror[x]])
    /\ UNCHANGED tables

-----------------------------------------------------------------------------
(* Configuring a column.                                                    *)

\* enable shows the relation at the target, or takes it away from there.
ReadDefinition(t, u, c, ask) ==
    /\ edit[t].at = "idle"
    /\ property[c] # Absent /\ property[c].kind # "deleted"
    /\ edit' = [edit EXCEPT ![t] = [Quiet EXCEPT !.at = "asking", !.by = u,
            !.what = "definition", !.column = c, !.want = ask,
            !.defs = [i \in {c} |-> property[i]]]]
    /\ UNCHANGED <<tables, overtaken>>

\* The target of a column with values does not change: asked of the column as
\* it is by now, and only if it has a target.  (A column deleted meanwhile is
\* refused by the transaction, if not here.)
MayChangeTarget(c, to) == property[c].to \notin {Absent, to} => ~HasValues(c)

AssertRelationCanChange(t) ==
    /\ edit[t].at = "asking"
    /\ IF MayChangeTarget(edit[t].column, edit[t].want.to)
       THEN edit' = [edit EXCEPT ![t].at = "definition"] /\ overtaken' = overtaken \ {t}
       ELSE Forget(t)
    /\ UNCHANGED tables

\* The cells of a new inverse property that mirror the ones there are.
Mirrors(c, d, inverse) ==
    [x \in (UNION {cell[<<p, c>>] : p \in RowsIn(d.from)}) \X {inverse} |->
        {p \in RowsIn(d.from) : x[1] \in cell[<<p, c>>]}]

Fits(c, d) == \A p \in Pages : ~Over(d, cell[<<p, c>>])

CreateInverse(t, c, old, next) ==
    \E i \in Properties :
        /\ property[i] = Absent
        /\ LET inverse == [kind |-> "relation", from |-> next.to, to |-> old.from,
                           one |-> edit[t].want.inverseOne, pair |-> c]
               mirror == Mirrors(c, old, i)
           IN IF \E x \in DOMAIN mirror : ~Reaches(t, x[1], next.to) \/ Over(inverse, mirror[x])
              THEN Forget(t)
              ELSE Planned(t, [j \in {c, i} |-> IF j = c THEN old ELSE Absent],
                      [x \in (RowsIn(old.from) \X {c}) \cup DOMAIN mirror |-> cell[x]],
                      [j \in {c, i} |-> IF j = c THEN [next EXCEPT !.pair = i] ELSE inverse], mirror)

SaveBoth(t, c, old, next) ==
    LET inverse == [property[old.pair] EXCEPT !.one = edit[t].want.inverseOne] IN
    IF Fits(old.pair, inverse)
    THEN Planned(t, [i \in {c, old.pair} |-> IF i = c THEN old ELSE property[i]], <<>>,
                 [i \in {c, old.pair} |-> IF i = c THEN next ELSE inverse], <<>>)
    ELSE Forget(t)

Separate(t, c, old, next) ==
    Planned(t, [i \in BothSides(c, old) |-> IF i = c THEN old ELSE property[i]], <<>>,
            [i \in BothSides(c, old) |-> [(IF i = c THEN next ELSE property[i]) EXCEPT !.pair = Absent]],
            <<>>)

\* saveDefinition.  A relation shown at its target keeps its target.
PlanDefinition(t) ==
    /\ edit[t].at = "definition"
    /\ LET c == edit[t].column  old == edit[t].defs[c]  ask == edit[t].want
           next == [old EXCEPT !.kind = "relation", !.one = ask.one, !.to = ask.to]
           taken == Fits(c, next) /\ NamedBack(c, old) /\ (old.pair # Absent => ask.to = old.to)
       IN \/ ~taken /\ Forget(t)
          \/ taken /\ ask.enable /\ old.pair = Absent /\ CreateInverse(t, c, old, next)
          \/ taken /\ ask.enable /\ old.pair # Absent /\ SaveBoth(t, c, old, next)
          \/ taken /\ ~ask.enable /\ Separate(t, c, old, next)
    /\ UNCHANGED tables

-----------------------------------------------------------------------------
(* The transaction.                                                         *)

\* Every definition and cell of the plan is what was read.
UnchangedDefinitions(t) == \A c \in DOMAIN edit[t].defs : property[c] = edit[t].defs[c]  \* mutant
Unchanged(t) ==
    /\ \A c \in DOMAIN edit[t].defs : property[c] = edit[t].defs[c]
    /\ \A x \in DOMAIN edit[t].cells : cell[x] = edit[t].cells[x]

\* The triggers refuse a cell, or a definition, above the limit of one page.
WithinLimits(defs, cells) ==
    \A x \in Cells :
        defs[x[2]] # Absent /\ defs[x[2]].kind = "relation" => ~Over(defs[x[2]], cells[x])

\* The columns whose target t changes, cells of theirs written since the check.
Misled(t) ==
    {c \in DOMAIN edit[t].newDefs :
        t \in overtaken /\ edit[t].defs[c] # Absent /\ edit[t].newDefs[c].to # edit[t].defs[c].to}

\* The requests that have checked a column one of whose cells t writes.
Overtakes(t) ==
    {s \in Edits : /\ edit[s].what = "definition" /\ edit[s].at # "asking"
                   /\ \E x \in DOMAIN edit[t].newCells : x[2] = edit[s].column}

CommitPlan(t) ==
    /\ edit[t].at = "commit"
    /\ LET defs == Upon(edit[t].newDefs, property)  cells == Upon(edit[t].newCells, cell) IN
       IF Unchanged(t) /\ WithinLimits(defs, cells)
       THEN /\ property' = defs /\ cell' = cells /\ stray' = stray \cup Misled(t)
            /\ edit' = [edit EXCEPT ![t] = Quiet]
            /\ overtaken' = (overtaken \cup Overtakes(t)) \ {t}
       ELSE Forget(t) /\ UNCHANGED <<property, cell, stray>>
    /\ UNCHANGED outdated

\* The transaction failed, or the process stopped.
GiveUp(t) ==
    /\ edit[t].at # "idle"
    /\ Forget(t)
    /\ UNCHANGED tables

-----------------------------------------------------------------------------
(* Updates of a column that compare nothing.                                *)

\* A relation shown at its target is neither retyped nor deleted; a reset
\* keeps a relation.  A column that is not a relation, or ceases to be one,
\* may be given another target, or none.
ReadColumn(t, c, what, to) ==
    /\ edit[t].at = "idle"
    /\ property[c] # Absent
    /\ property[c].kind \in (IF what = "redefine" THEN {"relation", "text"} ELSE {"relation"})
    /\ what # "reset" /\ property[c].kind = "relation" => property[c].pair = Absent
    /\ what # "redefine" => to = Absent
    /\ edit' = [edit EXCEPT ![t] = [Quiet EXCEPT !.at = "overwrite", !.what = what,
            !.column = c, !.want = to, !.defs = [i \in {c} |-> property[i]]]]
    /\ UNCHANGED <<tables, overtaken>>

\* What says nothing of the definition leaves it as it is; the others write it
\* back whole.
Overwritten(t) ==
    LET c == edit[t].column  now == property[c]  read == edit[t].defs[c]  to == edit[t].want IN
    CASE edit[t].what = "retype"   -> [now EXCEPT !.kind = "text"]
      [] edit[t].what = "delete"   -> [now EXCEPT !.kind = "deleted"]
      [] edit[t].what = "redefine" ->
            [kind |-> "text", from |-> read.from, to |-> to,
             one |-> to # Absent /\ read.one, pair |-> IF to = Absent THEN Absent ELSE read.pair]
      [] OTHER                     -> [read EXCEPT !.kind = now.kind]

Overwrite(t) ==
    /\ edit[t].at = "overwrite"
    /\ LET c == edit[t].column  now == property[c]  defs == [property EXCEPT ![c] = Overwritten(t)] IN
       /\ now.kind # "deleted" /\ WithinLimits(defs, cell)
       /\ property' = defs
       /\ outdated' = (outdated \/ edit[t].defs[c] # now)
       /\ stray' = stray \cup (IF HasValues(c) /\ defs[c].to # now.to THEN {c} ELSE {})
    /\ Forget(t)
    /\ UNCHANGED cell

-----------------------------------------------------------------------------
RelationsNext ==
    \E t \in Edits :
        \/ \E c \in Properties, p \in Pages, u \in Editors : \E want \in SUBSET Pages :
              ReadCell(t, u, p, c, want)
        \/ \E c \in Properties, u \in Editors, ask \in Configurations : ReadDefinition(t, u, c, ask)
        \/ \E c \in Properties, what \in {"retype", "redefine", "reset", "delete"},
              to \in Databases \cup {Absent} : ReadColumn(t, c, what, to)
        \/ PlanCell(t) \/ AssertRelationCanChange(t) \/ PlanDefinition(t) \/ CommitPlan(t) \/ GiveUp(t) \/ Overwrite(t)

RelationsSpec == RelationsInit /\ [][RelationsNext]_relationsVars

-----------------------------------------------------------------------------
(* Properties.                                                              *)

RelationsTypeOK ==
    /\ DOMAIN property = Properties /\ DOMAIN cell = Cells
    /\ \A c \in Properties : property[c] = Absent \/ property[c] \in Definition
    /\ cell \in [Cells -> SUBSET Pages]
    /\ \A t \in Edits : edit[t].at \in {"idle", "cell", "asking", "definition", "commit", "overwrite"}
    /\ outdated \in BOOLEAN /\ overtaken \subseteq Edits /\ stray \subseteq Properties

\* A property shown at its target is answered by one there that names it back:
\* the two configurations change together, or not at all.
PairsHold ==
    \A c \in Properties :
        Paired(c) => /\ property[c].kind = "relation"
                     /\ LeadsBack(c, property[c], property[property[c].pair])

\* The two sides of a pair hold the same links, whatever edits of either side,
\* of both configurations and of other cells cross each other.
Mirrored ==
    \A c \in Properties :
        Paired(c) => \A p \in RowsIn(property[c].from), q \in RowsIn(property[c].to) :
            q \in cell[<<p, c>>] <=> p \in cell[<<q, property[c].pair>>]

\* A relation limited to one page has no cell with more, even when the limit
\* was set while its cells, or their mirrors, were being written.
OnePageEach == WithinLimits(property, cell)

\* A cell is in a row of its column's database and names rows of the target
\* only, unless its relation has got another target.  A change of target is
\* refused while there are values: it lets in just the cells written between
\* that check and the transaction, and those of a column whose target was
\* forgotten or changed unasked.  Shown at its target, a relation has no such
\* cells: what it mirrors is compared.
CellsNameTargets ==
    \A x \in Cells :
        cell[x] # {} =>
            /\ property[x[2]] # Absent /\ Home[x[1]] = property[x[2]].from
            /\ (x[2] \in stray => Paired(x[2]) /\ ~outdated) =>
                  cell[x] \subseteq RowsIn(property[x[2]].to)

\* What every reachable state satisfies; the two sides of a pair agree unless
\* an update that compares nothing was written over a newer definition.
RelationsInv ==
    /\ RelationsTypeOK /\ OnePageEach /\ CellsNameTargets
    /\ ~outdated => PairsHold /\ Mirrored
==============================================================================

------------------------------ MODULE PageViews ------------------------------
(***************************************************************************)
(* The views a page keeps in its own JSON, beside the columns they show    *)
(* (page-view-controller.ts, page-view-patch-controller.ts, the planner,   *)
(* factory, snapshot and parsers they use, view-filters-v2.ts,             *)
(* page-json.ts, and the checks of page-column-controller.ts that look at  *)
(* views).                                                                 *)
(*                                                                         *)
(* Every request loads the page with its columns, plans patches of the     *)
(* paths that change, and writes them in one statement that asks only      *)
(* whether the view is still there; ordering compares all it read, and so  *)
(* does the first catalogue, which a page is created with or which a       *)
(* request puts where there is no view: it is the client's, and no column, *)
(* order or filter in it is looked at (page-view-initial-snapshot.ts).     *)
(* `aged` of a request says that something it read has changed since;      *)
(* `aging` that a request wrote a plan that old. `formless` and `crowded`  *)
(* keep which views a first catalogue brought without their flow, or in    *)
(* one place with another, until a request puts that right.                *)
(***************************************************************************)
EXTENDS Integers, Sequences, FiniteSets

CONSTANTS
    ViewIds,        \* views there may come to be
    Shown,          \* columns there may be
    Showing,        \* requests in progress at the same time
    Snapshots,      \* catalogues a client may send
    MaxViewEdits    \* bound: requests

ViewKinds == {"table", "form", "heatmap"}

\* The kinds that are configured with a column, and the type it must have.
Needs == [form |-> "flow", heatmap |-> "date"]
Types == {"flow", "date"}

\* A catalogue that a client sent may leave a view without an order.
Unordered == -1
View == [kind : ViewKinds \cup {"none"}, order : Nat \cup {Unordered}, deleted : BOOLEAN,
         config : [DOMAIN Needs -> SUBSET Shown], filters : SUBSET Shown]

ASSUME PageViewsAssumption ==
    IsFiniteSet(ViewIds) /\ MaxViewEdits \in Nat /\ Snapshots \subseteq [ViewIds -> View]

VARIABLES
    views,          \* the views in pages.data
    shown,          \* by column: its type, "none" before it is there, "gone" after
    request,        \* by request: what it is about to write
    asked,          \* how many requests there were
    aging,
    formless, crowded

viewsVars == <<views, shown, request, asked, aging, formless, crowded>>

NoView  == [kind |-> "none", order |-> 0, deleted |-> FALSE,
            config |-> [k \in DOMAIN Needs |-> {}], filters |-> {}]
Waiting == [what |-> "nothing", view |-> {}, from |-> {}, new |-> NoView, paths |-> {},
            type |-> "none", order |-> <<>>, read |-> <<>>, aged |-> FALSE]

IsView(v) == views[v].kind # "none"
Active    == {v \in ViewIds : IsView(v) /\ ~views[v].deleted}
There     == {c \in Shown : shown[c] \notin {"none", "gone"}}

\* A configured kind comes with its configuration, whose column is there
\* with the right type; the others come with none.
Suits(kind, config) ==
    kind \in DOMAIN Needs => \E c \in There : config[kind] = {c} /\ shown[c] = Needs[kind]

Formless == {v \in Active : views[v].kind = "form" /\ ~Suits("form", views[v].config)}
Crowded  == {v \in Active : \E u \in Active \ {v} : views[u].order = views[v].order}

\* The page is created with the catalogue its client sends.
ViewsInit ==
    /\ views \in Snapshots
    /\ shown = [c \in Shown |-> "none"]
    /\ request = [t \in Showing |-> Waiting]
    /\ asked = 0
    /\ aging = FALSE
    /\ formless = Formless /\ crowded = Crowded

Ask(t, r) ==
    /\ request[t].what = "nothing"
    /\ asked < MaxViewEdits /\ asked' = asked + 1
    /\ request' = [request EXCEPT ![t] = r]
    /\ UNCHANGED <<views, shown, aging, formless, crowded>>

-----------------------------------------------------------------------------
(* What each request reads and plans.                                       *)

Configured(kind, c) == [NoView.config EXCEPT ![kind] = c]

\* After the last view of the page; where no view has an order, as many as
\* there are.
OrdersTaken == {views[v].order : v \in Active} \ {Unordered}
NextOrder ==
    IF OrdersTaken = {} THEN Cardinality(Active)
    ELSE 1 + (CHOOSE n \in OrdersTaken : \A m \in OrdersTaken : m <= n)

CreateView(t, kind, c) ==
    /\ kind \notin DOMAIN Needs => c = {}
    /\ LET config == IF c = {} THEN NoView.config ELSE Configured(kind, c) IN
       /\ Suits(kind, config)
       /\ Ask(t, [Waiting EXCEPT !.what = "insert",
               !.new = [NoView EXCEPT !.kind = kind, !.order = NextOrder, !.config = config]])

\* A copy has everything of its source, which must still be there; the flow
\* of a form must still run.
DuplicateView(t, v) ==
    /\ v \in Active
    /\ views[v].kind = "form" => Suits("form", views[v].config)
    /\ Ask(t, [Waiting EXCEPT !.what = "insert", !.from = {v},
                              !.new = [views[v] EXCEPT !.order = NextOrder]])

DeleteView(t, v) ==
    /\ v \in Active
    /\ Ask(t, [Waiting EXCEPT !.what = "delete", !.view = {v}])

\* A first catalogue, for a page without a view.
PutViews(t) ==
    /\ Active = {}
    /\ Ask(t, [Waiting EXCEPT !.what = "put", !.read = views])

\* The whole catalogue in a new order, compared with all of it.
ReorderViews(t, order) ==
    /\ Len(order) = Cardinality(Active) /\ Active # {}
    /\ {order[n] : n \in DOMAIN order} = Active
    /\ Ask(t, [Waiting EXCEPT !.what = "reorder", !.order = order, !.read = views])

\* A patch may change the kind, the configuration of the kind it leaves the
\* view with, or both; only the paths that differ are written.
PatchView(t, v, kind, c) ==
    /\ v \in Active
    /\ c # {} => kind \in DOMAIN Needs
    /\ LET config == IF c = {} THEN views[v].config ELSE [views[v].config EXCEPT ![kind] = c] IN
       /\ Suits(kind, config)
       /\ Ask(t, [Waiting EXCEPT !.what = "patch", !.view = {v},
               !.new = [views[v] EXCEPT !.kind = kind, !.config = config],
               !.paths = {k \in DOMAIN Needs : config[k] # views[v].config[k]}
                           \cup (IF kind = views[v].kind THEN {} ELSE {"kind"})])

\* References to columns that are not there are dropped, without an error.
PruneNothing(filters) == filters                                        \* mutant
Prune(filters) == filters \cap There

UpdateFilters(t, v, filters) ==
    /\ v \in Active
    /\ Ask(t, [Waiting EXCEPT !.what = "filters", !.view = {v},
                              !.new = [NoView EXCEPT !.filters = Prune(filters)]])

\* The repair of the filters of every view; the ones in order are left alone.
ReconcileFilters(t) ==
    LET broken == {v \in Active : views[v].filters # Prune(views[v].filters)} IN
    Ask(t, [Waiting EXCEPT !.what = "reconcile", !.view = broken,
                           !.read = [v \in broken |-> Prune(views[v].filters)]])

AddColumn(t, type) ==
    Ask(t, [Waiting EXCEPT !.what = "add", !.type = type])

UsedByNoForm(c) == FALSE                                                \* mutant
UsedByForm(c) == \E v \in Active : views[v].kind = "form" /\ views[v].config["form"] = {c}

\* A column whose flow a form runs is neither deleted nor given another type.
ChangeColumn(t, c, type) ==
    /\ c \in There /\ type # shown[c]
    /\ type = "gone" \/ shown[c] = "flow" => ~UsedByForm(c)
    /\ Ask(t, [Waiting EXCEPT !.what = "column", !.view = {c}, !.type = type])

-----------------------------------------------------------------------------
(* The writes.                                                              *)

Answered(t) ==
    /\ request' = [s \in Showing |->
            IF s = t \/ request[s].what = "nothing" THEN Waiting ELSE [request[s] EXCEPT !.aged = TRUE]]
    /\ aging' = (aging \/ request[t].aged)

Conflict(t) ==
    /\ request' = [request EXCEPT ![t] = Waiting]
    /\ UNCHANGED <<views, shown, asked, aging, formless, crowded>>

WriteInsert(t) ==
    /\ request[t].what = "insert"
    /\ IF ~(request[t].from \subseteq Active) THEN Conflict(t)
       ELSE /\ \E v \in ViewIds :
                  /\ ~IsView(v) /\ views' = [views EXCEPT ![v] = request[t].new]
                  /\ formless' = formless \ {v} /\ crowded' = crowded \ {v}
            /\ Answered(t) /\ UNCHANGED <<shown, asked>>

Patched(view, new, paths) ==
    [view EXCEPT !.kind = IF "kind" \in paths THEN new.kind ELSE @,
                 !.config = [k \in DOMAIN Needs |-> IF k \in paths THEN new.config[k] ELSE @[k]]]

\* One view, still there.
WriteView(t) ==
    /\ request[t].what \in {"delete", "patch", "filters"}
    /\ \E v \in request[t].view :
          IF v \notin Active THEN Conflict(t)
          ELSE /\ views' = [views EXCEPT ![v] =
                      CASE request[t].what = "delete"  -> [@ EXCEPT !.deleted = TRUE]
                        [] request[t].what = "filters" -> [@ EXCEPT !.filters = request[t].new.filters]
                        [] OTHER -> Patched(@, request[t].new, request[t].paths)]
               /\ formless' = (IF request[t].what = "patch" THEN formless \ {v} ELSE formless)
               /\ Answered(t) /\ UNCHANGED <<shown, asked, crowded>>

CatalogueThere(t) == \A n \in DOMAIN request[t].order : IsView(request[t].order[n])  \* mutant
Catalogue(t) == views = request[t].read

WriteOrder(t) ==
    /\ request[t].what = "reorder"
    /\ IF ~Catalogue(t) THEN Conflict(t)
       ELSE /\ views' = [v \in ViewIds |->
                   IF \E n \in DOMAIN request[t].order : request[t].order[n] = v
                   THEN [views[v] EXCEPT !.order =
                            (CHOOSE n \in DOMAIN request[t].order : request[t].order[n] = v) - 1]
                   ELSE views[v]]
            /\ crowded' = {}
            /\ Answered(t) /\ UNCHANGED <<shown, asked, formless>>

\* It takes the place of the whole, deleted views and all.
WriteViews(t) ==
    /\ request[t].what = "put"
    /\ IF ~Catalogue(t) THEN Conflict(t)
       ELSE /\ views' \in Snapshots
            /\ Answered(t) /\ UNCHANGED <<shown, asked>>
            /\ formless' = Formless' /\ crowded' = Crowded'

\* No view is asked for: one deleted meanwhile has its filters written too.
WriteReconciled(t) ==
    /\ request[t].what = "reconcile"
    /\ views' = [v \in ViewIds |-> IF v \in request[t].view
                                   THEN [views[v] EXCEPT !.filters = request[t].read[v]] ELSE views[v]]
    /\ Answered(t) /\ UNCHANGED <<shown, asked, formless, crowded>>

WriteColumn(t) ==
    /\ request[t].what \in {"add", "column"}
    /\ LET of == IF request[t].what = "add" THEN {c \in Shown : shown[c] = "none"}
                                            ELSE request[t].view \cap There
       IN IF of = {} THEN Conflict(t)
          ELSE /\ \E c \in of : shown' = [shown EXCEPT ![c] = request[t].type]
               /\ Answered(t) /\ UNCHANGED <<views, asked, formless, crowded>>

ViewsNext ==
    \E t \in Showing :
        \/ \E kind \in ViewKinds, c \in {{}} \cup {{x} : x \in Shown} :
              CreateView(t, kind, c) \/ \E v \in ViewIds : PatchView(t, v, kind, c)
        \/ \E v \in ViewIds : DuplicateView(t, v) \/ DeleteView(t, v)
              \/ \E filters \in SUBSET Shown : UpdateFilters(t, v, filters)
        \/ \E n \in 1 .. Cardinality(ViewIds) : \E order \in [1 .. n -> ViewIds] : ReorderViews(t, order)
        \/ PutViews(t) \/ ReconcileFilters(t)
        \/ \E type \in Types : AddColumn(t, type)
        \/ \E c \in Shown, type \in Types \cup {"gone"} : ChangeColumn(t, c, type)
        \/ WriteInsert(t) \/ WriteView(t) \/ WriteOrder(t) \/ WriteViews(t)
        \/ WriteReconciled(t) \/ WriteColumn(t)

ViewsSpec == ViewsInit /\ [][ViewsNext]_viewsVars

-----------------------------------------------------------------------------
(* Properties.                                                              *)

\* Views and columns have the types of what is kept of them.
ViewsTypeOK ==
    /\ views \in [ViewIds -> View]
    /\ shown \in [Shown -> Types \cup {"none", "gone"}]
    /\ aging \in BOOLEAN
    /\ formless \subseteq ViewIds /\ crowded \subseteq ViewIds

\* Ordering is whole or refused: whatever happened to the catalogue since it
\* was read, the views there are come out in places 0, 1, 2 and so on.
OrderIsWhole ==
    [][\A t \in Showing :
          request[t].what = "reorder" /\ views' # views /\ request'[t].what = "nothing" =>
              {views'[v].order : v \in Active} = 0 .. Cardinality(Active) - 1]_viewsVars

\* Unless a plan was written over a page that had changed since, each form
\* has the flow it runs, and no two views are in the same place, save those
\* that a first catalogue brought so and that nobody has put right.
FormsRun == ~aging => Formless \subseteq formless /\ Crowded \subseteq crowded

\* What every reachable state of the views satisfies.
ViewsInv == ViewsTypeOK /\ FormsRun

\* The filters of a view there is come to name a column that is not there
\* only by a request that read the page before the column went.
FiltersNameColumns ==
    [][\A v \in Active : views'[v].filters # views[v].filters =>
          \/ views'[v].filters \subseteq There
          \/ \E t \in Showing : request[t].aged /\ request'[t].what = "nothing"]_viewsVars
==============================================================================

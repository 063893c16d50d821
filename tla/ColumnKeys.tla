------------------------------ MODULE ColumnKeys ------------------------------
(***************************************************************************)
(* The names of the columns of one page over its life: created, renamed,   *)
(* deleted and repaired, with the title of its view, which is a column in  *)
(* the eyes of links (page-column-controller.ts, page-view-patch-planner,  *)
(* filter-key-reconciler.ts, commitFilterKeyReconcile).                    *)
(*                                                                         *)
(* Every request reads the page and its columns, plans, and writes its     *)
(* plan in one statement or transaction that compares none of the names it *)
(* read.  `overlapped` records that a plan was written over names that had *)
(* changed since, and that no repair has read the page afterwards;         *)
(* `retired` has every name a deleted column answered to, and `dropped`    *)
(* records that the page's list of them was written over what the request  *)
(* had not read.                                                           *)
(***************************************************************************)
EXTENDS PublicKeys

CONSTANTS
    MaxColumns,     \* bound: columns created
    MaxEdits,       \* bound: requests other than repairs
    OlderColumns,   \* the labels of the columns older than their keys
    Renamings       \* requests in progress at the same time

ASSUME ColumnKeysAssumption ==
    /\ MaxColumns \in Nat /\ MaxEdits \in Nat /\ Len(OlderColumns) <= MaxColumns
    /\ OlderColumns \in Seq(LabelNames \X {0})

VARIABLES
    columns,        \* page_columns of the page, in the order of their ids
    title,          \* the title of the view
    tombstones,     \* __filterKeyRegistry.columns
    intent,         \* by request: what it is about to write
    edits,          \* how many requests other than repairs there were
    overlapped, retired, dropped

keysVars == <<columns, title, tombstones, intent, edits, overlapped, retired, dropped>>
namesVars == <<columns, title, tombstones, overlapped, retired, dropped>>

Entity(label)  == [label |-> label, meta |-> Legacy, live |-> TRUE]
NoPlan         == [what |-> "nothing", id |-> 0, entity |-> Entity(<<>>), read |-> {},
                   all |-> <<>>, title |-> FALSE, stale |-> FALSE]
Live           == {i \in DOMAIN columns : columns[i].live}
Registry       == tombstones \cup Reserves(title)
Taken(except)  == UNION {Reserves(columns[i]) : i \in Live \ {except}}
LabelsIn       == LabelNames \X {0}

KeysInit ==
    /\ columns = [i \in DOMAIN OlderColumns |-> Entity(OlderColumns[i])]
    /\ title = Entity(CHOOSE l \in LabelsIn : TRUE)
    /\ tombstones = {}
    /\ intent = [t \in Renamings |-> NoPlan]
    /\ edits = 0
    /\ overlapped = TRUE
    /\ retired = {} /\ dropped = FALSE

Plan(t, p) ==
    /\ intent[t].what = "nothing"
    /\ p.what = "reconcile" \/ edits < MaxEdits
    /\ edits' = IF p.what = "reconcile" THEN edits ELSE edits + 1
    /\ intent' = [intent EXCEPT ![t] = p]
    /\ UNCHANGED namesVars

-----------------------------------------------------------------------------
(* What each request plans.                                                 *)

CreateColumn(t, label) ==
    LET new == AllocateDuplicateLabel(label, {columns[i].label : i \in Live}) IN
    Plan(t, [NoPlan EXCEPT !.what = "create", !.entity = [label |-> new, live |-> TRUE,
        meta |-> ReconcileMetadata(new, Legacy, Taken(0) \cup Registry, FALSE)]])

\* A label given explicitly is kept, even when another column has it.
UpdateColumn(t, c, label) ==
    /\ c \in Live
    /\ LET old    == columns[c]
           rename == NormalizePublicKey(label) # NormalizePublicKey(old.label)
       IN Plan(t, [NoPlan EXCEPT !.what = "update", !.id = c, !.entity = [label |-> label, live |-> TRUE,
            meta |-> ReconcileMetadata(label, old.meta, Taken(c) \cup Registry, rename)]])

DeleteColumn(t, c) ==
    /\ c \in Live
    /\ Plan(t, [NoPlan EXCEPT !.what = "delete", !.id = c, !.entity = columns[c], !.read = tombstones])

\* The title of a view that is there.
PatchTitle(t, label) ==
    /\ title.live
    /\ Plan(t, [NoPlan EXCEPT !.what = "title", !.entity = [label |-> label, live |-> TRUE,
           meta |-> ReconcileMetadata(label, title.meta, Taken(0) \cup tombstones,
                                      label # title.label)]])

\* The repair of every column and of the title, in the order they are read; a
\* deleted view keeps its title as it is.
Reconcile(t) ==
    LET meta == ReconcileScope([i \in Live |-> columns[i]], Registry)
        real == UNION {Known(meta[i]) : i \in Live}
        own  == ReconcileMetadata(title.label, title.meta, real, FALSE)
    IN Plan(t, [NoPlan EXCEPT !.what = "reconcile",
            !.all = [i \in {j \in Live : meta[j] # columns[j].meta} |-> meta[i]],
            !.entity = [title EXCEPT !.meta = own], !.title = (title.live /\ own # title.meta)])

-----------------------------------------------------------------------------
(* The writes.                                                              *)

\* Another request's plan is older than what was just written.
Overtake(t) ==
    intent' = [s \in Renamings |-> IF s = t \/ intent[s].what = "nothing" THEN NoPlan
                                 ELSE [intent[s] EXCEPT !.stale = TRUE]]

Wrote(t) == Overtake(t) /\ overlapped' = (overlapped \/ intent[t].stale)

Refuse(t) ==
    /\ intent' = [intent EXCEPT ![t] = NoPlan]
    /\ UNCHANGED <<namesVars, edits>>

WriteCreate(t) ==
    /\ intent[t].what = "create" /\ Len(columns) < MaxColumns
    /\ columns' = Append(columns, intent[t].entity)
    /\ Wrote(t)
    /\ UNCHANGED <<title, tombstones, edits, retired, dropped>>

WriteUpdate(t) ==
    /\ intent[t].what = "update"
    /\ IF intent[t].id \in Live
       THEN /\ columns' = [columns EXCEPT ![intent[t].id] = intent[t].entity]
            /\ Wrote(t) /\ UNCHANGED <<title, tombstones, edits, retired, dropped>>
       ELSE Refuse(t)

\* The list of retired names is written whole, with what was read of it and of
\* the column.
RetireLast(t) == Reserves(intent[t].entity)                             \* mutant
Retire(t) == intent[t].read \cup Reserves(intent[t].entity)

WriteDelete(t) ==
    /\ intent[t].what = "delete"
    /\ LET names == Reserves(columns[intent[t].id]) IN
       IF intent[t].id \in Live
       THEN /\ columns' = [columns EXCEPT ![intent[t].id].live = FALSE]
            /\ tombstones' = Retire(t)
            /\ retired' = retired \cup names
            /\ dropped' = (dropped \/ tombstones # intent[t].read \/ names # Reserves(intent[t].entity))
            /\ Wrote(t) /\ UNCHANGED <<title, edits>>
       ELSE Refuse(t)

WriteTitle(t) ==
    /\ intent[t].what = "title"
    /\ IF title.live
       THEN /\ title' = intent[t].entity
            /\ Wrote(t) /\ UNCHANGED <<columns, tombstones, edits, retired, dropped>>
       ELSE Refuse(t)

\* Nothing is written for a page in order, and nothing at all when one of the
\* columns to write is gone.  The labels stay as they are by now.
WriteReconcile(t) ==
    /\ intent[t].what = "reconcile"
    /\ LET all == intent[t].all  new == DOMAIN all
           some == new # {} \/ intent[t].title
       IN IF ~(new \subseteq Live) THEN Refuse(t)
          ELSE /\ columns' = [i \in DOMAIN columns |->
                      IF i \in new THEN [columns[i] EXCEPT !.meta = all[i]] ELSE columns[i]]
               /\ title' = IF intent[t].title THEN [intent[t].entity EXCEPT !.live = title.live] ELSE title
               /\ IF some THEN Overtake(t) ELSE intent' = [intent EXCEPT ![t] = NoPlan]
               /\ overlapped' = (intent[t].stale /\ (overlapped \/ some))
               /\ UNCHANGED <<tombstones, edits, retired, dropped>>

\* Requests that write only if what they read is still there.
Turn(t) ==
    /\ intent[t].what = "nothing"
    /\ edits < MaxEdits /\ edits' = edits + 1
    /\ Overtake(t)

\* A deleted view keeps its title, whose names stay reserved.
DeleteTitle(t) ==
    /\ title.live /\ title' = [title EXCEPT !.live = FALSE]
    /\ Turn(t)
    /\ UNCHANGED <<columns, tombstones, overlapped, retired, dropped>>

\* A page without views may be given its data anew, list of retired names and
\* all: a view under the id it had, with a title that nobody compared with
\* anything, whether it brings the key that was there or none.
PutSnapshot(t) ==
    /\ ~title.live
    /\ \E label \in LabelsIn, meta \in {Legacy, title.meta} :
          title' = [label |-> label, meta |-> meta, live |-> TRUE]
    /\ tombstones' \in SUBSET tombstones
    /\ dropped' = (dropped \/ tombstones' # tombstones)
    /\ overlapped' = TRUE
    /\ Turn(t)
    /\ UNCHANGED <<columns, retired>>

KeysNext ==
    \E t \in Renamings :
        \/ \E l \in LabelsIn : CreateColumn(t, l) \/ PatchTitle(t, l)
               \/ \E c \in DOMAIN columns : UpdateColumn(t, c, l)
        \/ \E c \in DOMAIN columns : DeleteColumn(t, c)
        \/ Reconcile(t) \/ DeleteTitle(t) \/ PutSnapshot(t)
        \/ WriteCreate(t) \/ WriteUpdate(t) \/ WriteDelete(t) \/ WriteTitle(t) \/ WriteReconcile(t)

KeysSpec == KeysInit /\ [][KeysNext]_keysVars

-----------------------------------------------------------------------------
(* Properties.                                                              *)

\* Columns have keys that are their own or none yet; plans are about columns.
KeysTypeOK ==
    /\ Len(columns) <= MaxColumns
    /\ \A i \in DOMAIN columns : columns[i].meta.key \notin columns[i].meta.aliases
    /\ \A t \in Renamings : intent[t].id \in 0 .. Len(columns)

\* A name in a link names one column: no other answers to it, nor the title,
\* nor did a deleted column ever, unless the list of retired names was written
\* over one that had changed, or replaced.  Requests that cross, or data given
\* anew, may break it, and a repair that reads the page afterwards restores it;
\* what was dropped from the list, no repair brings back.
NamesNameOne ==
    ~overlapped =>
        /\ \A i, j \in Live : i # j => Reserves(columns[i]) \cap Reserves(columns[j]) = {}
        /\ \A i \in Live : Reserves(columns[i]) \cap (tombstones \cup Reserves(title)) = {}
        /\ ~dropped => \A i \in Live : Reserves(columns[i]) \cap retired = {}

\* What every reachable state of the names satisfies.
KeysInv == KeysTypeOK /\ NamesNameOne

\* Links outlive renames: between a repair and the next requests that cross, a
\* name of a column stays one of its names, or is retired with it; and what is
\* retired stays so, unless the list is written over one that had changed.
LinksOutliveRenames ==
    [][/\ ~overlapped /\ ~overlapped' =>
             \A i \in Live : Reserves(columns[i]) \subseteq
                 IF columns'[i].live THEN Reserves(columns'[i]) ELSE tombstones'
       /\ ~dropped' => tombstones \subseteq tombstones']_keysVars

\* A repair of a page in order changes nothing.
OrderIsLeftAlone ==
    [][\A t \in Renamings :
          /\ intent[t].what = "reconcile" /\ intent'[t].what = "nothing"
          /\ ~overlapped /\ ~intent[t].stale
          => UNCHANGED <<columns, title>>]_keysVars

\* What the code promises of a deleted column (PageColumnController.deleteColumn,
\* "sem permitir que sua URL pública seja reutilizada"): in a page in order, no
\* column answers to a name of a deleted one.  Two deletions that cross break it.
NeverRecycled == ~overlapped => \A i \in Live : Reserves(columns[i]) \cap retired = {}
==============================================================================

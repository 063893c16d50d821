------------------------ MODULE ColumnsAndViewsProofs ------------------------
(***************************************************************************)
(* The views of a page and the names of its columns: proofs about          *)
(* PageViews, for any views, columns and requests, and about ColumnKeys    *)
(* with PublicKeys, for any names, columns and requests. What a request    *)
(* planned stays right until another one writes, which marks it aged, or   *)
(* stale; so an invariant says of each request that is not aged that what  *)
(* it means to write still suits the page (Fresh, Suit). That a scope of   *)
(* names can be reconciled at all, one entity after the other, and that it *)
(* is left alone when it is in order, is shown by going up the numbers of  *)
(* the entities (ScopeIs, ScopeInOrder).                                   *)
(***************************************************************************)
EXTENDS PageViews, ColumnKeys, FiniteSetTheorems, SequenceTheorems, WellFoundedInduction, TLAPS

-----------------------------------------------------------------------------
(* PageViews.                                                              *)

NatLess == {ss \in Nat \X Nat : ss[1] < ss[2]}

LEMMA NatWF == IsWellFoundedOn(NatLess, Nat)
  BY NatLessThanWellFounded DEF OpToRel, NatLess

\* Every set of naturals has a least element, and what holds of zero and of
\* every successor holds of all.
LEMMA LeastNat ==
  ASSUME NEW S, S \subseteq Nat, S # {}
  PROVE  \E x \in S : \A y \in S : x <= y
  <1>1. PICK x \in S : \A y \in S : ~ (<<y, x>> \in NatLess)
    BY NatWF, WFMin, Zenon
  <1>2. ASSUME NEW y \in S PROVE x <= y
    <2>1. <<y, x>> \in Nat \X Nat
      OBVIOUS
    <2>2. ~ (y < x)
      BY <1>1, <1>2, <2>1 DEF NatLess
    <2> QED BY <2>2
  <1> QED BY <1>2

LEMMA NatInd ==
  ASSUME NEW S, 0 \in S, \A n \in Nat : n \in S => n + 1 \in S
  PROVE  Nat \subseteq S
  <1> DEFINE B == {n \in Nat : n \notin S}
  <1>1. ASSUME B # {} PROVE FALSE
    <2>1. PICK m \in B : \A y \in B : m <= y
      BY <1>1, LeastNat
    <2>2. m # 0 /\ m - 1 \in Nat
      BY <2>1
    <2>3. m - 1 \in S
      BY <2>1, <2>2
    <2> QED BY <2>1, <2>2, <2>3
  <1> QED BY <1>1

\* A finite set of numbers has a greatest.
LEMMA Greatest ==
  ASSUME NEW T, T \subseteq Nat, IsFiniteSet(T), T # {}
  PROVE  \E m \in T : \A k \in T : k <= m
  <1> DEFINE Has(S) == \E m \in S : \A k \in S : k <= m
             Good == {n \in Nat : \A S \in SUBSET Nat :
                         IsFiniteSet(S) /\ Cardinality(S) = n /\ S # {} => Has(S)}
  <1>1. 0 \in Good
    BY FS_EmptySet
  <1>2. ASSUME NEW n \in Nat, n \in Good
        PROVE  n + 1 \in Good
    <2> SUFFICES ASSUME NEW S \in SUBSET Nat, IsFiniteSet(S), Cardinality(S) = n + 1, S # {}
                 PROVE  Has(S)
      OBVIOUS
    <2>1. PICK x \in S : TRUE
      OBVIOUS
    <2>2. IsFiniteSet(S \ {x}) /\ Cardinality(S \ {x}) = n /\ S \ {x} \in SUBSET Nat
      <3>1. IsFiniteSet(S \ {x}) /\ Cardinality(S \ {x}) = (n + 1) - 1
        BY <2>1, FS_RemoveElement
      <3> QED BY <3>1
    <2>3. CASE S \ {x} = {}
      BY <2>1, <2>3
    <2>4. CASE S \ {x} # {}
      <3>1. PICK m \in S \ {x} : \A k \in S \ {x} : k <= m
        BY <1>2, <2>2, <2>4
      <3>2. CASE x <= m
        BY <3>1, <3>2
      <3>3. CASE m <= x
        <4>1. \A k \in S : k <= x
          BY <3>1, <3>3
        <4> QED BY <4>1
      <3> QED BY <3>1, <3>2, <3>3
    <2> QED BY <2>3, <2>4
  <1> HIDE DEF Good
  <1>3. Nat \subseteq Good
    BY <1>1, <1>2, NatInd
  <1>4. Cardinality(T) \in Good
    BY <1>3, FS_CardinalityType
  <1> QED BY <1>4 DEF Good

-----------------------------------------------------------------------------
(* The inductive invariant.                                                 *)

AskFields == {"what", "view", "from", "new", "paths", "type", "order", "read", "aged"}
Shaped(r) == r = [f \in AskFields |-> r[f]]

ActiveOf(c) == {v \in ViewIds : c[v].kind # "none" /\ ~c[v].deleted}

\* An order is of the catalogue it was planned for, each view once.
Orders(order, c) ==
    /\ order \in Seq(ViewIds) /\ Len(order) = Cardinality(ActiveOf(c))
    /\ {order[n] : n \in DOMAIN order} = ActiveOf(c)

AskTypes(r) ==
    /\ Shaped(r) /\ r.aged \in BOOLEAN /\ r.new \in View
    /\ r.what \in {"nothing", "insert", "delete", "reorder", "patch", "filters", "reconcile", "add", "column", "put"}
    /\ r.what = "insert" => r.from \subseteq ViewIds /\ r.new.kind # "none"
    /\ r.what \in {"delete", "patch", "filters", "reconcile"} => r.view \subseteq ViewIds
    /\ r.what = "patch" => r.new.kind # "none"
    /\ r.what = "reorder" => Orders(r.order, r.read)
    /\ r.what = "put" => ActiveOf(r.read) = {}
    /\ r.what = "reconcile" => r.read \in [r.view -> SUBSET Shown]
    /\ r.what = "add" => r.type \in Types
    /\ r.what = "column" => r.view \subseteq Shown /\ r.type \in Types \cup {"gone"}

Runs(view) == view.kind = "form" => Suits("form", view.config)

\* What a request that is not aged means to write suits the page there is.
Fresh(r) ==
    /\ r.what = "insert" => Runs(r.new) /\ \A v \in Active : views[v].order < r.new.order
    /\ r.what = "patch" => \A v \in r.view : Runs(Patched(views[v], r.new, r.paths))
    /\ r.what = "filters" => r.new.filters \subseteq There
    /\ r.what = "reconcile" => \A v \in r.view : r.read[v] \subseteq There
    /\ r.what = "column" => \A c \in r.view : r.type = "gone" \/ shown[c] = "flow" => ~UsedByForm(c)

AskHolds(r) == AskTypes(r) /\ (~r.aged => Fresh(r))

AsksHold == request = [t \in Showing |-> request[t]] /\ \A t \in Showing : AskHolds(request[t])

ViewsInd == ViewsInv /\ AsksHold

-----------------------------------------------------------------------------
LEMMA Configurable == DOMAIN Needs = {"form", "heatmap"} /\ Needs["form"] = "flow"
  BY DEF Needs

LEMMA NoViewIsOne == NoView \in View
  BY DEF NoView, View, ViewKinds

LEMMA WaitingHolds == AskHolds(Waiting) /\ Waiting.what = "nothing"
  <1>1. Waiting.what = "nothing" /\ Waiting.aged = FALSE /\ Waiting.new = NoView /\ Shaped(Waiting)
    BY DEF Waiting, Shaped, AskFields
  <1> QED BY <1>1, NoViewIsOne DEF AskHolds, AskTypes, Fresh

\* What holds of a request says nothing of the other requests.
LEMMA AsksApart ==
  ASSUME NEW e, AskHolds(e), UNCHANGED <<views, shown>>
  PROVE  AskHolds(e)'
  <1>1. AskTypes(e)'
    BY DEF AskHolds, AskTypes, Shaped, Orders, ActiveOf, View
  <1>2. Active' = Active /\ There' = There
    BY DEF Active, IsView, There
  <1>3. \A v : Runs(v) => Runs(v)'
    BY <1>2 DEF Runs, Suits
  <1>4. \A c : UsedByForm(c)' = UsedByForm(c)
    BY <1>2 DEF UsedByForm
  <1>5. Fresh(e) => Fresh(e)'
    BY <1>2, <1>3, <1>4 DEF Fresh, Patched
  <1> QED BY <1>1, <1>5 DEF AskHolds

LEMMA ViewsApart ==
  ASSUME ViewsInv, UNCHANGED <<views, shown, aging, formless, crowded>>
  PROVE  ViewsInv'
  BY DEF ViewsInv, ViewsTypeOK, FormsRun, Formless, Crowded, Active, IsView, Suits, There

\* A request that begins.
LEMMA AskKeeps ==
  ASSUME ViewsInd, NEW t \in Showing, NEW r, Ask(t, r), AskHolds(r)
  PROVE  ViewsInd'
  <1>1. request' = [s \in Showing |-> IF s = t THEN r ELSE request[s]]
    BY DEF Ask, ViewsInd, AsksHold
  <1>2. UNCHANGED <<views, shown, aging, formless, crowded>>
    BY DEF Ask
  <1>3. ASSUME NEW s \in Showing
        PROVE  AskHolds(request[s])'
    <2>1. PICK e : e = request'[s] /\ AskHolds(e)
      BY <1>1 DEF ViewsInd, AsksHold
    <2> QED BY <1>2, <2>1, AsksApart
  <1>4. AsksHold'
    BY <1>1, <1>3 DEF AsksHold
  <1> QED BY <1>2, <1>4, ViewsApart DEF ViewsInd

\* A request that is refused.
LEMMA ConflictKeeps ==
  ASSUME ViewsInd, NEW t \in Showing, Conflict(t)
  PROVE  ViewsInd'
  <1>1. request' = [s \in Showing |-> IF s = t THEN Waiting ELSE request[s]]
    BY DEF Conflict, ViewsInd, AsksHold
  <1>2. UNCHANGED <<views, shown, aging, formless, crowded>>
    BY DEF Conflict
  <1>3. ASSUME NEW s \in Showing
        PROVE  AskHolds(request[s])'
    <2>1. PICK e : e = request'[s] /\ AskHolds(e)
      BY <1>1, WaitingHolds DEF ViewsInd, AsksHold
    <2> QED BY <1>2, <2>1, AsksApart
  <1>4. AsksHold'
    BY <1>1, <1>3 DEF AsksHold
  <1> QED BY <1>2, <1>4, ViewsApart DEF ViewsInd

\* A request that is answered: the others are aged, and owe nothing.
LEMMA AnsweredKeeps ==
  ASSUME ViewsInd, NEW t \in Showing, Answered(t), ViewsTypeOK',
         ~aging /\ ~request[t].aged => FormsRun'
  PROVE  ViewsInd'
  <1>1. request' = [s \in Showing |->
            IF s = t \/ request[s].what = "nothing" THEN Waiting ELSE [request[s] EXCEPT !.aged = TRUE]]
    BY DEF Answered
  <1>2. ASSUME NEW s \in Showing
        PROVE  AskHolds(request[s])'
    <2>1. PICK e : e = request'[s]
      OBVIOUS
    <2>2. AskTypes(e) /\ (e.aged \/ e.what = "nothing")
      <3>1. CASE e = Waiting
        BY <3>1, WaitingHolds DEF AskHolds
      <3>2. CASE e = [request[s] EXCEPT !.aged = TRUE]
        <4> DEFINE r == request[s]
        <4>1. AskTypes(r)
          BY DEF ViewsInd, AsksHold, AskHolds
        <4>2. /\ Shaped(e) /\ e.aged = TRUE /\ e.what = r.what /\ e.view = r.view /\ e.from = r.from
              /\ e.new = r.new /\ e.paths = r.paths /\ e.type = r.type /\ e.order = r.order
              /\ e.read = r.read
          BY <3>2, <4>1 DEF AskTypes, Shaped, AskFields
        <4> HIDE DEF r
        <4> QED BY <4>1, <4>2 DEF AskTypes
      <3> QED BY <1>1, <2>1, <3>1, <3>2
    <2>3. AskTypes(e)'
      BY <2>2 DEF AskTypes, Shaped, Orders, ActiveOf, View
    <2>4. e.what = "nothing" => Fresh(e)'
      BY DEF Fresh
    <2>5. AskHolds(e)'
      BY <2>2, <2>3, <2>4 DEF AskHolds
    <2> QED BY <2>1, <2>5
  <1>3. AsksHold'
    BY <1>1, <1>2 DEF AsksHold
  <1>4. FormsRun'
    <2>1. CASE aging \/ request[t].aged
      BY <2>1 DEF Answered, FormsRun
    <2>2. CASE ~aging /\ ~request[t].aged
      BY <2>2
    <2> QED BY <2>1, <2>2
  <1> QED BY <1>3, <1>4 DEF ViewsInd, ViewsInv

-----------------------------------------------------------------------------
(* The requests.                                                            *)

\* A new view comes after those there are.
LEMMA NextOrderIsLast ==
  ASSUME ViewsTypeOK
  PROVE  NextOrder \in Nat /\ \A v \in Active : views[v].order < NextOrder
  <1> DEFINE T == OrdersTaken
  <1>1. /\ T \subseteq Nat /\ IsFiniteSet(T) /\ IsFiniteSet(Active)
        /\ \A v \in Active : views[v].order \in T \cup {-1}
    <2>1. \A v \in Active : views[v].order \in Nat \cup {-1}
      BY DEF ViewsTypeOK, View, Active, Unordered
    <2>2. IsFiniteSet(Active)
      BY PageViewsAssumption, FS_Subset DEF Active
    <2> DEFINE R == {views[v].order : v \in Active}
               f == [v \in Active |-> views[v].order]
    <2>3. f \in Surjection(Active, R)
      BY DEF Surjection
    <2>4. IsFiniteSet(R)
      BY <2>2, <2>3, FS_Surjection
    <2>5. T = R \ {-1}
      BY DEF OrdersTaken, Unordered
    <2>6. IsFiniteSet(T)
      BY <2>4, <2>5, FS_Subset
    <2> QED BY <2>1, <2>2, <2>5, <2>6
  <1>2. CASE T = {}
    <2>1. NextOrder \in Nat
      BY <1>1, <1>2, FS_CardinalityType DEF NextOrder
    <2> HIDE DEF T
    <2>2. \A v \in Active : views[v].order = -1
      BY <1>1, <1>2
    <2> QED BY <2>1, <2>2
  <1>3. CASE T # {}
    <2> DEFINE top == CHOOSE n \in T : \A m \in T : m <= n
    <2>1. top \in T /\ \A m \in T : m <= top
      <3> HIDE DEF T
      <3>1. \E n \in T : \A m \in T : m <= n
        BY <1>1, <1>3, Greatest
      <3> QED BY <3>1
    <2>2. NextOrder = 1 + top
      BY <1>3 DEF NextOrder
    <2> HIDE DEF top, T
    <2>3. top \in Nat
      BY <1>1, <2>1
    <2>4. ASSUME NEW v \in Active PROVE views[v].order < NextOrder
      <3>1. views[v].order = -1 \/ (views[v].order \in Nat /\ views[v].order <= top)
        BY <1>1, <2>1
      <3> QED BY <2>2, <2>3, <3>1
    <2> QED BY <2>2, <2>3, <2>4
  <1> QED BY <1>2, <1>3

\* CreateView.
LEMMA CreateViewKeeps ==
  ASSUME ViewsInd, NEW t \in Showing, NEW kind \in ViewKinds,
         NEW c \in {{}} \cup {{x} : x \in Shown}, CreateView(t, kind, c)
  PROVE  ViewsInd'
  <1> DEFINE config == IF c = {} THEN NoView.config ELSE Configured(kind, c)
             new == [NoView EXCEPT !.kind = kind, !.order = NextOrder, !.config = config]
             r == [Waiting EXCEPT !.what = "insert", !.new = new]
  <1>1. Ask(t, r) /\ Suits(kind, config)
    BY DEF CreateView
  <1>2. ViewsTypeOK
    BY DEF ViewsInd, ViewsInv
  <1>3. config \in [DOMAIN Needs -> SUBSET Shown]
    BY DEF Configured, NoView
  <1>4. new \in View /\ new.kind = kind /\ new.order = NextOrder /\ new.config = config
    <2>1. NextOrder \in Nat
      BY <1>2, NextOrderIsLast
    <2> HIDE DEF config
    <2> QED BY <1>3, <2>1 DEF NoView, View
  <1> HIDE DEF new, config
  <1>5. Shaped(r) /\ r.what = "insert" /\ r.new = new /\ r.from = {} /\ r.aged = FALSE
    BY DEF Waiting, Shaped, AskFields
  <1> HIDE DEF r
  <1>6. AskTypes(r)
    BY <1>4, <1>5 DEF AskTypes, ViewKinds
  <1>7. Fresh(r)
    <2>1. Runs(r.new)
      BY <1>1, <1>4, <1>5 DEF Runs
    <2>2. \A v \in Active : views[v].order < r.new.order
      BY <1>2, <1>4, <1>5, NextOrderIsLast
    <2> QED BY <1>5, <2>1, <2>2 DEF Fresh
  <1> QED BY <1>1, <1>6, <1>7, AskKeeps DEF AskHolds

\* DuplicateView.
LEMMA DuplicateViewKeeps ==
  ASSUME ViewsInd, NEW t \in Showing, NEW v \in ViewIds, DuplicateView(t, v)
  PROVE  ViewsInd'
  <1> DEFINE new == [views[v] EXCEPT !.order = NextOrder]
             r == [Waiting EXCEPT !.what = "insert", !.from = {v}, !.new = new]
  <1>1. Ask(t, r) /\ Runs(views[v]) /\ v \in Active
    BY DEF DuplicateView, Runs
  <1>2. ViewsTypeOK
    BY DEF ViewsInd, ViewsInv
  <1>3. /\ new \in View /\ new.kind = views[v].kind /\ new.order = NextOrder
        /\ new.config = views[v].config /\ views[v].kind # "none"
    <2>1. NextOrder \in Nat /\ views[v] \in View /\ views[v].kind # "none"
      BY <1>1, <1>2, NextOrderIsLast DEF ViewsTypeOK, View, Active, IsView
    <2> QED BY <2>1 DEF View
  <1> HIDE DEF new
  <1>4. Shaped(r) /\ r.what = "insert" /\ r.new = new /\ r.from = {v} /\ r.aged = FALSE
    BY DEF Waiting, Shaped, AskFields
  <1> HIDE DEF r
  <1>5. AskTypes(r)
    BY <1>3, <1>4 DEF AskTypes
  <1>6. Fresh(r)
    <2>1. Runs(r.new)
      BY <1>1, <1>3, <1>4 DEF Runs
    <2>2. \A u \in Active : views[u].order < r.new.order
      BY <1>2, <1>3, <1>4, NextOrderIsLast
    <2> QED BY <1>4, <2>1, <2>2 DEF Fresh
  <1> QED BY <1>1, <1>5, <1>6, AskKeeps DEF AskHolds

\* DeleteView, ReorderViews and AddColumn, which plan nothing of a view.
LEMMA DeleteViewKeeps ==
  ASSUME ViewsInd, NEW t \in Showing, NEW v \in ViewIds, DeleteView(t, v)
  PROVE  ViewsInd'
  <1> DEFINE r == [Waiting EXCEPT !.what = "delete", !.view = {v}]
  <1>1. Shaped(r) /\ r.what = "delete" /\ r.view = {v} /\ r.aged = FALSE /\ r.new = NoView
    BY DEF Waiting, Shaped, AskFields
  <1>2. Ask(t, r)
    BY DEF DeleteView
  <1> HIDE DEF r
  <1>3. AskHolds(r)
    BY <1>1, NoViewIsOne DEF AskHolds, AskTypes, Fresh
  <1> QED BY <1>2, <1>3, AskKeeps

LEMMA ReorderViewsKeeps ==
  ASSUME ViewsInd, NEW t \in Showing, NEW n \in 1 .. Cardinality(ViewIds),
         NEW order \in [1 .. n -> ViewIds], ReorderViews(t, order)
  PROVE  ViewsInd'
  <1> DEFINE r == [Waiting EXCEPT !.what = "reorder", !.order = order, !.read = views]
  <1>1. /\ Shaped(r) /\ r.what = "reorder" /\ r.order = order /\ r.read = views
        /\ r.aged = FALSE /\ r.new = NoView
    BY DEF Waiting, Shaped, AskFields
  <1>2. Ask(t, r)
    BY DEF ReorderViews
  <1> HIDE DEF r
  <1>3. order \in Seq(ViewIds)
    <2>1. Cardinality(ViewIds) \in Nat
      BY PageViewsAssumption, FS_CardinalityType
    <2>2. n \in Nat
      BY <2>1
    <2> QED BY <2>2, SeqDef
  <1>4. Orders(r.order, r.read)
    BY <1>1, <1>3 DEF Orders, ReorderViews, ActiveOf, Active, IsView
  <1>5. AskHolds(r)
    BY <1>1, <1>4, NoViewIsOne DEF AskHolds, AskTypes, Fresh
  <1> QED BY <1>2, <1>5, AskKeeps

LEMMA AddColumnKeeps ==
  ASSUME ViewsInd, NEW t \in Showing, NEW type \in Types, AddColumn(t, type)
  PROVE  ViewsInd'
  <1> DEFINE r == [Waiting EXCEPT !.what = "add", !.type = type]
  <1>1. Shaped(r) /\ r.what = "add" /\ r.type = type /\ r.aged = FALSE /\ r.new = NoView
    BY DEF Waiting, Shaped, AskFields
  <1>2. Ask(t, r)
    BY DEF AddColumn
  <1> HIDE DEF r
  <1>3. AskHolds(r)
    BY <1>1, NoViewIsOne DEF AskHolds, AskTypes, Fresh
  <1> QED BY <1>2, <1>3, AskKeeps

\* PatchView: the paths it leaves alone are as it would write them.
LEMMA PatchViewKeeps ==
  ASSUME ViewsInd, NEW t \in Showing, NEW v \in ViewIds, NEW kind \in ViewKinds,
         NEW c \in {{}} \cup {{x} : x \in Shown}, PatchView(t, v, kind, c)
  PROVE  ViewsInd'
  <1> DEFINE config == IF c = {} THEN views[v].config ELSE [views[v].config EXCEPT ![kind] = c]
             new == [views[v] EXCEPT !.kind = kind, !.config = config]
             paths == {k \in DOMAIN Needs : config[k] # views[v].config[k]}
                         \cup (IF kind = views[v].kind THEN {} ELSE {"kind"})
             r == [Waiting EXCEPT !.what = "patch", !.view = {v}, !.new = new, !.paths = paths]
  <1>1. Ask(t, r) /\ Suits(kind, config)
    BY DEF PatchView
  <1>2. views[v] \in View
    BY DEF ViewsInd, ViewsInv, ViewsTypeOK, View
  <1>3. config \in [DOMAIN Needs -> SUBSET Shown]
    BY <1>2 DEF View
  <1>4. /\ "kind" \notin paths => kind = views[v].kind
        /\ \A k \in DOMAIN Needs : k \notin paths => config[k] = views[v].config[k]
    BY Configurable
  <1> HIDE DEF config, paths
  <1>5. new \in View /\ new.kind = kind /\ new.config = config
    BY <1>2, <1>3 DEF View
  <1>6. Runs(Patched(views[v], new, paths))
    <2> DEFINE e == Patched(views[v], new, paths)
    <2>1. e.kind = kind
      BY <1>2, <1>4, <1>5 DEF Patched, View
    <2>2. e.config = [k \in DOMAIN Needs |-> IF k \in paths THEN new.config[k] ELSE views[v].config[k]]
      BY <1>2 DEF Patched, View
    <2>3. e.config = config
      BY <1>3, <1>4, <1>5, <2>2
    <2> HIDE DEF e
    <2> QED BY <1>1, <2>1, <2>3 DEF Runs, Suits, e
  <1> HIDE DEF new
  <1>7. /\ Shaped(r) /\ r.what = "patch" /\ r.view = {v} /\ r.new = new /\ r.paths = paths
        /\ r.aged = FALSE
    BY DEF Waiting, Shaped, AskFields
  <1> HIDE DEF r
  <1>8. AskTypes(r)
    BY <1>5, <1>7 DEF AskTypes, ViewKinds
  <1>9. Fresh(r)
    BY <1>6, <1>7 DEF Fresh
  <1> QED BY <1>1, <1>8, <1>9, AskKeeps DEF AskHolds

\* UpdateFilters.
LEMMA UpdateFiltersKeeps ==
  ASSUME ViewsInd, NEW t \in Showing, NEW v \in ViewIds, NEW filters \in SUBSET Shown,
         UpdateFilters(t, v, filters)
  PROVE  ViewsInd'
  <1> DEFINE new == [NoView EXCEPT !.filters = Prune(filters)]
             r == [Waiting EXCEPT !.what = "filters", !.view = {v}, !.new = new]
  <1>1. Ask(t, r)
    BY DEF UpdateFilters
  <1>2. new \in View /\ new.filters \subseteq There
    BY DEF NoView, View, Prune, ViewKinds
  <1> HIDE DEF new
  <1>3. Shaped(r) /\ r.what = "filters" /\ r.view = {v} /\ r.new = new /\ r.aged = FALSE
    BY DEF Waiting, Shaped, AskFields
  <1> HIDE DEF r
  <1>4. AskHolds(r)
    BY <1>2, <1>3 DEF AskHolds, AskTypes, Fresh
  <1> QED BY <1>1, <1>4, AskKeeps

\* ReconcileFilters.
LEMMA ReconcileFiltersKeeps ==
  ASSUME ViewsInd, NEW t \in Showing, ReconcileFilters(t)
  PROVE  ViewsInd'
  <1> DEFINE broken == {v \in Active : views[v].filters # Prune(views[v].filters)}
             read == [v \in broken |-> Prune(views[v].filters)]
             r == [Waiting EXCEPT !.what = "reconcile", !.view = broken, !.read = read]
  <1>1. Ask(t, r)
    BY DEF ReconcileFilters
  <1>2. broken \subseteq ViewIds
    BY DEF Active
  <1>3. read \in [broken -> SUBSET Shown] /\ \A v \in broken : read[v] \subseteq There
    BY DEF Prune, There
  <1> HIDE DEF broken, read
  <1>4. /\ Shaped(r) /\ r.what = "reconcile" /\ r.view = broken /\ r.read = read
        /\ r.aged = FALSE /\ r.new = NoView
    BY DEF Waiting, Shaped, AskFields
  <1> HIDE DEF r
  <1>5. AskHolds(r)
    BY <1>2, <1>3, <1>4, NoViewIsOne DEF AskHolds, AskTypes, Fresh
  <1> QED BY <1>1, <1>5, AskKeeps

\* ChangeColumn.
LEMMA ChangeColumnKeeps ==
  ASSUME ViewsInd, NEW t \in Showing, NEW c \in Shown, NEW type \in Types \cup {"gone"},
         ChangeColumn(t, c, type)
  PROVE  ViewsInd'
  <1> DEFINE r == [Waiting EXCEPT !.what = "column", !.view = {c}, !.type = type]
  <1>1. /\ Shaped(r) /\ r.what = "column" /\ r.view = {c} /\ r.type = type
        /\ r.aged = FALSE /\ r.new = NoView
    BY DEF Waiting, Shaped, AskFields
  <1>2. Ask(t, r) /\ (type = "gone" \/ shown[c] = "flow" => ~UsedByForm(c))
    BY DEF ChangeColumn
  <1> HIDE DEF r
  <1>3. AskHolds(r)
    BY <1>1, <1>2, NoViewIsOne DEF AskHolds, AskTypes, Fresh
  <1> QED BY <1>2, <1>3, AskKeeps

-----------------------------------------------------------------------------
(* The writes.                                                              *)

\* A view runs what it ran, as long as no column changes.
LEMMA RunsOn ==
  ASSUME NEW e, Runs(e), UNCHANGED shown
  PROVE  Runs(e)'
  BY DEF Runs, Suits, There

\* FormsRun, view by view.
LEMMA FormsRunIf ==
  ASSUME \A v \in Active' : v \in formless' \/ Runs(views[v])',
         \A v, u \in Active' : views'[u].order = views'[v].order => u = v \/ v \in crowded'
  PROVE  FormsRun'
  BY DEF FormsRun, Formless, Crowded, Runs

LEMMA FormsRunThen ==
  ASSUME FormsRun, ~aging
  PROVE  /\ \A v \in Active : v \in formless \/ Runs(views[v])
         /\ \A v, u \in Active : views[u].order = views[v].order => u = v \/ v \in crowded
  BY DEF FormsRun, Formless, Crowded, Runs

\* WriteInsert.
LEMMA WriteInsertKeeps ==
  ASSUME ViewsInd, NEW t \in Showing, WriteInsert(t)
  PROVE  ViewsInd'
  <1> DEFINE r == request[t]
  <1>1. CASE ~(r.from \subseteq Active)
    BY <1>1, ConflictKeeps DEF WriteInsert
  <1>2. CASE r.from \subseteq Active
    <2>1. PICK v \in ViewIds : /\ ~IsView(v) /\ views' = [views EXCEPT ![v] = r.new]
                               /\ formless' = formless \ {v} /\ crowded' = crowded \ {v}
      BY <1>2 DEF WriteInsert
    <2>2. Answered(t) /\ UNCHANGED <<shown, asked>> /\ r.what = "insert"
      BY <1>2 DEF WriteInsert
    <2>3. AskTypes(r) /\ (~r.aged => Fresh(r)) /\ ViewsTypeOK /\ FormsRun
      BY DEF ViewsInd, ViewsInv, AsksHold, AskHolds
    <2> HIDE DEF r
    <2>4. views' = [u \in ViewIds |-> IF u = v THEN r.new ELSE views[u]]
      BY <2>1, <2>3 DEF ViewsTypeOK
    <2>5. ViewsTypeOK'
      <3>1. aging' \in BOOLEAN
        BY <2>2, <2>3 DEF Answered, ViewsTypeOK, ViewsInd, AsksHold, AskHolds, AskTypes
      <3>2. views' \in [ViewIds -> View]
        BY <2>2, <2>3, <2>4 DEF ViewsTypeOK, AskTypes
      <3> QED BY <2>1, <2>2, <2>3, <3>1, <3>2 DEF ViewsTypeOK
    <2>6. ASSUME ~aging, ~r.aged
          PROVE  FormsRun'
      <3>1. /\ Runs(r.new) /\ \A u \in Active : views[u].order < r.new.order /\ views[u].order \in Int
            /\ r.new.order \in Int
        BY <2>2, <2>3, <2>6 DEF Fresh, AskTypes, View, ViewsTypeOK, Active, Unordered
      <3>2. There' = There
        BY <2>2 DEF There
      <3>3. \A u \in ViewIds : u \in Active' => u = v \/ u \in Active
        BY <2>4 DEF Active, IsView
      <3>4. ASSUME NEW u \in Active'
            PROVE  u \in formless' \/ Runs(views[u])'
        <4>1. CASE u = v
          <5>1. views'[u] = r.new
            BY <2>4, <4>1
          <5>2. PICK e : e = r.new
            OBVIOUS
          <5> QED BY <2>2, <3>1, <5>1, <5>2, RunsOn
        <4>2. CASE u # v
          <5>1. u \in Active /\ views'[u] = views[u]
            BY <2>4, <3>3, <4>2 DEF Active
          <5>2. CASE u \in formless
            BY <2>1, <4>2, <5>2
          <5>3. CASE u \notin formless
            <6>1. PICK e : e = views[u] /\ Runs(e)
              BY <2>3, <2>6, <5>1, <5>3, FormsRunThen
            <6> QED BY <2>2, <5>1, <6>1, RunsOn
          <5> QED BY <5>2, <5>3
        <4> QED BY <4>1, <4>2
      <3>5. ASSUME NEW u \in Active', NEW w \in Active', views'[w].order = views'[u].order, w # u
            PROVE  u \in crowded'
        <4>1. u \in ViewIds /\ w \in ViewIds
          BY DEF Active
        <4>2. CASE u = v \/ w = v
          BY <2>4, <3>1, <3>3, <3>5, <4>1, <4>2
        <4>3. CASE u # v /\ w # v
          <5>1. u \in Active /\ w \in Active /\ views'[u] = views[u] /\ views'[w] = views[w]
            BY <2>4, <3>3, <4>1, <4>3
          <5>2. u \in crowded
            BY <2>3, <2>6, <3>5, <5>1, FormsRunThen
          <5> QED BY <2>1, <4>3, <5>2
        <4> QED BY <4>2, <4>3
      <3> QED BY <3>4, <3>5, FormsRunIf
    <2> QED BY <2>2, <2>5, <2>6, AnsweredKeeps DEF r
  <1> QED BY <1>1, <1>2

\* WriteView.
LEMMA WriteViewKeeps ==
  ASSUME ViewsInd, NEW t \in Showing, WriteView(t)
  PROVE  ViewsInd'
  <1> DEFINE r == request[t]
             what == r.what
  <1>1. AskTypes(r) /\ (~r.aged => Fresh(r)) /\ ViewsTypeOK /\ FormsRun
    BY DEF ViewsInd, ViewsInv, AsksHold, AskHolds
  <1>2. PICK v \in r.view :
          IF v \notin Active THEN Conflict(t)
          ELSE /\ views' = [views EXCEPT ![v] =
                      CASE what = "delete"  -> [views[v] EXCEPT !.deleted = TRUE]
                        [] what = "filters" -> [views[v] EXCEPT !.filters = r.new.filters]
                        [] OTHER -> Patched(views[v], r.new, r.paths)]
               /\ formless' = (IF what = "patch" THEN formless \ {v} ELSE formless)
               /\ Answered(t) /\ UNCHANGED <<shown, asked, crowded>>
    BY DEF WriteView
  <1>3. what \in {"delete", "patch", "filters"} /\ v \in ViewIds
    BY <1>1 DEF WriteView, AskTypes
  <1>4. CASE v \notin Active
    BY <1>2, <1>4, ConflictKeeps
  <1>5. CASE v \in Active
    <2> DEFINE e == CASE what = "delete"  -> [views[v] EXCEPT !.deleted = TRUE]
                      [] what = "filters" -> [views[v] EXCEPT !.filters = r.new.filters]
                      [] OTHER -> Patched(views[v], r.new, r.paths)
    <2>1. /\ views' = [views EXCEPT ![v] = e] /\ Answered(t) /\ UNCHANGED <<shown, asked, crowded>>
          /\ formless' = (IF what = "patch" THEN formless \ {v} ELSE formless)
      BY <1>2, <1>5
    <2>2. views[v] \in View /\ views[v].kind # "none"
      BY <1>1, <1>3, <1>5 DEF ViewsTypeOK, View, Active, IsView
    <2>3. /\ e \in View /\ e.order = views[v].order
          /\ what # "patch" => e.kind = views[v].kind /\ e.config = views[v].config
          /\ what = "patch" => e = Patched(views[v], r.new, r.paths)
      <3>1. CASE what = "delete"
        BY <2>2, <3>1 DEF View
      <3>2. CASE what = "filters"
        <4>1. e = [views[v] EXCEPT !.filters = r.new.filters]
          BY <3>2
        <4>2. r.new.filters \subseteq Shown
          BY <1>1 DEF AskTypes, View
        <4> HIDE DEF e
        <4> QED BY <2>2, <3>2, <4>1, <4>2 DEF View
      <3>3. CASE what = "patch"
        <4>1. e = Patched(views[v], r.new, r.paths)
          BY <3>3
        <4>2. r.new \in View
          BY <1>1 DEF AskTypes
        <4> HIDE DEF e
        <4> QED BY <2>2, <3>3, <4>1, <4>2 DEF View, Patched
      <3> QED BY <1>3, <3>1, <3>2, <3>3
    <2> HIDE DEF e, r
    <2>4. views' = [u \in ViewIds |-> IF u = v THEN e ELSE views[u]]
      BY <1>1, <2>1 DEF ViewsTypeOK
    <2>5. ViewsTypeOK'
      <3>1. aging' \in BOOLEAN
        BY <1>1, <2>1 DEF Answered, ViewsTypeOK, ViewsInd, AsksHold, AskHolds, AskTypes
      <3> QED BY <1>1, <2>1, <2>3, <2>4, <3>1 DEF ViewsTypeOK, View
    <2>6. ASSUME ~aging, ~r.aged
          PROVE  FormsRun'
      <3>1. v \in formless' \/ Runs(e)
        <4>1. CASE what = "patch"
          BY <1>1, <2>3, <2>6, <4>1 DEF Fresh
        <4>2. CASE what # "patch"
          <5>1. v \in formless \/ Runs(views[v])
            BY <1>1, <1>5, <2>6, FormsRunThen
          <5> QED BY <2>1, <2>3, <4>2, <5>1 DEF Runs
        <4> QED BY <4>1, <4>2
      <3>2. There' = There
        BY <2>1 DEF There
      <3>3. \A u \in ViewIds : u \in Active' => u \in Active
        BY <1>5, <2>4 DEF Active, IsView
      <3>4. ASSUME NEW u \in Active', u \notin formless'
            PROVE  Runs(views[u])'
        <4>1. CASE u = v
          <5>1. PICK n : n = e /\ Runs(n)
            BY <3>1, <3>4, <4>1
          <5>2. views'[u] = n
            BY <1>3, <2>4, <4>1, <5>1
          <5> QED BY <2>1, <5>1, <5>2, RunsOn
        <4>2. CASE u # v
          <5>1. u \in Active /\ views'[u] = views[u] /\ u \notin formless
            BY <2>1, <2>4, <3>3, <3>4, <4>2 DEF Active
          <5>2. PICK n : n = views[u] /\ Runs(n)
            BY <1>1, <2>6, <5>1, FormsRunThen
          <5> QED BY <2>1, <5>1, <5>2, RunsOn
        <4> QED BY <4>1, <4>2
      <3>5. ASSUME NEW u \in Active', NEW w \in Active', views'[w].order = views'[u].order, w # u
            PROVE  u \in crowded'
        <4>1. u \in Active /\ w \in Active /\ u \in ViewIds /\ w \in ViewIds
          BY <3>3 DEF Active
        <4>2. views'[u].order = views[u].order /\ views'[w].order = views[w].order
          BY <2>3, <2>4, <4>1
        <4>3. u \in crowded
          BY <1>1, <2>6, <3>5, <4>1, <4>2, FormsRunThen
        <4> QED BY <2>1, <4>3
      <3> QED BY <3>4, <3>5, FormsRunIf
    <2> QED BY <2>1, <2>5, <2>6, AnsweredKeeps DEF r
  <1> QED BY <1>4, <1>5

\* An order gives each view of its catalogue a place, and no two the same.
LEMMA OrdersEach ==
  ASSUME NEW order, NEW c, Orders(order, c)
  PROVE  /\ Len(order) \in Nat /\ DOMAIN order = 1 .. Len(order) /\ Len(order) = Cardinality(ActiveOf(c))
         /\ \A n \in DOMAIN order : order[n] \in ActiveOf(c)
         /\ \A v \in ActiveOf(c) : \E n \in DOMAIN order : order[n] = v
         /\ \A m, n \in DOMAIN order : order[m] = order[n] => m = n
  <1>1. /\ Len(order) \in Nat /\ DOMAIN order = 1 .. Len(order) /\ order \in [1 .. Len(order) -> ViewIds]
        /\ Len(order) = Cardinality(ActiveOf(c)) /\ {order[n] : n \in DOMAIN order} = ActiveOf(c)
    BY LenProperties DEF Orders
  <1>2. order \in Surjection(1 .. Len(order), ActiveOf(c))
    BY <1>1 DEF Surjection
  <1>3. IsFiniteSet(1 .. Len(order)) /\ Cardinality(1 .. Len(order)) = Len(order)
    BY <1>1, FS_Interval
  <1>4. order \in Injection(1 .. Len(order), ActiveOf(c))
    BY <1>1, <1>2, <1>3, FS_SurjSameCardinalityImpliesInj
  <1> QED BY <1>1, <1>4 DEF Injection, IsInjective

\* What an order that is written makes of the views.
LEMMA WrittenOrder ==
  ASSUME ViewsInd, NEW t \in Showing, WriteOrder(t), Catalogue(t)
  PROVE  /\ Orders(request[t].order, views)
         /\ \A v \in ViewIds \ Active : views'[v] = views[v]
         /\ \A n \in DOMAIN request[t].order :
               views'[request[t].order[n]] = [views[request[t].order[n]] EXCEPT !.order = n - 1]
         /\ views' \in [ViewIds -> View]
         /\ Active = ActiveOf(views)
  <1> DEFINE order == request[t].order
  <1>1. Orders(order, views) /\ Active = ActiveOf(views) /\ views \in [ViewIds -> View]
    BY DEF ViewsInd, ViewsInv, ViewsTypeOK, View, AsksHold, AskHolds, AskTypes, WriteOrder, Catalogue,
       Active, ActiveOf, IsView
  <1>2. views' = [v \in ViewIds |->
                   IF \E n \in DOMAIN order : order[n] = v
                   THEN [views[v] EXCEPT !.order = (CHOOSE n \in DOMAIN order : order[n] = v) - 1]
                   ELSE views[v]]
    BY DEF WriteOrder
  <1> HIDE DEF order
  <1>3. \A n \in DOMAIN order : order[n] \in Active /\ n \in Nat /\ n - 1 \in Nat
    BY <1>1, OrdersEach
  <1>4. ASSUME NEW n \in DOMAIN order
        PROVE  views'[order[n]] = [views[order[n]] EXCEPT !.order = n - 1]
    <2>1. (CHOOSE m \in DOMAIN order : order[m] = order[n]) = n
      BY <1>1, OrdersEach
    <2> QED BY <1>2, <1>3, <2>1 DEF Active
  <1>5. \A v \in ViewIds \ Active : views'[v] = views[v]
    BY <1>2, <1>3
  <1>6. views' \in [ViewIds -> View]
    <2> SUFFICES ASSUME NEW v \in ViewIds PROVE views'[v] \in View
      BY <1>2
    <2>1. CASE v \in Active
      <3>1. PICK n \in DOMAIN order : order[n] = v
        BY <1>1, <2>1, OrdersEach
      <3> QED BY <1>1, <1>3, <1>4, <3>1 DEF View
    <2>2. CASE v \notin Active
      BY <1>1, <1>5, <2>2
    <2> QED BY <2>1, <2>2
  <1> QED BY <1>1, <1>4, <1>5, <1>6 DEF order

\* WriteOrder.
LEMMA WriteOrderKeeps ==
  ASSUME ViewsInd, NEW t \in Showing, WriteOrder(t)
  PROVE  ViewsInd'
  <1>1. CASE ~Catalogue(t)
    BY <1>1, ConflictKeeps DEF WriteOrder
  <1>2. CASE Catalogue(t)
    <2> DEFINE order == request[t].order
    <2>1. Answered(t) /\ UNCHANGED <<shown, asked, formless>> /\ crowded' = {}
      BY <1>2 DEF WriteOrder
    <2>2. /\ Orders(order, views) /\ Active = ActiveOf(views)
          /\ \A v \in ViewIds \ Active : views'[v] = views[v]
          /\ \A n \in DOMAIN order : views'[order[n]] = [views[order[n]] EXCEPT !.order = n - 1]
          /\ views' \in [ViewIds -> View] /\ views \in [ViewIds -> View]
      BY <1>2, WrittenOrder DEF ViewsInd, ViewsInv, ViewsTypeOK, View
    <2> HIDE DEF order
    <2>3. ViewsTypeOK'
      <3>1. aging' \in BOOLEAN
        BY <2>1 DEF Answered, ViewsTypeOK, ViewsInd, ViewsInv, AsksHold, AskHolds, AskTypes
      <3> QED BY <2>1, <2>2, <3>1 DEF ViewsTypeOK, View, ViewsInd, ViewsInv
    <2>4. ASSUME NEW v \in ViewIds
          PROVE  /\ views'[v].kind = views[v].kind /\ views'[v].config = views[v].config
                 /\ views'[v].deleted = views[v].deleted
      <3>1. CASE v \in Active
        <4>1. PICK n \in DOMAIN order : order[n] = v
          BY <2>2, <3>1, OrdersEach
        <4>2. views[v] \in View /\ views'[v] = [views[v] EXCEPT !.order = n - 1]
          BY <2>2, <4>1
        <4> QED BY <4>2 DEF View
      <3>2. CASE v \notin Active
        BY <2>2, <3>2
      <3> QED BY <3>1, <3>2
    <2>5. Active' = Active /\ There' = There
      BY <2>1, <2>4 DEF Active, IsView, There
    <2>6. ASSUME ~aging, ~request[t].aged
          PROVE  FormsRun'
      <3>1. FormsRun
        BY DEF ViewsInd, ViewsInv
      <3>2. ASSUME NEW v \in Active, v \notin formless'
            PROVE  Runs(views[v])'
        <4>1. Runs(views[v])
          BY <2>1, <2>6, <3>1, <3>2, FormsRunThen
        <4>2. PICK n : n = views'[v]
          OBVIOUS
        <4>3. Runs(n)
          BY <2>4, <4>1, <4>2 DEF Runs, Active
        <4> QED BY <2>1, <4>2, <4>3, RunsOn
      <3>3. ASSUME NEW v \in Active, NEW u \in Active, views'[u].order = views'[v].order
            PROVE  u = v
        <4>1. PICK m \in DOMAIN order, n \in DOMAIN order : order[m] = u /\ order[n] = v
          BY <2>2, OrdersEach
        <4>2. m \in Nat /\ n \in Nat
          BY <2>2, OrdersEach
        <4>3. views'[u].order = m - 1 /\ views'[v].order = n - 1
          <5>1. views[u] \in View /\ views[v] \in View
            BY <2>2 DEF Active
          <5> QED BY <2>2, <4>1, <5>1 DEF View
        <4>4. m = n
          <5>1. m - 1 = n - 1
            BY <3>3, <4>3, Zenon
          <5> QED BY <4>2, <5>1
        <4> QED BY <4>1, <4>4
      <3> QED BY <2>5, <3>2, <3>3, FormsRunIf
    <2> QED BY <2>1, <2>3, <2>6, AnsweredKeeps
  <1> QED BY <1>1, <1>2

\* WriteViews: what a first catalogue brings is what it is recorded to bring.
LEMMA WriteViewsKeeps ==
  ASSUME ViewsInd, NEW t \in Showing, WriteViews(t)
  PROVE  ViewsInd'
  <1>1. CASE ~Catalogue(t)
    BY <1>1, ConflictKeeps DEF WriteViews
  <1>2. CASE Catalogue(t)
    <2>1. /\ views' \in Snapshots /\ Answered(t) /\ UNCHANGED <<shown, asked>>
          /\ formless' = Formless' /\ crowded' = Crowded'
      BY <1>2 DEF WriteViews
    <2>2. views' \in [ViewIds -> View]
      BY <2>1, PageViewsAssumption
    <2>3. aging' \in BOOLEAN
      BY <2>1 DEF Answered, ViewsTypeOK, ViewsInd, ViewsInv, AsksHold, AskHolds, AskTypes
    <2>4. Formless' \subseteq ViewIds /\ Crowded' \subseteq ViewIds
      BY DEF Formless, Crowded, Active
    <2>5. ViewsTypeOK'
      BY <2>1, <2>2, <2>3, <2>4 DEF ViewsTypeOK, ViewsInd, ViewsInv
    <2>6. FormsRun'
      BY <2>1 DEF FormsRun
    <2> QED BY <2>1, <2>5, <2>6, AnsweredKeeps
  <1> QED BY <1>1, <1>2

\* PutViews, which plans nothing of a view either.
LEMMA PutViewsKeeps ==
  ASSUME ViewsInd, NEW t \in Showing, PutViews(t)
  PROVE  ViewsInd'
  <1> DEFINE r == [Waiting EXCEPT !.what = "put", !.read = views]
  <1>1. /\ Shaped(r) /\ r.what = "put" /\ r.read = views
        /\ r.aged = FALSE /\ r.new = NoView
    BY DEF Waiting, Shaped, AskFields
  <1>2. Ask(t, r)
    BY DEF PutViews
  <1> HIDE DEF r
  <1>3. ActiveOf(r.read) = {}
    BY <1>1 DEF PutViews, Active, ActiveOf, IsView
  <1>4. AskHolds(r)
    BY <1>1, <1>3, NoViewIsOne DEF AskHolds, AskTypes, Fresh
  <1> QED BY <1>2, <1>4, AskKeeps

\* WriteReconciled.
LEMMA WriteReconciledKeeps ==
  ASSUME ViewsInd, NEW t \in Showing, WriteReconciled(t)
  PROVE  ViewsInd'
  <1> DEFINE r == request[t]
  <1>1. AskTypes(r) /\ ViewsTypeOK /\ FormsRun /\ r.what = "reconcile"
    BY DEF ViewsInd, ViewsInv, AsksHold, AskHolds, WriteReconciled
  <1>2. /\ views' = [v \in ViewIds |-> IF v \in r.view
                                       THEN [views[v] EXCEPT !.filters = r.read[v]] ELSE views[v]]
        /\ Answered(t) /\ UNCHANGED <<shown, asked, formless, crowded>>
    BY DEF WriteReconciled
  <1> HIDE DEF r
  <1>3. ASSUME NEW v \in ViewIds
        PROVE  /\ views'[v] \in View /\ views'[v].kind = views[v].kind
               /\ views'[v].config = views[v].config
               /\ views'[v].deleted = views[v].deleted /\ views'[v].order = views[v].order
    <2>1. views[v] \in View /\ (v \in r.view => r.read[v] \subseteq Shown)
      BY <1>1 DEF ViewsTypeOK, View, AskTypes
    <2> QED BY <1>2, <2>1 DEF View
  <1>4. ViewsTypeOK'
    <2>1. aging' \in BOOLEAN
      BY <1>1, <1>2 DEF Answered, ViewsTypeOK, ViewsInd, AsksHold, AskHolds, AskTypes
    <2> QED BY <1>1, <1>2, <1>3, <2>1 DEF ViewsTypeOK, View
  <1>5. Active' = Active /\ There' = There
    BY <1>2, <1>3 DEF Active, IsView, There
  <1>6. ASSUME ~aging
        PROVE  FormsRun'
    <2>1. \A v \in Active : v \in ViewIds
      BY DEF Active
    <2>2. Formless' = Formless /\ Crowded' = Crowded
      BY <1>2, <1>3, <1>5, <2>1 DEF Formless, Crowded, Suits
    <2> QED BY <1>1, <1>2, <1>6, <2>2 DEF FormsRun
  <1> QED BY <1>2, <1>4, <1>6, AnsweredKeeps

\* WriteColumn.
LEMMA WriteColumnKeeps ==
  ASSUME ViewsInd, NEW t \in Showing, WriteColumn(t)
  PROVE  ViewsInd'
  <1> DEFINE r == request[t]
             of == IF r.what = "add" THEN {c \in Shown : shown[c] = "none"} ELSE r.view \cap There
  <1>1. AskTypes(r) /\ (~r.aged => Fresh(r)) /\ ViewsTypeOK /\ FormsRun /\ r.what \in {"add", "column"}
    BY DEF ViewsInd, ViewsInv, AsksHold, AskHolds, WriteColumn
  <1>2. CASE of = {}
    BY <1>2, ConflictKeeps DEF WriteColumn
  <1>3. CASE of # {}
    <2>1. /\ \E c \in of : shown' = [shown EXCEPT ![c] = r.type]
          /\ Answered(t) /\ UNCHANGED <<views, asked, formless, crowded>>
      BY <1>3 DEF WriteColumn
    <2>2. PICK c \in of : shown' = [shown EXCEPT ![c] = r.type]
      BY <2>1
    <2>3. /\ c \in Shown /\ r.type \in Types \cup {"gone"}
          /\ r.what = "column" => c \in r.view
          /\ r.what = "add" => shown[c] = "none"
      BY <1>1 DEF AskTypes, There
    <2> HIDE DEF r, of
    <2>4. shown' = [b \in Shown |-> IF b = c THEN r.type ELSE shown[b]]
      BY <1>1, <2>2 DEF ViewsTypeOK
    <2>5. ViewsTypeOK'
      <3>1. aging' \in BOOLEAN
        BY <1>1, <2>1 DEF Answered, ViewsTypeOK, ViewsInd, AsksHold, AskHolds, AskTypes
      <3> QED BY <1>1, <2>1, <2>3, <2>4, <3>1 DEF ViewsTypeOK
    <2>6. Active' = Active
      BY <2>1 DEF Active, IsView
    <2>7. ASSUME ~aging, ~r.aged
          PROVE  FormsRun'
      <3>1. ASSUME NEW v \in Active, views[v].kind = "form", v \notin formless
            PROVE  Suits("form", views[v].config)'
        <4>1. PICK b \in There : views[v].config["form"] = {b} /\ shown[b] = "flow"
          BY <1>1, <2>7, <3>1, Configurable DEF FormsRun, Formless, Suits
        <4>2. b # c
          <5>1. CASE r.what = "add"
            BY <2>3, <4>1, <5>1
          <5>2. CASE r.what = "column"
            BY <1>1, <2>3, <2>7, <3>1, <4>1, <5>2 DEF Fresh, UsedByForm
          <5> QED BY <1>1, <5>1, <5>2
        <4>3. b \in There' /\ shown'[b] = "flow" /\ views' = views
          BY <2>1, <2>4, <4>1, <4>2 DEF There
        <4> QED BY <4>1, <4>3, Configurable DEF Suits
      <3>2. Formless' \subseteq formless'
        BY <2>1, <2>6, <3>1 DEF Formless
      <3>3. Crowded' = Crowded
        BY <2>1, <2>6 DEF Crowded
      <3> QED BY <1>1, <2>1, <2>7, <3>2, <3>3 DEF FormsRun
    <2> QED BY <2>1, <2>5, <2>7, AnsweredKeeps DEF r
  <1> QED BY <1>2, <1>3

-----------------------------------------------------------------------------
(* Every behaviour.                                                         *)

LEMMA ViewsStart == ViewsInit => ViewsInd
  <1> SUFFICES ASSUME ViewsInit PROVE ViewsInd
    OBVIOUS
  <1>1. ViewsTypeOK
    BY PageViewsAssumption DEF ViewsInit, ViewsTypeOK, Formless, Crowded, Active
  <1>2. FormsRun
    BY DEF FormsRun, ViewsInit
  <1>3. AsksHold
    BY WaitingHolds DEF AsksHold, ViewsInit
  <1> QED BY <1>1, <1>2, <1>3 DEF ViewsInd, ViewsInv

LEMMA ViewsStay == ViewsInd /\ [ViewsNext]_viewsVars => ViewsInd'
  <1> SUFFICES ASSUME ViewsInd, [ViewsNext]_viewsVars
               PROVE  ViewsInd'
    OBVIOUS
  <1>1. CASE UNCHANGED viewsVars
    <2>1. UNCHANGED <<views, shown, aging, formless, crowded>> /\ request' = request
      BY <1>1 DEF viewsVars
    <2>2. ASSUME NEW s \in Showing
          PROVE  AskHolds(request[s])'
      <3>1. PICK e : e = request'[s] /\ AskHolds(e)
        BY <2>1 DEF ViewsInd, AsksHold
      <3> QED BY <2>1, <3>1, AsksApart
    <2> QED BY <2>1, <2>2, ViewsApart DEF ViewsInd, AsksHold
  <1>2. CASE ViewsNext
    <2> PICK t \in Showing :
        \/ \E kind \in ViewKinds, c \in {{}} \cup {{x} : x \in Shown} :
              CreateView(t, kind, c) \/ \E v \in ViewIds : PatchView(t, v, kind, c)
        \/ \E v \in ViewIds : DuplicateView(t, v) \/ DeleteView(t, v)
              \/ \E filters \in SUBSET Shown : UpdateFilters(t, v, filters)
        \/ \E n \in 1 .. Cardinality(ViewIds) : \E order \in [1 .. n -> ViewIds] : ReorderViews(t, order)
        \/ PutViews(t) \/ ReconcileFilters(t)
        \/ \E type \in Types : AddColumn(t, type)
        \/ \E c \in Shown, type \in Types \cup {"gone"} : ChangeColumn(t, c, type)
        \/ WriteInsert(t) \/ WriteView(t) \/ WriteOrder(t) \/ WriteViews(t)
        \/ WriteReconciled(t) \/ WriteColumn(t)
      BY <1>2 DEF ViewsNext
    <2>1. CASE \E kind \in ViewKinds, c \in {{}} \cup {{x} : x \in Shown} :
                  CreateView(t, kind, c) \/ \E v \in ViewIds : PatchView(t, v, kind, c)
      BY <2>1, CreateViewKeeps, PatchViewKeeps
    <2>2. CASE \E v \in ViewIds : DuplicateView(t, v) \/ DeleteView(t, v)
                  \/ \E filters \in SUBSET Shown : UpdateFilters(t, v, filters)
      BY <2>2, DuplicateViewKeeps, DeleteViewKeeps, UpdateFiltersKeeps
    <2>3. CASE \E n \in 1 .. Cardinality(ViewIds) :
                  \E order \in [1 .. n -> ViewIds] : ReorderViews(t, order)
      BY <2>3, ReorderViewsKeeps
    <2>4. CASE \E type \in Types : AddColumn(t, type)
      BY <2>4, AddColumnKeeps
    <2>5. CASE \E c \in Shown, type \in Types \cup {"gone"} : ChangeColumn(t, c, type)
      BY <2>5, ChangeColumnKeeps
    <2> QED BY <2>1, <2>2, <2>3, <2>4, <2>5, PutViewsKeeps, ReconcileFiltersKeeps, WriteInsertKeeps, WriteViewKeeps,
               WriteOrderKeeps, WriteViewsKeeps, WriteReconciledKeeps, WriteColumnKeeps
  <1> QED BY <1>1, <1>2

\* Unless a plan was written over a page that had changed since it was read,
\* each form has the flow it runs and no two views are in one place, whatever
\* views and columns other requests create, patch, reorder and delete, save
\* those that a first catalogue brought so and that were not put right since.
THEOREM ViewsSafe == ViewsSpec => []ViewsInv
  <1>1. ViewsInd => ViewsInv
    BY DEF ViewsInd
  <1> QED BY <1>1, ViewsStart, ViewsStay, PTL DEF ViewsSpec

\* The steps that write views, by name.
LEMMA Writes ==
  ASSUME ViewsInd, [ViewsNext]_viewsVars, views' # views
  PROVE  \E t \in Showing : /\ \/ WriteInsert(t) \/ WriteView(t) \/ WriteOrder(t)
                               \/ WriteViews(t) \/ WriteReconciled(t)
                            /\ ~Conflict(t)
  <1>1. ViewsNext
    BY DEF viewsVars
  <1> PICK t \in Showing :
        \/ \E kind \in ViewKinds, c \in {{}} \cup {{x} : x \in Shown} :
              CreateView(t, kind, c) \/ \E v \in ViewIds : PatchView(t, v, kind, c)
        \/ \E v \in ViewIds : DuplicateView(t, v) \/ DeleteView(t, v)
              \/ \E filters \in SUBSET Shown : UpdateFilters(t, v, filters)
        \/ \E n \in 1 .. Cardinality(ViewIds) : \E order \in [1 .. n -> ViewIds] : ReorderViews(t, order)
        \/ PutViews(t) \/ ReconcileFilters(t)
        \/ \E type \in Types : AddColumn(t, type)
        \/ \E c \in Shown, type \in Types \cup {"gone"} : ChangeColumn(t, c, type)
        \/ WriteInsert(t) \/ WriteView(t) \/ WriteOrder(t) \/ WriteViews(t)
        \/ WriteReconciled(t) \/ WriteColumn(t)
    BY <1>1 DEF ViewsNext
  <1>2. \A r : ~Ask(t, r)
    BY DEF Ask
  <1>3. ~Conflict(t)
    BY DEF Conflict
  <1>4. ~WriteColumn(t)
    BY <1>3 DEF WriteColumn
  <1> QED BY <1>2, <1>3, <1>4 DEF CreateView, PatchView, DuplicateView, DeleteView, UpdateFilters,
             PutViews, ReorderViews, ReconcileFilters, AddColumn, ChangeColumn

\* Answering one request ends no other.
LEMMA OneEnds ==
  ASSUME NEW t \in Showing, Answered(t)
  PROVE  /\ request'[t].what = "nothing"
         /\ \A s \in Showing : AskTypes(request[s]) /\ request[s].what # "nothing"
                                /\ request'[s].what = "nothing" => s = t
  <1>1. request' = [s \in Showing |->
            IF s = t \/ request[s].what = "nothing" THEN Waiting ELSE [request[s] EXCEPT !.aged = TRUE]]
    BY DEF Answered
  <1>2. ASSUME NEW s \in Showing \ {t}, AskTypes(request[s]), request[s].what # "nothing"
        PROVE  request'[s].what = request[s].what
    BY <1>1, <1>2 DEF AskTypes, Shaped, AskFields
  <1> QED BY <1>1, <1>2, WaitingHolds

LEMMA OrderWritten ==
  ASSUME ViewsInd, [ViewsNext]_viewsVars, NEW t \in Showing, request[t].what = "reorder",
         views' # views, request'[t].what = "nothing"
  PROVE  {views'[v].order : v \in Active} = 0 .. Cardinality(Active) - 1
  <1>1. PICK s \in Showing : /\ \/ WriteInsert(s) \/ WriteView(s) \/ WriteOrder(s)
                                \/ WriteViews(s) \/ WriteReconciled(s)
                             /\ ~Conflict(s)
    BY Writes
  <1>2. Answered(s)
    BY <1>1 DEF WriteInsert, WriteView, WriteOrder, WriteViews, WriteReconciled
  <1>3. s = t
    BY <1>2, OneEnds DEF ViewsInd, AsksHold, AskHolds
  <1>4. WriteOrder(t) /\ Catalogue(t)
    <2>1. ~WriteInsert(t) /\ ~WriteViews(t) /\ ~WriteReconciled(t)
      BY DEF WriteInsert, WriteViews, WriteReconciled
    <2>2. ~WriteView(t)
      <3>1. request[t].what \notin {"delete", "patch", "filters"}
        OBVIOUS
      <3> QED BY <3>1 DEF WriteView
    <2>3. WriteOrder(t) /\ ~Conflict(t)
      BY <1>1, <1>3, <2>1, <2>2
    <2> QED BY <2>3 DEF WriteOrder
  <1> DEFINE order == request[t].order
  <1>5. /\ Orders(order, views) /\ Active = ActiveOf(views) /\ views \in [ViewIds -> View]
        /\ \A n \in DOMAIN order : views'[order[n]] = [views[order[n]] EXCEPT !.order = n - 1]
    BY <1>4, WrittenOrder DEF ViewsInd, ViewsInv, ViewsTypeOK, View
  <1> HIDE DEF order
  <1>6. /\ Len(order) \in Nat /\ DOMAIN order = 1 .. Len(order) /\ Len(order) = Cardinality(Active)
        /\ \A n \in DOMAIN order : order[n] \in Active
        /\ \A v \in Active : \E n \in DOMAIN order : order[n] = v
    BY <1>5, OrdersEach
  <1>7. \A n \in DOMAIN order : views'[order[n]].order = n - 1
    <2> SUFFICES ASSUME NEW n \in DOMAIN order PROVE views'[order[n]].order = n - 1
      OBVIOUS
    <2>1. views[order[n]] \in View /\ views'[order[n]] = [views[order[n]] EXCEPT !.order = n - 1]
      BY <1>5, <1>6 DEF Active
    <2> QED BY <2>1 DEF View
  <1>8. ASSUME NEW v \in Active
        PROVE  views'[v].order \in 0 .. Cardinality(Active) - 1
    <2>1. PICK n \in DOMAIN order : order[n] = v
      BY <1>6
    <2>2. n \in 1 .. Cardinality(Active) /\ Cardinality(Active) \in Nat
      BY <1>6
    <2>3. views'[v].order = n - 1
      BY <1>7, <2>1
    <2> QED BY <2>2, <2>3
  <1>9. ASSUME NEW k \in 0 .. Cardinality(Active) - 1
        PROVE  \E v \in Active : views'[v].order = k
    <2>1. k + 1 \in DOMAIN order
      BY <1>6
    <2>2. order[k + 1] \in Active /\ views'[order[k + 1]].order = (k + 1) - 1
      BY <1>6, <1>7, <2>1
    <2>3. (k + 1) - 1 = k
      OBVIOUS
    <2> QED BY <2>2, <2>3
  <1> QED BY <1>8, <1>9

\* A reordering that is answered puts the views there are in places 0, 1, 2
\* and so on: one that crosses the creation or deletion of a view is refused.
THEOREM OrdersAreWhole == ViewsSpec => OrderIsWhole
  <1>1. ViewsInd /\ [ViewsNext]_viewsVars =>
          [\A t \in Showing :
             request[t].what = "reorder" /\ views' # views /\ request'[t].what = "nothing" =>
                 {views'[v].order : v \in Active} = 0 .. Cardinality(Active) - 1]_viewsVars
    BY OrderWritten
  <1> QED BY <1>1, ViewsStart, ViewsStay, PTL DEF ViewsSpec, OrderIsWhole

LEMMA FiltersWritten ==
  ASSUME ViewsInd, [ViewsNext]_viewsVars, NEW v \in Active,
         views'[v].filters # views[v].filters
  PROVE  \/ views'[v].filters \subseteq There
         \/ \E t \in Showing : request[t].aged /\ request'[t].what = "nothing"
  <1>1. PICK t \in Showing : /\ \/ WriteInsert(t) \/ WriteView(t) \/ WriteOrder(t)
                                \/ WriteViews(t) \/ WriteReconciled(t)
                             /\ ~Conflict(t)
    BY Writes
  <1>2. Answered(t) /\ request'[t].what = "nothing"
    <2>1. Answered(t)
      BY <1>1 DEF WriteInsert, WriteView, WriteOrder, WriteViews, WriteReconciled
    <2> QED BY <2>1, OneEnds
  <1>3. /\ AskTypes(request[t]) /\ (~request[t].aged => Fresh(request[t]))
        /\ views \in [ViewIds -> View] /\ views[v] \in View /\ v \in ViewIds /\ IsView(v)
    BY DEF ViewsInd, ViewsInv, ViewsTypeOK, AsksHold, AskHolds, Active
  <1>4. CASE WriteInsert(t)
    BY <1>1, <1>3, <1>4 DEF WriteInsert
  <1>5. CASE WriteView(t)
    <2>1. PICK u \in request[t].view : views' = [views EXCEPT ![u] =
                      CASE request[t].what = "delete"  -> [views[u] EXCEPT !.deleted = TRUE]
                        [] request[t].what = "filters" -> [views[u] EXCEPT !.filters = request[t].new.filters]
                        [] OTHER -> Patched(views[u], request[t].new, request[t].paths)]
      BY <1>1, <1>5 DEF WriteView
    <2>2. u = v
      BY <1>3, <2>1
    <2>3. views'[v] = CASE request[t].what = "delete"  -> [views[v] EXCEPT !.deleted = TRUE]
                        [] request[t].what = "filters" -> [views[v] EXCEPT !.filters = request[t].new.filters]
                        [] OTHER -> Patched(views[v], request[t].new, request[t].paths)
      BY <1>3, <2>1, <2>2
    <2>4. CASE request[t].what = "filters"
      <3>1. views'[v] = [views[v] EXCEPT !.filters = request[t].new.filters]
        BY <2>3, <2>4
      <3>2. views'[v].filters = request[t].new.filters
        BY <1>3, <3>1 DEF View
      <3> QED BY <1>2, <1>3, <2>4, <3>2 DEF Fresh
    <2>5. CASE request[t].what = "delete"
      <3>1. views'[v] = [views[v] EXCEPT !.deleted = TRUE]
        BY <2>3, <2>5
      <3> QED BY <1>3, <3>1 DEF View
    <2>6. CASE request[t].what \notin {"filters", "delete"}
      <3>1. views'[v] = Patched(views[v], request[t].new, request[t].paths)
        BY <2>3, <2>6
      <3> QED BY <1>3, <3>1 DEF View, Patched
    <2> QED BY <2>4, <2>5, <2>6
  <1>6. CASE WriteOrder(t)
    <2>1. \E k : views'[v] = [views[v] EXCEPT !.order = k] \/ views'[v] = views[v]
      BY <1>1, <1>3, <1>6 DEF WriteOrder
    <2> QED BY <1>3, <2>1 DEF View
  <1>7. CASE WriteReconciled(t)
    <2>1. \/ views'[v] = views[v]
          \/ v \in request[t].view /\ views'[v] = [views[v] EXCEPT !.filters = request[t].read[v]]
      BY <1>3, <1>7 DEF WriteReconciled
    <2>2. v \in request[t].view /\ views'[v].filters = request[t].read[v]
      BY <1>3, <2>1 DEF View
    <2> QED BY <1>2, <1>3, <1>7, <2>2 DEF Fresh, WriteReconciled
  <1>8. CASE WriteViews(t)
    BY <1>1, <1>3, <1>8 DEF WriteViews, Catalogue, AskTypes, ActiveOf, Active, IsView
  <1> QED BY <1>1, <1>4, <1>5, <1>6, <1>7, <1>8

\* The filters of a view there is come to name a column that is not there only by the
\* answer to a request that read the page before something else was written.
THEOREM FiltersAreOfColumns == ViewsSpec => FiltersNameColumns
  <1>1. ViewsInd /\ [ViewsNext]_viewsVars =>
          [\A v \in Active : views'[v].filters # views[v].filters =>
              \/ views'[v].filters \subseteq There
              \/ \E t \in Showing : request[t].aged /\ request'[t].what = "nothing"]_viewsVars
    BY FiltersWritten
  <1> QED BY <1>1, ViewsStart, ViewsStay, PTL DEF ViewsSpec, FiltersNameColumns

-----------------------------------------------------------------------------
(* ColumnKeys and PublicKeys.                                              *)

\* What a function makes of a finite set is finite.
LEMMA ImageIsFinite ==
  ASSUME NEW S, IsFiniteSet(S), NEW f
  PROVE  IsFiniteSet({f[x] : x \in S})
  <1> DEFINE T == {f[x] : x \in S}
             g == [x \in S |-> f[x]]
  <1>1. g \in Surjection(S, T)
    BY DEF Surjection
  <1> QED BY <1>1, FS_Surjection DEF ExistsSurjection

\* Among as many numbers as a set has members, and one more, one is not of it.
LEMMA FreeNumber ==
  ASSUME NEW S, IsFiniteSet(S), NEW lo \in Nat, NEW f, \A m, n \in Nat : f[m] = f[n] => m = n
  PROVE  \E n \in lo .. Cardinality(S) + lo : f[n] \notin S
  <1> DEFINE I == lo .. Cardinality(S) + lo
             g == [n \in I |-> f[n]]
  <1>1. Cardinality(S) \in Nat
    BY FS_CardinalityType
  <1>2. IsFiniteSet(I) /\ Cardinality(S) < Cardinality(I)
    <2>1. IsFiniteSet(I) /\ Cardinality(I) = (Cardinality(S) + lo) - lo + 1
      BY <1>1, FS_Interval
    <2> QED BY <1>1, <2>1
  <1>3. I \subseteq Nat
    BY <1>1
  <1>4. ASSUME \A n \in I : f[n] \in S PROVE FALSE
    <2>1. g \in [I -> S]
      BY <1>4
    <2> HIDE DEF I, g
    <2>2. PICK x, y \in I : x # y /\ g[x] = g[y]
      BY <1>2, <2>1, FS_PigeonHole
    <2> QED BY <1>3, <2>2 DEF g
  <1> QED BY <1>4

LEMMA LeastIs ==
  ASSUME NEW S, S \subseteq Nat, S # {}
  PROVE  Least(S) \in S
  BY LeastNat DEF Least

-----------------------------------------------------------------------------
(* Keys.                                                                    *)

Part    == {Simple[l] : l \in DOMAIN Simple} \cup Nat
AKey    == Seq(Part)
KeySets == {S \in SUBSET AKey : IsFiniteSet(S)}
ALabel  == LabelNames \X Nat

\* What is stored of the names of an entity: nothing, or a key and others.
Meta == {m \in [key : AKey, aliases : KeySets] :
            (m.key = <<>> => m = Legacy) /\ m.key \notin m.aliases}

Entities == [label : ALabel, meta : Meta, live : BOOLEAN]

LEMMA NormalKey ==
  ASSUME NEW label \in ALabel
  PROVE  NormalizePublicKey(label) \in AKey \ {<<>>}
  <1>1. label[1] \in LabelNames /\ label[2] \in Nat
    BY DEF ALabel
  <1>2. Simple[label[1]] \in Part /\ label[2] \in Part
    BY <1>1, PublicKeysAssumption DEF Part
  <1> QED BY <1>2 DEF NormalizePublicKey, AKey

LEMMA KeySetsJoin ==
  /\ {} \in KeySets
  /\ \A S, T \in KeySets : S \cup T \in KeySets
  /\ \A S \in KeySets : \A T : S \ T \in KeySets /\ S \cap T \in KeySets
  /\ \A k \in AKey : {k} \in KeySets
  <1>1. {} \in KeySets
    BY FS_EmptySet DEF KeySets
  <1>2. \A S, T \in KeySets : S \cup T \in KeySets
    BY FS_Union DEF KeySets
  <1>3. ASSUME NEW S \in KeySets, NEW T PROVE S \ T \in KeySets /\ S \cap T \in KeySets
    <2>1. S \ T \in SUBSET S /\ S \cap T \in SUBSET S
      OBVIOUS
    <2> QED BY <2>1, FS_Subset DEF KeySets
  <1>4. \A k \in AKey : {k} \in KeySets
    BY FS_Singleton DEF KeySets
  <1> QED BY <1>1, <1>2, <1>3, <1>4

\* A name that is given out is nobody's.
LEMMA AllocatedIsFree ==
  ASSUME NEW base \in AKey \ {<<>>}, NEW reserved \in KeySets
  PROVE  /\ AllocatePublicKey(base, reserved) \in AKey \ {<<>>}
         /\ AllocatePublicKey(base, reserved) \notin reserved
         /\ base \notin reserved => AllocatePublicKey(base, reserved) = base
  <1> DEFINE f == [n \in Nat |-> Append(base, n)]
             free == {n \in 2 .. Cardinality(reserved) + 2 : Append(base, n) \notin reserved}
  <1>1. \A n \in Nat : n \in Part
    BY DEF Part
  <1>2. \A n \in Nat : /\ Append(base, n) \in AKey \ {<<>>}
                       /\ Append(base, n)[Len(base) + 1] = n
    BY <1>1 DEF AKey
  <1>3. \A m, n \in Nat : f[m] = f[n] => m = n
    BY <1>2
  <1>4. free # {} /\ free \subseteq Nat
    <2>1. PICK n \in 2 .. Cardinality(reserved) + 2 : f[n] \notin reserved
      <3> HIDE DEF f
      <3>1. IsFiniteSet(reserved)
        BY DEF KeySets
      <3> QED BY <1>3, <3>1, FreeNumber
    <2>2. Cardinality(reserved) \in Nat
      BY FS_CardinalityType DEF KeySets
    <2>3. \A k \in 2 .. Cardinality(reserved) + 2 : k \in Nat
      BY <2>2
    <2>4. n \in free
      BY <2>1, <2>3
    <2> QED BY <2>3, <2>4
  <1>5. Least(free) \in free
    <2> HIDE DEF free
    <2> QED BY <1>4, LeastIs
  <1> QED BY <1>2, <1>4, <1>5 DEF AllocatePublicKey

LEMMA KnownKeys ==
  ASSUME NEW m \in Meta
  PROVE  Known(m) \in KeySets /\ (Keyed(m) <=> m.key # <<>>)
  <1>1. m.key \in AKey /\ m.aliases \in KeySets /\ (m.key = <<>> => m = Legacy) /\ Legacy.key = <<>>
    BY DEF Meta, Legacy
  <1> QED BY <1>1, KeySetsJoin DEF Known, Keyed

LEMMA LegacyMeta == Legacy \in Meta /\ ~Keyed(Legacy)
  <1>1. <<>> \in AKey
    BY DEF AKey
  <1> QED BY <1>1, KeySetsJoin DEF Meta, Legacy, Keyed

LEMMA ReservedKeys ==
  ASSUME NEW e \in Entities
  PROVE  Reserves(e) \in KeySets
  <1>1. e.label \in ALabel /\ e.meta \in Meta
    BY DEF Entities
  <1> QED BY <1>1, KnownKeys, NormalKey, KeySetsJoin DEF Reserves

\* An entity comes out with names of its own; it keeps those it had, and all of
\* them stay as they are unless it is renamed.
LEMMA Reconciled ==
  ASSUME NEW label \in ALabel, NEW meta \in Meta, NEW reserved \in KeySets, NEW rename \in BOOLEAN
  PROVE  LET m == ReconcileMetadata(label, meta, reserved, rename)
         IN /\ m \in Meta /\ Keyed(m) /\ Known(m) \cap reserved = {}
            /\ Keyed(meta) /\ Known(meta) \cap reserved = {} => Known(meta) \subseteq Known(m)
            /\ Keyed(meta) /\ Known(meta) \cap reserved = {} /\ ~rename => m = meta
            /\ ~Keyed(meta) /\ NormalizePublicKey(label) \notin reserved => NormalizePublicKey(label) \in Known(m)
  <1> DEFINE base == NormalizePublicKey(label)
             past == Known(meta) \ ({base} \cup reserved)
             key  == AllocatePublicKey(base, reserved \cup past)
             keep == [meta EXCEPT !.aliases = @ \ reserved]
             new  == [key |-> key, aliases |-> past \ {key}]
             m    == ReconcileMetadata(label, meta, reserved, rename)
  <1>1. base \in AKey \ {<<>>}
    BY NormalKey
  <1>2. past \in KeySets /\ reserved \cup past \in KeySets
    BY KnownKeys, KeySetsJoin
  <1>3. /\ key \in AKey \ {<<>>} /\ key \notin reserved \cup past
        /\ base \notin reserved \cup past => key = base
    <2> HIDE DEF base, past
    <2> QED BY <1>1, <1>2, AllocatedIsFree
  <1>4. /\ meta = [key |-> meta.key, aliases |-> meta.aliases]
        /\ meta.key \in AKey /\ meta.aliases \in KeySets /\ meta.key \notin meta.aliases
    BY DEF Meta
  <1>5. CASE Keyed(meta) /\ ~rename /\ meta.key \notin reserved
    <2>1. m = keep
      BY <1>5 DEF ReconcileMetadata
    <2>2. keep = [key |-> meta.key, aliases |-> meta.aliases \ reserved]
      BY <1>4
    <2>3. meta.key # <<>>
      BY <1>5, KnownKeys
    <2>4. keep \in Meta
      BY <1>4, <2>2, <2>3, KeySetsJoin DEF Meta
    <2>5. Keyed(keep)
      BY <2>2, <2>3, <2>4, KnownKeys
    <2>6. Known(meta) = {meta.key} \cup meta.aliases /\ Known(keep) = {meta.key} \cup (meta.aliases \ reserved)
      BY <1>5, <2>2, <2>5 DEF Known
    <2>7. Known(meta) \cap reserved = {} => meta.aliases \ reserved = meta.aliases
      BY <2>6
    <2>8. Known(meta) \cap reserved = {} => keep = meta
      BY <1>4, <2>2, <2>7
    <2> HIDE DEF m, keep
    <2> QED BY <1>5, <2>1, <2>4, <2>5, <2>6, <2>8 DEF m
  <1>6. CASE ~(Keyed(meta) /\ ~rename /\ meta.key \notin reserved)
    <2>1. m = new
      BY <1>6 DEF ReconcileMetadata
    <2>2. past \ {key} \in KeySets
      BY <1>2, KeySetsJoin
    <2> HIDE DEF key
    <2>3. new \in Meta
      BY <1>3, <2>2 DEF Meta
    <2>4. Keyed(new)
      BY <1>3, <2>3, KnownKeys
    <2>5. Known(new) = {key} \cup past
      BY <2>4 DEF Known
    <2>6. ~Keyed(meta) => Known(meta) = {}
      BY DEF Known
    <2>7. Keyed(meta) => meta.key \in Known(meta)
      BY DEF Known
    <2>8. Known(meta) \cap reserved = {} => Known(meta) \subseteq Known(new)
      BY <1>3, <2>5
    <2>9. ~(Keyed(meta) /\ Known(meta) \cap reserved = {} /\ ~rename)
      BY <1>6, <2>7
    <2>10. ~Keyed(meta) /\ base \notin reserved => base \in Known(new)
      BY <1>3, <2>5, <2>6
    <2> HIDE DEF m, new, base, past
    <2>11. Known(new) \cap reserved = {}
      BY <1>3, <2>5 DEF past
    <2> QED BY <2>1, <2>3, <2>4, <2>8, <2>9, <2>10, <2>11 DEF m, base
  <1> QED BY <1>5, <1>6

UnionOf(h, D) == UNION {h[j] : j \in D}

LEMMA UnionOfKeys ==
  ASSUME NEW D, IsFiniteSet(D), NEW h, \A j \in D : h[j] \in KeySets
  PROVE  UnionOf(h, D) \in KeySets
  <1> DEFINE T == {h[j] : j \in D}
  <1>1. IsFiniteSet(T)
    BY ImageIsFinite
  <1>2. IsFiniteSet(UNION T)
    BY <1>1, FS_UNION DEF KeySets
  <1>3. UNION T \subseteq AKey
    BY DEF KeySets
  <1> QED BY <1>2, <1>3 DEF KeySets, UnionOf

-----------------------------------------------------------------------------
(* A whole scope.                                                           *)

\* Entities by number.
IsScope(e) == (\E N \in Nat : DOMAIN e \subseteq 1 .. N) /\ \A i \in DOMAIN e : e[i] \in Entities

LEMMA ScopeDomain ==
  ASSUME NEW e, IsScope(e)
  PROVE  DOMAIN e \subseteq Nat /\ IsFiniteSet(DOMAIN e)
  <1>1. PICK N \in Nat : DOMAIN e \subseteq 1 .. N
    BY DEF IsScope
  <1>2. IsFiniteSet(1 .. N) /\ DOMAIN e \in SUBSET (1 .. N)
    BY <1>1, FS_Interval
  <1>3. \A i \in 1 .. N : i \in Nat
    OBVIOUS
  <1> QED BY <1>2, <1>3, FS_Subset

Before(e, i) == {n \in DOMAIN e : n < i}
AreMeta(D, f) == \A j \in D : f[j] \in Meta

\* The names that i must leave, when f is what those before it came out with.
Others(e, external, f, i) ==
    NamesOfOthers(e, external, i) \cup UNION {Known(f[j]) : j \in Before(e, i)}

Step(e, external, f, i) == ReconcileMetadata(e[i].label, e[i].meta, Others(e, external, f, i), FALSE)

LEMMA OthersAreKeys ==
  ASSUME NEW e, IsScope(e), NEW external \in KeySets, NEW i \in DOMAIN e, NEW f, AreMeta(Before(e, i), f)
  PROVE  /\ Others(e, external, f, i) \in KeySets
         /\ \A k \in external : k \in Others(e, external, f, i)
         /\ \A j \in Before(e, i) : Known(f[j]) \subseteq Others(e, external, f, i)
  <1> DEFINE D == DOMAIN e
             r == [j \in D |-> Reserves(e[j])]
             all == external \cup UNION {Reserves(e[j]) : j \in D}
             E == Before(e, i)
             h == [j \in E |-> Known(f[j])]
  <1>0. IsFiniteSet(D) /\ IsFiniteSet(E)
    <2>1. IsFiniteSet(D) /\ E \in SUBSET D
      BY ScopeDomain DEF Before
    <2> QED BY <2>1, FS_Subset
  <1>1. all \in KeySets
    <2>1. \A j \in D : r[j] \in KeySets
      BY ReservedKeys DEF IsScope
    <2>2. UnionOf(r, D) \in KeySets
      <3> HIDE DEF r, D
      <3> QED BY <1>0, <2>1, UnionOfKeys
    <2>3. UNION {Reserves(e[j]) : j \in D} = UnionOf(r, D)
      BY DEF UnionOf
    <2> QED BY <2>2, <2>3, KeySetsJoin
  <1>2. NamesOfOthers(e, external, i) \in KeySets
    <2>1. NamesOfOthers(e, external, i) = all \cap NamesOfOthers(e, external, i)
      BY DEF NamesOfOthers
    <2> HIDE DEF all
    <2> QED BY <1>1, <2>1, KeySetsJoin
  <1>3. UNION {Known(f[j]) : j \in E} \in KeySets
    <2>1. \A j \in E : h[j] \in KeySets
      BY KnownKeys DEF AreMeta
    <2>2. UnionOf(h, E) \in KeySets
      <3> HIDE DEF h, E
      <3> QED BY <1>0, <2>1, UnionOfKeys
    <2>3. UNION {Known(f[j]) : j \in E} = UnionOf(h, E)
      BY DEF UnionOf
    <2> QED BY <2>2, <2>3
  <1>4. \A k \in external : k \in NamesOfOthers(e, external, i)
    BY DEF NamesOfOthers, OwnerOf
  <1> QED BY <1>2, <1>3, <1>4, KeySetsJoin DEF Others

LEMMA StepIs ==
  ASSUME NEW e, IsScope(e), NEW external \in KeySets, NEW i \in DOMAIN e, NEW f, AreMeta(Before(e, i), f)
  PROVE  /\ Step(e, external, f, i) \in Meta /\ Keyed(Step(e, external, f, i))
         /\ Known(Step(e, external, f, i)) \cap external = {}
         /\ \A j \in Before(e, i) : Known(f[j]) \cap Known(Step(e, external, f, i)) = {}
         /\ Keyed(e[i].meta) /\ Known(e[i].meta) \cap Others(e, external, f, i) = {} =>
               Step(e, external, f, i) = e[i].meta
  <1>1. e[i].label \in ALabel /\ e[i].meta \in Meta
    BY DEF Entities, IsScope
  <1>2. Others(e, external, f, i) \in KeySets
    BY OthersAreKeys
  <1>3. /\ Step(e, external, f, i) \in Meta /\ Keyed(Step(e, external, f, i))
        /\ Known(Step(e, external, f, i)) \cap Others(e, external, f, i) = {}
        /\ Keyed(e[i].meta) /\ Known(e[i].meta) \cap Others(e, external, f, i) = {} =>
              Step(e, external, f, i) = e[i].meta
    <2> DEFINE label == e[i].label
               meta == e[i].meta
               reserved == Others(e, external, f, i)
    <2>1. FALSE \in BOOLEAN
      OBVIOUS
    <2> HIDE DEF label, meta, reserved
    <2>2. /\ ReconcileMetadata(label, meta, reserved, FALSE) \in Meta
          /\ Keyed(ReconcileMetadata(label, meta, reserved, FALSE))
          /\ Known(ReconcileMetadata(label, meta, reserved, FALSE)) \cap reserved = {}
          /\ Keyed(meta) /\ Known(meta) \cap reserved = {} =>
                ReconcileMetadata(label, meta, reserved, FALSE) = meta
      BY <1>1, <1>2, <2>1, Reconciled DEF label, meta, reserved
    <2> QED BY <2>2 DEF Step, label, meta, reserved
  <1>4. /\ \A k \in external : k \in Others(e, external, f, i)
        /\ \A j \in Before(e, i) : Known(f[j]) \subseteq Others(e, external, f, i)
    BY OthersAreKeys
  <1> QED BY <1>3, <1>4

\* The recursion of ReconcileScope has a solution: one step after the other.
LEMMA ScopeIs ==
  ASSUME NEW e, IsScope(e), NEW external \in KeySets
  PROVE  LET r == ReconcileScope(e, external)
         IN r = [i \in DOMAIN e |-> Step(e, external, r, i)]
  <1> DEFINE D == DOMAIN e
  <1>0. PICK N \in Nat : D \subseteq 1 .. N
    BY DEF IsScope
  <1>00. D \subseteq Nat /\ \A i \in D : 1 <= i /\ i <= N
    BY <1>0
  <1> DEFINE Upto(n, f) == \A i \in D : i <= n => f[i] = Step(e, external, f, i)
             S == {n \in Nat : \E f \in [D -> Meta] : Upto(n, f)}
  <1>1. 0 \in S
    <2>1. [i \in D |-> Legacy] \in [D -> Meta]
      BY LegacyMeta
    <2>2. \A f : Upto(0, f)
      BY <1>00
    <2> QED BY <2>1, <2>2
  <1>2. ASSUME NEW n \in Nat, n \in S PROVE n + 1 \in S
    <2>1. PICK f \in [D -> Meta] : Upto(n, f)
      BY <1>2
    <2>2. CASE n + 1 \notin D
      <3>1. \A i \in D : i <= n + 1 => i <= n
        BY <1>00, <2>2
      <3> QED BY <2>1, <3>1
    <2>3. CASE n + 1 \in D
      <3> DEFINE g == [f EXCEPT ![n + 1] = Step(e, external, f, n + 1)]
      <3>1. Step(e, external, f, n + 1) \in Meta
        <4>1. AreMeta(Before(e, n + 1), f)
          BY DEF AreMeta, Before
        <4> QED BY <2>3, <4>1, StepIs
      <3>2. g \in [D -> Meta]
        BY <3>1
      <3>3. \A i \in D : g[i] = IF i = n + 1 THEN Step(e, external, f, n + 1) ELSE f[i]
        OBVIOUS
      <3> HIDE DEF g
      <3>4. ASSUME NEW i \in D, i <= n + 1 PROVE Step(e, external, g, i) = Step(e, external, f, i)
        <4>1. \A j \in Before(e, i) : g[j] = f[j]
          BY <1>00, <3>3, <3>4 DEF Before
        <4>2. {Known(g[j]) : j \in Before(e, i)} = {Known(f[j]) : j \in Before(e, i)}
          BY <4>1
        <4> QED BY <4>2 DEF Step, Others
      <3>5. Upto(n + 1, g)
        BY <1>00, <2>1, <3>3, <3>4
      <3> QED BY <3>2, <3>5
    <2> QED BY <2>2, <2>3
  <1>3. N \in S
    <2> HIDE DEF S
    <2> QED BY <1>1, <1>2, NatInd
  <1>4. PICK f \in [D -> Meta] : Upto(N, f)
    BY <1>3
  <1> DEFINE Eq(g) == g = [i \in D |-> Step(e, external, g, i)]
  <1>6. Eq(f)
    <2>1. f = [i \in D |-> f[i]]
      OBVIOUS
    <2>2. \A i \in D : f[i] = Step(e, external, f, i)
      BY <1>00, <1>4
    <2> QED BY <2>1, <2>2
  <1>7. ReconcileScope(e, external) = CHOOSE g : Eq(g)
    BY DEF ReconcileScope, Step, Others, Before
  <1> HIDE DEF Eq
  <1>8. Eq(ReconcileScope(e, external))
    BY <1>6, <1>7
  <1> QED BY <1>8 DEF Eq

\* Every entity of a scope comes out with names that are its own.
LEMMA ScopeIsApart ==
  ASSUME NEW e, IsScope(e), NEW external \in KeySets
  PROVE  LET r == ReconcileScope(e, external)
         IN /\ r \in [DOMAIN e -> Meta]
            /\ \A i \in DOMAIN e : Keyed(r[i]) /\ Known(r[i]) \cap external = {}
            /\ \A i, j \in DOMAIN e : i # j => Known(r[i]) \cap Known(r[j]) = {}
  <1> DEFINE r == ReconcileScope(e, external)
             D == DOMAIN e
             B == {i \in D : r[i] \notin Meta}
  <1>0. D \subseteq Nat
    BY ScopeDomain
  <1>1. r = [i \in D |-> Step(e, external, r, i)]
    BY ScopeIs
  <1> HIDE DEF r
  <1>2. ASSUME B # {} PROVE FALSE
    <2>1. PICK i \in B : \A j \in B : i <= j
      BY <1>0, <1>2, LeastNat
    <2>2. AreMeta(Before(e, i), r)
      BY <1>0, <2>1 DEF AreMeta, Before
    <2>3. Step(e, external, r, i) \in Meta
      BY <2>2, StepIs
    <2> QED BY <1>1, <2>1, <2>3
  <1>3. r \in [D -> Meta]
    BY <1>1, <1>2
  <1>4. ASSUME NEW i \in D
        PROVE  /\ Keyed(r[i]) /\ Known(r[i]) \cap external = {}
               /\ \A j \in D : j < i => Known(r[j]) \cap Known(r[i]) = {}
    <2>1. r[i] = Step(e, external, r, i)
      BY <1>1
    <2>2. AreMeta(Before(e, i), r)
      BY <1>3 DEF AreMeta, Before
    <2>3. /\ Keyed(Step(e, external, r, i)) /\ Known(Step(e, external, r, i)) \cap external = {}
          /\ \A j \in Before(e, i) : Known(r[j]) \cap Known(Step(e, external, r, i)) = {}
      BY <2>2, StepIs
    <2> QED BY <2>1, <2>3 DEF Before
  <1>5. ASSUME NEW i \in D, NEW j \in D, i # j PROVE Known(r[i]) \cap Known(r[j]) = {}
    <2>1. i < j \/ j < i
      BY <1>0, <1>5
    <2> QED BY <1>4, <2>1
  <1> QED BY <1>3, <1>4, <1>5 DEF r

\* A scope in order is left as it is.
LEMMA ScopeInOrder ==
  ASSUME NEW e, IsScope(e), NEW external \in KeySets,
         \A i \in DOMAIN e : Keyed(e[i].meta) /\ Known(e[i].meta) \cap external = {},
         \A i, j \in DOMAIN e : i # j => Known(e[i].meta) \cap Known(e[j].meta) = {}
  PROVE  \A i \in DOMAIN e : ReconcileScope(e, external)[i] = e[i].meta
  <1> DEFINE r == ReconcileScope(e, external)
             D == DOMAIN e
             B == {i \in D : r[i] # e[i].meta}
  <1>0. D \subseteq Nat
    BY ScopeDomain
  <1>1. r = [i \in D |-> Step(e, external, r, i)]
    BY ScopeIs
  <1>2. r \in [D -> Meta]
    BY ScopeIsApart
  <1> HIDE DEF r
  <1>3. ASSUME B # {} PROVE FALSE
    <2>1. PICK i \in B : \A j \in B : i <= j
      BY <1>0, <1>3, LeastNat
    <2>2. \A j \in Before(e, i) : r[j] = e[j].meta
      BY <1>0, <2>1 DEF Before
    <2>3. \A k \in Known(e[i].meta) : k \notin NamesOfOthers(e, external, i)
      <3> SUFFICES ASSUME NEW k \in Known(e[i].meta) PROVE OwnerOf(e, external, k) = {i}
        BY DEF NamesOfOthers
      <3> DEFINE has == {j \in DOMAIN e : k \in Known(e[j].meta)}
      <3>1. k \notin external
        BY <2>1
      <3>2. has = {i}
        BY <2>1
      <3>3. OwnerOf(e, external, k) = FirstOf(has)
        <4>1. has # {}
          BY <3>2
        <4> HIDE DEF has
        <4> QED BY <3>1, <4>1 DEF OwnerOf, has
      <3> QED BY <1>0, <3>2, <3>3 DEF FirstOf
    <2>4. Known(e[i].meta) \cap Others(e, external, r, i) = {}
      <3>1. \A j \in Before(e, i) : Known(r[j]) \cap Known(e[i].meta) = {}
        <4>1. \A j \in Before(e, i) : j # i /\ j \in D
          BY <1>0, <2>1 DEF Before
        <4> QED BY <2>1, <2>2, <4>1
      <3> QED BY <2>3, <3>1 DEF Others
    <2>5. AreMeta(Before(e, i), r)
      BY <1>2 DEF AreMeta, Before
    <2>6. Step(e, external, r, i) = e[i].meta
      BY <2>1, <2>4, <2>5, StepIs
    <2> QED BY <1>1, <2>1, <2>6
  <1> QED BY <1>3 DEF r

-----------------------------------------------------------------------------
(* The columns of a page.                                                   *)

\* The tables, with the types of their rows.
KeyTables ==
    /\ columns \in Seq(Entities) /\ Len(columns) <= MaxColumns
    /\ title \in Entities /\ tombstones \in KeySets
    /\ overlapped \in BOOLEAN /\ dropped \in BOOLEAN

Scope       == [i \in Live |-> columns[i]]
Repaired    == ReconcileScope(Scope, Registry)
OwnRepaired == ReconcileMetadata(title.label, title.meta, UNION {Known(Repaired[i]) : i \in Live}, FALSE)

PlanFields == {"what", "id", "entity", "read", "all", "title", "stale"}
Formed(e)  == e = [f \in PlanFields |-> e[f]]

PlanTypes(e) ==
    /\ Formed(e) /\ e.id \in 0 .. Len(columns) /\ e.stale \in BOOLEAN
    /\ e.what \in {"create", "update", "title", "reconcile", "delete"} => e.entity \in Entities
    /\ e.what \in {"create", "update"} => e.entity.live = TRUE
    /\ e.what = "delete" => e.read \in KeySets
    /\ e.what = "reconcile" => \A i \in DOMAIN e.all : e.all[i] \in Meta

Apart(meta, names) == Keyed(meta) /\ Known(meta) \cap names = {}

\* What a plan is when nothing was written since it was made.
Suit(e) ==
    /\ e.what = "create" => Apart(e.entity.meta, Taken(0) \cup Registry)
    /\ e.what = "update" =>
          /\ e.id \in Live
          /\ Apart(e.entity.meta, Taken(e.id) \cup Registry)
          /\ Apart(columns[e.id].meta, Taken(e.id) \cup Registry) =>
                Known(columns[e.id].meta) \subseteq Known(e.entity.meta)
    /\ e.what = "delete" => e.id \in Live /\ e.read = tombstones /\ e.entity = columns[e.id]
    /\ e.what = "title" => Apart(e.entity.meta, Taken(0) \cup tombstones)
    /\ e.what = "reconcile" =>
          /\ e.all = [i \in {j \in Live : Repaired[j] # columns[j].meta} |-> Repaired[i]]
          /\ e.entity = [title EXCEPT !.meta = OwnRepaired]
          /\ e.title = (title.live /\ OwnRepaired # title.meta)

PlanHolds(e) == PlanTypes(e) /\ (~e.stale => Suit(e))

PlansHold == intent = [t \in Renamings |-> intent[t]] /\ \A t \in Renamings : PlanHolds(intent[t])

\* NamesNameOne, but for the names of deleted columns the page has lost.
NamesApart ==
    ~overlapped =>
        /\ \A i, j \in Live : i # j => Reserves(columns[i]) \cap Reserves(columns[j]) = {}
        /\ \A i \in Live : Reserves(columns[i]) \cap (tombstones \cup Reserves(title)) = {}

\* After a repair every column has a key of its own, and so has the title.
AllKeyed ==
    ~overlapped => (title.live => Keyed(title.meta)) /\ \A i \in Live : Keyed(columns[i].meta)

\* The list of retired names is complete until it is written over another.
RetiredStay == ~dropped => retired \subseteq tombstones

KeysInd == KeyTables /\ NamesApart /\ AllKeyed /\ RetiredStay /\ PlansHold

LEMMA TablesOfKeys ==
  ASSUME KeyTables
  PROVE  /\ Live \subseteq 1 .. Len(columns) /\ Len(columns) \in Nat /\ 0 \notin Live
         /\ DOMAIN columns = 1 .. Len(columns)
         /\ \A i \in DOMAIN columns : columns[i] \in Entities
         /\ \A c : Taken(c) \in KeySets
         /\ Registry \in KeySets
         /\ IsScope(Scope) /\ DOMAIN Scope = Live /\ \A i \in Live : Scope[i] = columns[i]
  <1>1. DOMAIN columns = 1 .. Len(columns) /\ Len(columns) \in Nat /\ \A i \in DOMAIN columns : columns[i] \in Entities
    BY DEF KeyTables
  <1>2. Live \subseteq 1 .. Len(columns) /\ 0 \notin Live
    BY <1>1 DEF Live
  <1>3. DOMAIN Scope = Live /\ \A i \in Live : Scope[i] = columns[i]
    BY DEF Scope
  <1>4. IsScope(Scope)
    BY <1>1, <1>2, <1>3 DEF IsScope
  <1>5. Registry \in KeySets
    BY ReservedKeys, KeySetsJoin DEF Registry, KeyTables
  <1>6. ASSUME NEW c PROVE Taken(c) \in KeySets
    <2> DEFINE D == Live \ {c}
               h == [i \in D |-> Reserves(columns[i])]
    <2>1. IsFiniteSet(D)
      <3>1. IsFiniteSet(1 .. Len(columns))
        BY <1>1, FS_Interval
      <3>2. D \in SUBSET (1 .. Len(columns))
        BY <1>2
      <3> QED BY <3>1, <3>2, FS_Subset
    <2>2. \A i \in D : h[i] \in KeySets
      BY <1>1, <1>2, ReservedKeys
    <2>3. Taken(c) = UnionOf(h, D)
      BY DEF Taken, UnionOf
    <2> HIDE DEF h, D
    <2> QED BY <2>1, <2>2, <2>3, UnionOfKeys
  <1> QED BY <1>1, <1>2, <1>3, <1>4, <1>5, <1>6

\* A repair, planned from what there is.
LEMMA RepairIs ==
  ASSUME KeyTables
  PROVE  /\ \A i \in Live : Repaired[i] \in Meta /\ Apart(Repaired[i], Registry)
         /\ \A i, j \in Live : i # j => Known(Repaired[i]) \cap Known(Repaired[j]) = {}
         /\ OwnRepaired \in Meta /\ Keyed(OwnRepaired) /\ \A i \in Live : Apart(OwnRepaired, Known(Repaired[i]))
  <1>1. IsScope(Scope) /\ DOMAIN Scope = Live /\ Registry \in KeySets
    BY TablesOfKeys
  <1>2. /\ Repaired \in [Live -> Meta]
        /\ \A i \in Live : Keyed(Repaired[i]) /\ Known(Repaired[i]) \cap Registry = {}
        /\ \A i, j \in Live : i # j => Known(Repaired[i]) \cap Known(Repaired[j]) = {}
    BY <1>1, ScopeIsApart DEF Repaired
  <1>3. UNION {Known(Repaired[i]) : i \in Live} \in KeySets
    <2> DEFINE h == [i \in Live |-> Known(Repaired[i])]
    <2>1. IsFiniteSet(Live)
      BY <1>1, ScopeDomain
    <2>2. \A i \in Live : h[i] \in KeySets
      BY <1>2, KnownKeys
    <2>3. UNION {Known(Repaired[i]) : i \in Live} = UnionOf(h, Live)
      BY DEF UnionOf
    <2> HIDE DEF h
    <2> QED BY <2>1, <2>2, <2>3, UnionOfKeys
  <1>4. OwnRepaired \in Meta /\ Keyed(OwnRepaired) /\ Known(OwnRepaired) \cap UNION {Known(Repaired[i]) : i \in Live} = {}
    <2>1. title.label \in ALabel /\ title.meta \in Meta /\ FALSE \in BOOLEAN
      BY DEF KeyTables, Entities
    <2> DEFINE names == UNION {Known(Repaired[i]) : i \in Live}
    <2> HIDE DEF names
    <2>2. LET m == ReconcileMetadata(title.label, title.meta, names, FALSE)
          IN m \in Meta /\ Keyed(m) /\ Known(m) \cap names = {}
      BY <1>3, <2>1, Reconciled DEF names
    <2> QED BY <2>2 DEF OwnRepaired, names
  <1> QED BY <1>2, <1>4 DEF Apart

\* Names in order need no repair.
LEMMA RepairOfOrder ==
  ASSUME KeyTables, NamesApart, AllKeyed, ~overlapped
  PROVE  /\ \A i \in Live : Repaired[i] = columns[i].meta
         /\ title.live => OwnRepaired = title.meta
  <1>1. IsScope(Scope) /\ DOMAIN Scope = Live /\ Registry \in KeySets /\ \A i \in Live : Scope[i] = columns[i]
    BY TablesOfKeys
  <1>2. /\ title.live => Keyed(title.meta) /\ Reserves(title) = Known(title.meta)
        /\ \A i \in Live : Keyed(columns[i].meta) /\ Reserves(columns[i]) = Known(columns[i].meta)
    BY DEF AllKeyed, Reserves
  <1>3. \A i \in Live : Repaired[i] = columns[i].meta
    <2>1. \A i \in Live : Keyed(Scope[i].meta) /\ Known(Scope[i].meta) \cap Registry = {}
      BY <1>1, <1>2 DEF NamesApart, Registry
    <2>2. \A i, j \in Live : i # j => Known(Scope[i].meta) \cap Known(Scope[j].meta) = {}
      BY <1>1, <1>2 DEF NamesApart
    <2>3. \A i \in Live : Repaired[i] = Scope[i].meta
      BY <1>1, <2>1, <2>2, ScopeInOrder DEF Repaired
    <2> QED BY <1>1, <2>3
  <1>4. ASSUME title.live PROVE OwnRepaired = title.meta
    <2> DEFINE names == UNION {Known(Repaired[i]) : i \in Live}
    <2>1. Known(title.meta) \cap names = {}
      BY <1>2, <1>3, <1>4 DEF NamesApart
    <2>2. names \in KeySets
      <3> DEFINE h == [i \in Live |-> Known(Repaired[i])]
      <3>1. IsFiniteSet(Live)
        BY <1>1, ScopeDomain
      <3>2. \A i \in Live : h[i] \in KeySets
        BY RepairIs, KnownKeys
      <3>3. names = UnionOf(h, Live)
        BY DEF UnionOf
      <3> HIDE DEF h, names
      <3> QED BY <3>1, <3>2, <3>3, UnionOfKeys
    <2>3. title.label \in ALabel /\ title.meta \in Meta /\ FALSE \in BOOLEAN
      BY DEF KeyTables, Entities
    <2> HIDE DEF names
    <2> DEFINE label == title.label
               meta  == title.meta
    <2> HIDE DEF label, meta
    <2>4. /\ ReconcileMetadata(label, meta, names, FALSE) \in Meta
          /\ Keyed(meta) /\ Known(meta) \cap names = {} =>
                ReconcileMetadata(label, meta, names, FALSE) = meta
      BY <2>2, <2>3, Reconciled DEF label, meta
    <2> QED BY <1>2, <1>4, <2>1, <2>4 DEF OwnRepaired, names, label, meta
  <1> QED BY <1>3, <1>4

LEMMA NewLabel ==
  ASSUME NEW label \in ALabel, NEW taken, IsFiniteSet(taken)
  PROVE  AllocateDuplicateLabel(label, taken) \in ALabel
  <1> DEFINE f == [n \in Nat |-> <<label[1], n>>]
             free == {n \in 1 .. Cardinality(taken) + 1 : <<label[1], n>> \notin taken}
  <1>1. Cardinality(taken) \in Nat
    BY FS_CardinalityType
  <1>2. \A m, n \in Nat : f[m] = f[n] => m = n
    OBVIOUS
  <1>3. PICK n \in 1 .. Cardinality(taken) + 1 : f[n] \notin taken
    <2> HIDE DEF f
    <2> QED BY <1>2, FreeNumber
  <1>4. \A k \in 1 .. Cardinality(taken) + 1 : k \in Nat
    BY <1>1
  <1>5. n \in free /\ free \subseteq Nat
    BY <1>3, <1>4
  <1>6. Least(free) \in Nat
    <2> HIDE DEF free
    <2> QED BY <1>5, LeastIs
  <1>7. label[1] \in LabelNames
    BY DEF ALabel
  <1> QED BY <1>6, <1>7 DEF AllocateDuplicateLabel, ALabel

-----------------------------------------------------------------------------
(* The steps.                                                               *)

\* What is read of the tables is as they are.
LEMMA SameRead ==
  ASSUME UNCHANGED <<columns, title, tombstones>>
  PROVE  /\ Live' = Live /\ Registry' = Registry /\ Repaired' = Repaired /\ OwnRepaired' = OwnRepaired
         /\ \A c : Taken(c)' = Taken(c)
  <1>1. Live' = Live /\ Registry' = Registry
    BY DEF Live, Registry
  <1>2. Scope' = Scope
    BY <1>1 DEF Scope
  <1>3. Repaired' = Repaired
    BY <1>1, <1>2 DEF Repaired
  <1>4. OwnRepaired' = OwnRepaired
    BY <1>1, <1>3 DEF OwnRepaired
  <1>5. \A c : Taken(c)' = Taken(c)
    BY <1>1 DEF Taken
  <1> QED BY <1>1, <1>3, <1>4, <1>5

LEMMA SamePlan ==
  ASSUME UNCHANGED <<columns, title, tombstones>>, NEW e
  PROVE  PlanHolds(e)' <=> PlanHolds(e)
  <1>1. /\ Live' = Live /\ Registry' = Registry /\ Repaired' = Repaired /\ OwnRepaired' = OwnRepaired
        /\ \A c : Taken(c)' = Taken(c)
    BY SameRead
  <1>2. Suit(e)' <=> Suit(e)
    BY <1>1 DEF Suit
  <1>3. PlanTypes(e)' <=> PlanTypes(e)
    BY DEF PlanTypes
  <1> QED BY <1>2, <1>3 DEF PlanHolds

LEMMA NoPlanHolds ==
  ASSUME KeyTables
  PROVE  PlanHolds(NoPlan)
  <1>1. Len(columns) \in Nat
    BY DEF KeyTables
  <1>2. NoPlan.what = "nothing" /\ NoPlan.id = 0 /\ NoPlan.stale = FALSE /\ Formed(NoPlan)
    BY DEF NoPlan, Formed, PlanFields
  <1>3. PICK x : x = NoPlan
    OBVIOUS
  <1>4. x.what = "nothing" /\ x.id \in 0 .. Len(columns) /\ x.stale = FALSE /\ Formed(x)
    BY <1>1, <1>2, <1>3
  <1>5. PlanTypes(x)
    BY <1>4, Zenon DEF PlanTypes
  <1>6. Suit(x)
    BY <1>4, Zenon DEF Suit
  <1> QED BY <1>3, <1>5, <1>6 DEF PlanHolds

LEMMA PlanKeeps ==
  ASSUME KeysInd, NEW t \in Renamings, NEW e, PlanHolds(e), Plan(t, e)
  PROVE  KeysInd'
  <1>1. UNCHANGED namesVars /\ intent' = [intent EXCEPT ![t] = e]
    BY DEF Plan
  <1>2. PlansHold
    BY DEF KeysInd
  <1>3. intent' = [s \in Renamings |-> IF s = t THEN e ELSE intent[s]]
    BY <1>1, <1>2 DEF PlansHold
  <1>4. ASSUME NEW s \in Renamings PROVE PlanHolds(intent[s])'
    <2>1. PICK x : x = intent'[s]
      OBVIOUS
    <2>2. PlanHolds(x)
      BY <1>2, <1>3, <2>1 DEF PlansHold
    <2>3. PlanHolds(x)'
      BY <1>1, <2>2, SamePlan DEF namesVars
    <2> QED BY <2>1, <2>3
  <1>5. PlansHold'
    BY <1>3, <1>4 DEF PlansHold
  <1>6. Live' = Live
    BY <1>1 DEF Live, namesVars
  <1>7. KeyTables' /\ NamesApart' /\ AllKeyed' /\ RetiredStay'
    BY <1>1, <1>6 DEF KeysInd, KeyTables, NamesApart, AllKeyed, RetiredStay, namesVars
  <1> QED BY <1>5, <1>7 DEF KeysInd

\* The other plans are stale from now on, whatever was written.
LEMMA Overtaken ==
  ASSUME KeysInd, KeyTables', Len(columns) <= Len(columns'), NEW t \in Renamings, Overtake(t)
  PROVE  PlansHold'
  <1>1. PlansHold /\ Len(columns) \in Nat /\ Len(columns') \in Nat
    BY DEF KeysInd, KeyTables
  <1>2. intent' = [s \in Renamings |-> IF s = t \/ intent[s].what = "nothing" THEN NoPlan
                                       ELSE [intent[s] EXCEPT !.stale = TRUE]]
    BY DEF Overtake
  <1>3. ASSUME NEW s \in Renamings PROVE PlanHolds(intent[s])'
    <2>1. CASE intent'[s] = NoPlan
      <3>1. PlanHolds(NoPlan)'
        BY NoPlanHolds, PTL
      <3> QED BY <2>1, <3>1
    <2>2. CASE intent'[s] # NoPlan
      <3>1. intent'[s] = [intent[s] EXCEPT !.stale = TRUE] /\ PlanTypes(intent[s])
        BY <1>1, <1>2, <2>2 DEF PlansHold, PlanHolds
      <3>2. PICK x, y : x = intent[s] /\ y = [x EXCEPT !.stale = TRUE]
        OBVIOUS
      <3>3. Formed(x) /\ PlanTypes(x)
        BY <3>1, <3>2 DEF PlanTypes
      <3>4. Formed(y) /\ y.stale = TRUE /\ y.what = x.what /\ y.id = x.id /\ y.entity = x.entity /\ y.read = x.read /\ y.all = x.all
        BY <3>2, <3>3 DEF Formed, PlanFields
      <3>5. x.id \in 0 .. Len(columns')
        BY <1>1, <3>3 DEF PlanTypes
      <3>6. PlanTypes(y)'
        BY <3>3, <3>4, <3>5 DEF PlanTypes
      <3>7. PlanHolds(y)'
        BY <3>4, <3>6 DEF PlanHolds
      <3> QED BY <3>1, <3>2, <3>7
    <2> QED BY <2>1, <2>2
  <1> QED BY <1>2, <1>3 DEF PlansHold

\* What comes of the names of an entity that leaves those of others.
LEMMA Given ==
  ASSUME NEW label \in ALabel, NEW meta \in Meta, NEW names \in KeySets, NEW rename \in BOOLEAN,
         NEW m, m = ReconcileMetadata(label, meta, names, rename)
  PROVE  /\ m \in Meta /\ Apart(m, names)
         /\ Apart(meta, names) => Known(meta) \subseteq Known(m)
  BY Reconciled DEF Apart

LEMMA PlanOfCreate ==
  ASSUME KeysInd, NEW t \in Renamings, NEW l \in LabelsIn, CreateColumn(t, l)
  PROVE  KeysInd'
  <1> DEFINE new == AllocateDuplicateLabel(l, {columns[i].label : i \in Live})
             own == ReconcileMetadata(new, Legacy, Taken(0) \cup Registry, FALSE)
             p   == [NoPlan EXCEPT !.what = "create", !.entity = [label |-> new, live |-> TRUE, meta |-> own]]
  <1>1. KeyTables /\ Len(columns) \in Nat
    BY DEF KeysInd, KeyTables
  <1>2. new \in ALabel
    <2>1. l \in ALabel
      BY DEF LabelsIn, ALabel
    <2>2. IsFiniteSet({columns[i].label : i \in Live})
      <3> DEFINE f == [i \in Live |-> columns[i].label]
      <3>1. IsFiniteSet(Live)
        BY <1>1, TablesOfKeys, ScopeDomain
      <3>2. {columns[i].label : i \in Live} = {f[i] : i \in Live}
        OBVIOUS
      <3> HIDE DEF f
      <3> QED BY <3>1, <3>2, ImageIsFinite
    <2> QED BY <2>1, <2>2, NewLabel
  <1>3. own \in Meta /\ Apart(own, Taken(0) \cup Registry)
    <2>1. Taken(0) \cup Registry \in KeySets /\ Legacy \in Meta /\ FALSE \in BOOLEAN
      BY <1>1, TablesOfKeys, KeySetsJoin, LegacyMeta
    <2> HIDE DEF new
    <2> QED BY <1>2, <2>1, Given
  <1>4. Plan(t, p)
    BY DEF CreateColumn
  <1>5. PICK e : e = p
    OBVIOUS
  <1> HIDE DEF new, own
  <1>6. /\ Formed(e) /\ e.what = "create" /\ e.id = 0 /\ e.stale = FALSE
        /\ e.entity = [label |-> new, live |-> TRUE, meta |-> own]
    BY <1>5 DEF NoPlan, Formed, PlanFields
  <1>7. e.entity \in Entities /\ e.entity.live = TRUE /\ e.entity.meta = own
    BY <1>2, <1>3, <1>6 DEF Entities
  <1> HIDE DEF p
  <1>8. PlanTypes(e)
    <2>1. 0 \in 0 .. Len(columns)
      BY <1>1
    <2>2. e.id \in 0 .. Len(columns) /\ e.stale \in BOOLEAN
      BY <1>1, <1>6, <2>1, Zenon
    <2> QED BY <2>2, <1>1, <1>6, <1>7, Zenon DEF PlanTypes
  <1>9. Suit(e)
    BY <1>3, <1>6, <1>7 DEF Suit
  <1> QED BY <1>4, <1>5, <1>8, <1>9, PlanKeeps DEF PlanHolds

LEMMA PlanOfUpdate ==
  ASSUME KeysInd, NEW t \in Renamings, NEW l \in LabelsIn, NEW c \in DOMAIN columns, UpdateColumn(t, c, l)
  PROVE  KeysInd'
  <1> DEFINE rename == NormalizePublicKey(l) # NormalizePublicKey(columns[c].label)
             own == ReconcileMetadata(l, columns[c].meta, Taken(c) \cup Registry, rename)
             p   == [NoPlan EXCEPT !.what = "update", !.id = c, !.entity = [label |-> l, live |-> TRUE, meta |-> own]]
  <1>1. KeyTables /\ Len(columns) \in Nat /\ c \in Live /\ c \in 0 .. Len(columns)
    BY DEF KeysInd, KeyTables, UpdateColumn
  <1>2. l \in ALabel
    BY DEF LabelsIn, ALabel
  <1>3. /\ own \in Meta /\ Apart(own, Taken(c) \cup Registry)
        /\ Apart(columns[c].meta, Taken(c) \cup Registry) => Known(columns[c].meta) \subseteq Known(own)
    <2>1. Taken(c) \cup Registry \in KeySets /\ columns[c].meta \in Meta /\ rename \in BOOLEAN
      BY <1>1, TablesOfKeys, KeySetsJoin DEF Entities
    <2> DEFINE names == Taken(c) \cup Registry
               meta  == columns[c].meta
    <2> HIDE DEF rename, names, meta
    <2>2. /\ ReconcileMetadata(l, meta, names, rename) \in Meta
          /\ Apart(ReconcileMetadata(l, meta, names, rename), names)
          /\ Apart(meta, names) => Known(meta) \subseteq Known(ReconcileMetadata(l, meta, names, rename))
      <3>1. names \in KeySets /\ meta \in Meta /\ rename \in BOOLEAN
        BY <2>1 DEF names, meta
      <3>2. PICK m : m = ReconcileMetadata(l, meta, names, rename)
        OBVIOUS
      <3>3. m \in Meta /\ Apart(m, names) /\ (Apart(meta, names) => Known(meta) \subseteq Known(m))
        BY <1>2, <3>1, <3>2, Given, Zenon
      <3> QED BY <3>2, <3>3
    <2> QED BY <2>2 DEF names, meta
  <1>4. Plan(t, p)
    BY DEF UpdateColumn
  <1>5. PICK e : e = p
    OBVIOUS
  <1> HIDE DEF own
  <1>6. /\ Formed(e) /\ e.what = "update" /\ e.id = c /\ e.stale = FALSE
        /\ e.entity = [label |-> l, live |-> TRUE, meta |-> own]
    BY <1>5 DEF NoPlan, Formed, PlanFields
  <1>7. e.entity \in Entities /\ e.entity.live = TRUE /\ e.entity.meta = own
    BY <1>2, <1>3, <1>6 DEF Entities
  <1> HIDE DEF p
  <1>8. PlanTypes(e)
    <2>1. 0 \in 0 .. Len(columns)
      BY <1>1
    <2>2. e.id \in 0 .. Len(columns) /\ e.stale \in BOOLEAN
      BY <1>1, <1>6, <2>1, Zenon
    <2> QED BY <2>2, <1>1, <1>6, <1>7, Zenon DEF PlanTypes
  <1>9. Suit(e)
    BY <1>1, <1>3, <1>6, <1>7 DEF Suit
  <1> QED BY <1>4, <1>5, <1>8, <1>9, PlanKeeps DEF PlanHolds

LEMMA PlanOfDelete ==
  ASSUME KeysInd, NEW t \in Renamings, NEW c \in DOMAIN columns, DeleteColumn(t, c)
  PROVE  KeysInd'
  <1> DEFINE p == [NoPlan EXCEPT !.what = "delete", !.id = c, !.entity = columns[c], !.read = tombstones]
  <1>1. KeyTables /\ Len(columns) \in Nat /\ c \in Live /\ c \in 0 .. Len(columns)
    BY DEF KeysInd, KeyTables, DeleteColumn
  <1>2. tombstones \in KeySets /\ columns[c] \in Entities
    BY <1>1, TablesOfKeys DEF KeyTables
  <1>4. Plan(t, p)
    BY DEF DeleteColumn
  <1>5. PICK e : e = p
    OBVIOUS
  <1>6. /\ Formed(e) /\ e.what = "delete" /\ e.id = c /\ e.stale = FALSE
        /\ e.read = tombstones /\ e.entity = columns[c]
    BY <1>5 DEF NoPlan, Formed, PlanFields
  <1> HIDE DEF p
  <1>8. PlanTypes(e)
    <2>1. 0 \in 0 .. Len(columns)
      BY <1>1
    <2>2. e.id \in 0 .. Len(columns) /\ e.stale \in BOOLEAN
      BY <1>1, <1>6, <2>1, Zenon
    <2> QED BY <2>2, <1>1, <1>2, <1>6, Zenon DEF PlanTypes
  <1>9. Suit(e)
    BY <1>1, <1>6 DEF Suit
  <1> QED BY <1>4, <1>5, <1>8, <1>9, PlanKeeps DEF PlanHolds

LEMMA PlanOfTitle ==
  ASSUME KeysInd, NEW t \in Renamings, NEW l \in LabelsIn, PatchTitle(t, l)
  PROVE  KeysInd'
  <1> DEFINE rename == l # title.label
             own == ReconcileMetadata(l, title.meta, Taken(0) \cup tombstones, rename)
             p   == [NoPlan EXCEPT !.what = "title", !.entity = [label |-> l, live |-> TRUE, meta |-> own]]
  <1>1. KeyTables /\ Len(columns) \in Nat
    BY DEF KeysInd, KeyTables
  <1>2. l \in ALabel
    BY DEF LabelsIn, ALabel
  <1>3. own \in Meta /\ Apart(own, Taken(0) \cup tombstones)
    <2>1. Taken(0) \in KeySets /\ tombstones \in KeySets /\ title \in Entities
      BY <1>1, TablesOfKeys DEF KeyTables
    <2>2. Taken(0) \cup tombstones \in KeySets /\ title.meta \in Meta /\ rename \in BOOLEAN
      BY <2>1, KeySetsJoin DEF Entities
    <2> HIDE DEF rename
    <2> QED BY <1>2, <2>2, Given
  <1>4. Plan(t, p)
    BY DEF PatchTitle
  <1>5. PICK e : e = p
    OBVIOUS
  <1> HIDE DEF own
  <1>6. /\ Formed(e) /\ e.what = "title" /\ e.id = 0 /\ e.stale = FALSE
        /\ e.entity = [label |-> l, live |-> TRUE, meta |-> own]
    BY <1>5 DEF NoPlan, Formed, PlanFields
  <1>7. e.entity \in Entities /\ e.entity.live = TRUE /\ e.entity.meta = own
    BY <1>2, <1>3, <1>6 DEF Entities
  <1> HIDE DEF p
  <1>8. PlanTypes(e)
    <2>1. 0 \in 0 .. Len(columns)
      BY <1>1
    <2>2. e.id \in 0 .. Len(columns) /\ e.stale \in BOOLEAN
      BY <1>1, <1>6, <2>1, Zenon
    <2> QED BY <2>2, <1>1, <1>6, <1>7, Zenon DEF PlanTypes
  <1>9. Suit(e)
    BY <1>3, <1>6, <1>7 DEF Suit
  <1> QED BY <1>4, <1>5, <1>8, <1>9, PlanKeeps DEF PlanHolds

LEMMA PlanOfReconcile ==
  ASSUME KeysInd, NEW t \in Renamings, Reconcile(t)
  PROVE  KeysInd'
  <1> DEFINE all == [i \in {j \in Live : Repaired[j] # columns[j].meta} |-> Repaired[i]]
             ent == [title EXCEPT !.meta = OwnRepaired]
             ttl == title.live /\ OwnRepaired # title.meta
             p   == [NoPlan EXCEPT !.what = "reconcile", !.all = all, !.entity = ent, !.title = ttl]
  <1>1. KeyTables /\ Len(columns) \in Nat
    BY DEF KeysInd, KeyTables
  <1>2. ent \in Entities
    BY <1>1, RepairIs DEF KeyTables, Entities
  <1>3. \A i \in DOMAIN all : all[i] \in Meta
    BY <1>1, RepairIs
  <1>4. Plan(t, p)
    BY Zenon DEF Reconcile, OwnRepaired, Repaired, Scope
  <1>5. PICK e : e = p
    OBVIOUS
  <1> HIDE DEF all, ent, ttl
  <1>6. /\ Formed(e) /\ e.what = "reconcile" /\ e.id = 0 /\ e.stale = FALSE
        /\ e.entity = ent /\ e.all = all /\ e.title = ttl
    BY <1>5 DEF NoPlan, Formed, PlanFields
  <1> HIDE DEF p
  <1>8. PlanTypes(e)
    <2>1. 0 \in 0 .. Len(columns)
      BY <1>1
    <2>2. e.id \in 0 .. Len(columns) /\ e.stale \in BOOLEAN
      BY <1>1, <1>6, <2>1, Zenon
    <2> QED BY <2>2, <1>1, <1>2, <1>3, <1>6, Zenon DEF PlanTypes
  <1>9. Suit(e)
    BY <1>6, Zenon DEF Suit, all, ent, ttl
  <1> QED BY <1>4, <1>5, <1>8, <1>9, PlanKeeps DEF PlanHolds

LEMMA Dropped ==
  ASSUME KeysInd, UNCHANGED <<columns, title, tombstones>>, NEW t \in Renamings,
         intent' = [intent EXCEPT ![t] = NoPlan]
  PROVE  PlansHold'
  <1>1. PlansHold /\ KeyTables
    BY DEF KeysInd
  <1>2. intent' = [s \in Renamings |-> IF s = t THEN NoPlan ELSE intent[s]]
    BY <1>1 DEF PlansHold
  <1>3. ASSUME NEW s \in Renamings PROVE PlanHolds(intent[s])'
    <2>1. PICK x : x = intent'[s]
      OBVIOUS
    <2>2. PlanHolds(x)
      BY <1>1, <1>2, <2>1, NoPlanHolds DEF PlansHold
    <2>3. PlanHolds(x)'
      BY <2>2, SamePlan
    <2> QED BY <2>1, <2>3
  <1> QED BY <1>2, <1>3 DEF PlansHold

LEMMA RefuseKeeps ==
  ASSUME KeysInd, NEW t \in Renamings, Refuse(t)
  PROVE  KeysInd'
  <1>1. UNCHANGED namesVars /\ intent' = [intent EXCEPT ![t] = NoPlan]
    BY DEF Refuse
  <1>2. PlansHold'
    BY <1>1, Dropped DEF namesVars
  <1>3. Live' = Live
    BY <1>1 DEF Live, namesVars
  <1>4. KeyTables' /\ NamesApart' /\ AllKeyed' /\ RetiredStay'
    BY <1>1, <1>3 DEF KeysInd, KeyTables, NamesApart, AllKeyed, RetiredStay, namesVars
  <1> QED BY <1>2, <1>4 DEF KeysInd

\* What a write needs of the plan it carries out.
LEMMA ThePlan ==
  ASSUME KeysInd, NEW t \in Renamings
  PROVE  /\ KeyTables /\ PlanTypes(intent[t]) /\ (~intent[t].stale => Suit(intent[t]))
         /\ intent[t].stale \in BOOLEAN /\ overlapped \in BOOLEAN
  BY DEF KeysInd, PlansHold, PlanHolds, PlanTypes, KeyTables

LEMMA TakenHas ==
  ASSUME KeyTables
  PROVE  /\ \A i \in Live : Reserves(columns[i]) \subseteq Taken(0)
         /\ \A c, i \in Live : i # c => Reserves(columns[i]) \subseteq Taken(c)
         /\ tombstones \subseteq Registry /\ Reserves(title) \subseteq Registry
  <1>1. 0 \notin Live
    BY TablesOfKeys
  <1> QED BY <1>1 DEF Taken, Registry

\* The names of a page in order are apart from one another.
LEMMA OrderIs ==
  ASSUME KeyTables, NamesApart, AllKeyed, ~overlapped, NEW c \in Live
  PROVE  Apart(columns[c].meta, Taken(c) \cup Registry)
  <1>1. Keyed(columns[c].meta) /\ Reserves(columns[c]) = Known(columns[c].meta)
    BY DEF AllKeyed, Reserves
  <1>2. Reserves(columns[c]) \cap Taken(c) = {}
    BY DEF NamesApart, Taken
  <1>3. Reserves(columns[c]) \cap Registry = {}
    BY DEF NamesApart, Registry
  <1> QED BY <1>1, <1>2, <1>3 DEF Apart

\* Names of a column stay its names, or those of nothing.
Outlive ==
    /\ ~overlapped /\ ~overlapped' =>
          \A i \in Live : Reserves(columns[i]) \subseteq
              IF columns'[i].live THEN Reserves(columns'[i]) ELSE tombstones'
    /\ ~dropped' => tombstones \subseteq tombstones'

\* The list of retired names, and whether it is complete, are as they were.
SameList == UNCHANGED <<tombstones, retired, dropped>>

LEMMA ListStays ==
  ASSUME KeysInd, SameList
  PROVE  RetiredStay' /\ tombstones \subseteq tombstones' /\ dropped' \in BOOLEAN
  BY DEF KeysInd, KeyTables, RetiredStay, SameList

LEMMA CreateKeeps ==
  ASSUME KeysInd, NEW t \in Renamings, WriteCreate(t)
  PROVE  KeysInd' /\ Outlive
  <1> DEFINE e == intent[t]
             n == Len(columns) + 1
  <1>1. /\ KeyTables /\ PlanTypes(e) /\ (~e.stale => Suit(e))
        /\ e.stale \in BOOLEAN /\ overlapped \in BOOLEAN
    BY ThePlan
  <1>0. SameList
    BY DEF WriteCreate, SameList
  <1>2. /\ e.what = "create" /\ Len(columns) < MaxColumns /\ columns' = Append(columns, e.entity)
        /\ title' = title /\ tombstones' = tombstones /\ Overtake(t) /\ overlapped' = (overlapped \/ e.stale)
    BY DEF WriteCreate, Wrote
  <1>3. e.entity \in Entities /\ e.entity.live = TRUE
    BY <1>1, <1>2 DEF PlanTypes
  <1> HIDE DEF e
  <1>4. /\ columns' \in Seq(Entities) /\ Len(columns') = n /\ Len(columns) \in Nat
        /\ DOMAIN columns = 1 .. Len(columns) /\ DOMAIN columns' = 1 .. n
        /\ columns'[n] = e.entity /\ \A i \in 1 .. Len(columns) : columns'[i] = columns[i]
    BY <1>1, <1>2, <1>3 DEF KeyTables
  <1>5. KeyTables'
    <2>1. Len(columns') <= MaxColumns
      BY <1>2, <1>4, ColumnKeysAssumption
    <2> QED BY <1>0, <1>1, <1>2, <1>4, <2>1, ListStays DEF KeyTables
  <1>6. PlansHold'
    BY <1>2, <1>4, <1>5, Overtaken
  <1>7. Live' = Live \cup {n} /\ (\A i \in Live : columns'[i] = columns[i] /\ i # n) /\ n \notin Live
    BY <1>3, <1>4 DEF Live
  <1>8. ASSUME ~overlapped' PROVE NamesApart' /\ AllKeyed'
    <2>1. ~overlapped /\ Apart(e.entity.meta, Taken(0) \cup Registry)
      BY <1>1, <1>2, <1>8 DEF Suit
    <2>2. Keyed(e.entity.meta) /\ Reserves(e.entity) \cap (Taken(0) \cup Registry) = {}
      BY <2>1 DEF Apart, Reserves
    <2>3. /\ \A i \in Live : Reserves(e.entity) \cap Reserves(columns[i]) = {}
          /\ Reserves(e.entity) \cap (tombstones \cup Reserves(title)) = {}
      BY <1>1, <2>2, TakenHas
    <2>4. /\ \A i, j \in Live : i # j => Reserves(columns[i]) \cap Reserves(columns[j]) = {}
          /\ \A i \in Live : Reserves(columns[i]) \cap (tombstones \cup Reserves(title)) = {}
          /\ title.live => Keyed(title.meta)
          /\ \A i \in Live : Keyed(columns[i].meta)
      BY <2>1 DEF KeysInd, NamesApart, AllKeyed
    <2>5. \A i, j \in Live' : i # j => Reserves(columns'[i]) \cap Reserves(columns'[j]) = {}
      BY <1>4, <1>7, <2>3, <2>4
    <2>6. \A i \in Live' : Keyed(columns'[i].meta) /\ Reserves(columns'[i]) \cap (tombstones \cup Reserves(title)) = {}
      BY <1>4, <1>7, <2>2, <2>3, <2>4
    <2> QED BY <1>2, <2>4, <2>5, <2>6 DEF NamesApart, AllKeyed
  <1>9. Outlive
    BY <1>0, <1>7, TablesOfKeys, ListStays, <1>1 DEF Outlive, Live
  <1>10. NamesApart' /\ AllKeyed'
    BY <1>8 DEF NamesApart, AllKeyed
  <1> QED BY <1>5, <1>6, <1>9, <1>10, <1>0, ListStays DEF KeysInd

LEMMA UpdateKeeps ==
  ASSUME KeysInd, NEW t \in Renamings, WriteUpdate(t), intent[t].id \in Live
  PROVE  KeysInd' /\ Outlive
  <1> DEFINE e == intent[t]
             c == e.id
  <1>1. /\ KeyTables /\ PlanTypes(e) /\ (~e.stale => Suit(e))
        /\ e.stale \in BOOLEAN /\ overlapped \in BOOLEAN
    BY ThePlan
  <1>0. SameList
    BY DEF WriteUpdate, SameList
  <1>2. /\ e.what = "update" /\ columns' = [columns EXCEPT ![c] = e.entity]
        /\ title' = title /\ tombstones' = tombstones /\ Overtake(t) /\ overlapped' = (overlapped \/ e.stale)
    BY DEF WriteUpdate, Wrote
  <1>3. e.entity \in Entities /\ e.entity.live = TRUE /\ c \in Live
    BY <1>1, <1>2 DEF PlanTypes
  <1> HIDE DEF e, c
  <1>4. /\ columns' \in Seq(Entities) /\ Len(columns') = Len(columns) /\ Len(columns) \in Nat
        /\ DOMAIN columns' = DOMAIN columns /\ c \in DOMAIN columns
        /\ \A i \in DOMAIN columns : columns'[i] = IF i = c THEN e.entity ELSE columns[i]
    BY <1>1, <1>2, <1>3 DEF KeyTables, Live
  <1>5. KeyTables'
    BY <1>0, <1>1, <1>2, <1>4, ListStays DEF KeyTables
  <1>6. PlansHold'
    BY <1>2, <1>4, <1>5, Overtaken
  <1>7. Live' = Live /\ \A i \in Live : columns'[i] = IF i = c THEN e.entity ELSE columns[i]
    BY <1>3, <1>4 DEF Live
  <1>8. ASSUME ~overlapped' PROVE NamesApart' /\ AllKeyed' /\ Reserves(columns[c]) \subseteq Reserves(e.entity)
    <2>1. /\ ~overlapped /\ Apart(e.entity.meta, Taken(c) \cup Registry)
          /\ Apart(columns[c].meta, Taken(c) \cup Registry) => Known(columns[c].meta) \subseteq Known(e.entity.meta)
      BY <1>1, <1>2, <1>8 DEF Suit, c
    <2>2. Keyed(e.entity.meta) /\ Reserves(e.entity) \cap (Taken(c) \cup Registry) = {}
      BY <2>1 DEF Apart, Reserves
    <2>3. /\ \A i \in Live : i # c => Reserves(e.entity) \cap Reserves(columns[i]) = {}
          /\ Reserves(e.entity) \cap (tombstones \cup Reserves(title)) = {}
      BY <1>1, <1>3, <2>2, TakenHas
    <2>4. /\ \A i, j \in Live : i # j => Reserves(columns[i]) \cap Reserves(columns[j]) = {}
          /\ \A i \in Live : Reserves(columns[i]) \cap (tombstones \cup Reserves(title)) = {}
          /\ title.live => Keyed(title.meta)
          /\ \A i \in Live : Keyed(columns[i].meta)
      BY <2>1 DEF KeysInd, NamesApart, AllKeyed
    <2>5. \A i, j \in Live' : i # j => Reserves(columns'[i]) \cap Reserves(columns'[j]) = {}
      BY <1>7, <2>3, <2>4
    <2>6. \A i \in Live' : Keyed(columns'[i].meta) /\ Reserves(columns'[i]) \cap (tombstones \cup Reserves(title)) = {}
      BY <1>7, <2>2, <2>3, <2>4
    <2>7. Reserves(columns[c]) \subseteq Reserves(e.entity)
      <3>1. Apart(columns[c].meta, Taken(c) \cup Registry)
        BY <1>1, <1>3, <2>1, OrderIs DEF KeysInd
      <3> QED BY <1>3, <2>1, <2>2, <2>4, <3>1 DEF Reserves
    <2> QED BY <1>2, <2>4, <2>5, <2>6, <2>7 DEF NamesApart, AllKeyed
  <1>9. Outlive
    <2>1. \A i \in Live : columns'[i].live
      BY <1>3, <1>7 DEF Live
    <2> QED BY <1>0, <1>7, <1>8, <2>1, ListStays DEF Outlive
  <1>10. NamesApart' /\ AllKeyed'
    BY <1>8 DEF NamesApart, AllKeyed
  <1> QED BY <1>5, <1>6, <1>9, <1>10, <1>0, ListStays DEF KeysInd

LEMMA DeleteKeeps ==
  ASSUME KeysInd, NEW t \in Renamings, WriteDelete(t), intent[t].id \in Live
  PROVE  KeysInd' /\ Outlive
  <1> DEFINE e == intent[t]
             c == e.id
  <1>1. /\ KeyTables /\ PlanTypes(e) /\ (~e.stale => Suit(e))
        /\ e.stale \in BOOLEAN /\ overlapped \in BOOLEAN
    BY ThePlan
  <1>2. /\ e.what = "delete" /\ columns' = [columns EXCEPT ![c].live = FALSE]
        /\ title' = title /\ tombstones' = e.read \cup Reserves(e.entity)
        /\ Overtake(t) /\ overlapped' = (overlapped \/ e.stale)
        /\ retired' = retired \cup Reserves(columns[c])
        /\ dropped' = (dropped \/ tombstones # e.read \/ Reserves(columns[c]) # Reserves(e.entity))
    BY DEF WriteDelete, Wrote, Retire
  <1>3. tombstones' \in KeySets /\ c \in Live
    <2>1. e.read \in KeySets /\ e.entity \in Entities
      BY <1>1, <1>2 DEF PlanTypes
    <2> QED BY <1>2, <2>1, ReservedKeys, KeySetsJoin
  <1> HIDE DEF e, c
  <1>4. c \in DOMAIN columns /\ columns \in Seq(Entities) /\ Len(columns) \in Nat /\ Len(columns) <= MaxColumns
    BY <1>1, <1>3 DEF KeyTables, Live
  <1>5. PICK gone : gone = [columns[c] EXCEPT !.live = FALSE]
    OBVIOUS
  <1>6. gone \in Entities /\ gone.live = FALSE
    <2>1. columns[c] \in Entities
      BY <1>4
    <2> QED BY <1>5, <2>1 DEF Entities
  <1>7. columns' = [columns EXCEPT ![c] = gone]
    BY <1>2, <1>5
  <1>8. /\ columns' \in Seq(Entities) /\ Len(columns') = Len(columns)
        /\ DOMAIN columns' = DOMAIN columns
        /\ \A i \in DOMAIN columns : columns'[i] = IF i = c THEN gone ELSE columns[i]
    BY <1>4, <1>6, <1>7
  <1>9. KeyTables'
    BY <1>1, <1>2, <1>3, <1>4, <1>8 DEF KeyTables
  <1>10. PlansHold'
    BY <1>2, <1>4, <1>8, <1>9, Overtaken
  <1>11. Live' = Live \ {c} /\ \A i \in Live' : columns'[i] = columns[i]
    BY <1>4, <1>6, <1>8 DEF Live
  <1>12. ASSUME ~overlapped'
         PROVE  NamesApart' /\ AllKeyed' /\ Reserves(columns[c]) \subseteq tombstones'
    <2>1. ~overlapped /\ e.read = tombstones /\ e.entity = columns[c]
      BY <1>1, <1>2, <1>12 DEF Suit, c
    <2>2. /\ \A i, j \in Live : i # j => Reserves(columns[i]) \cap Reserves(columns[j]) = {}
          /\ \A i \in Live : Reserves(columns[i]) \cap (tombstones \cup Reserves(title)) = {}
          /\ title.live => Keyed(title.meta)
          /\ \A i \in Live : Keyed(columns[i].meta)
      BY <2>1 DEF KeysInd, NamesApart, AllKeyed
    <2>3. tombstones' = tombstones \cup Reserves(columns[c])
      BY <1>2, <2>1
    <2>4. \A i, j \in Live' : i # j => Reserves(columns'[i]) \cap Reserves(columns'[j]) = {}
      BY <1>11, <2>2
    <2>5. \A i \in Live' : Keyed(columns'[i].meta) /\ Reserves(columns'[i]) \cap (tombstones' \cup Reserves(title)) = {}
      BY <1>3, <1>11, <2>2, <2>3
    <2> QED BY <1>2, <2>2, <2>3, <2>4, <2>5 DEF NamesApart, AllKeyed
  <1>13. Outlive
    <2>1. /\ \A i \in Live : i # c => columns'[i].live /\ columns'[i] = columns[i]
          /\ ~columns'[c].live
      BY <1>4, <1>6, <1>8 DEF Live
    <2>2. ~dropped' => tombstones \subseteq tombstones'
      BY <1>2
    <2> QED BY <1>12, <2>1, <2>2 DEF Outlive
  <1>15. RetiredStay'
    BY <1>2 DEF KeysInd, RetiredStay
  <1>14. NamesApart' /\ AllKeyed'
    BY <1>12 DEF NamesApart, AllKeyed
  <1> QED BY <1>9, <1>10, <1>13, <1>14, <1>15 DEF KeysInd

LEMMA TitleKeeps ==
  ASSUME KeysInd, NEW t \in Renamings, WriteTitle(t), title.live
  PROVE  KeysInd' /\ Outlive
  <1> DEFINE e == intent[t]
  <1>1. /\ KeyTables /\ PlanTypes(e) /\ (~e.stale => Suit(e))
        /\ e.stale \in BOOLEAN /\ overlapped \in BOOLEAN
    BY ThePlan
  <1>0. SameList
    BY DEF WriteTitle, SameList
  <1>2. /\ e.what = "title" /\ columns' = columns
        /\ title' = e.entity /\ tombstones' = tombstones /\ Overtake(t) /\ overlapped' = (overlapped \/ e.stale)
    BY DEF WriteTitle, Wrote
  <1>3. e.entity \in Entities
    BY <1>1, <1>2 DEF PlanTypes
  <1> HIDE DEF e
  <1>4. KeyTables' /\ Len(columns) <= Len(columns')
    BY <1>0, <1>1, <1>2, <1>3, ListStays DEF KeyTables
  <1>5. PlansHold'
    BY <1>2, <1>4, Overtaken
  <1>6. Live' = Live
    BY <1>2 DEF Live
  <1>7. ASSUME ~overlapped' PROVE NamesApart' /\ AllKeyed'
    <2>1. ~overlapped /\ Apart(e.entity.meta, Taken(0) \cup tombstones)
      BY <1>1, <1>2, <1>7 DEF Suit
    <2>2. Keyed(e.entity.meta) /\ Reserves(e.entity) \cap (Taken(0) \cup tombstones) = {}
      BY <2>1 DEF Apart, Reserves
    <2>3. \A i \in Live : Reserves(columns[i]) \cap Reserves(e.entity) = {}
      BY <1>1, <2>2, TakenHas
    <2>4. /\ \A i, j \in Live : i # j => Reserves(columns[i]) \cap Reserves(columns[j]) = {}
          /\ \A i \in Live : Reserves(columns[i]) \cap tombstones = {}
          /\ \A i \in Live : Keyed(columns[i].meta)
      BY <2>1 DEF KeysInd, NamesApart, AllKeyed
    <2> QED BY <1>2, <1>6, <2>2, <2>3, <2>4 DEF NamesApart, AllKeyed
  <1>8. Outlive
    BY <1>0, <1>2, ListStays DEF Outlive, Live
  <1>9. NamesApart' /\ AllKeyed'
    BY <1>7 DEF NamesApart, AllKeyed
  <1> QED BY <1>4, <1>5, <1>8, <1>9, <1>0, ListStays DEF KeysInd

\* A repair planned from a page in order, and from what there still is, has
\* nothing to do.
LEMMA NothingToRepair ==
  ASSUME KeysInd, ~overlapped, NEW t \in Renamings, intent[t].what = "reconcile", ~intent[t].stale
  PROVE  DOMAIN intent[t].all = {} /\ intent[t].title = FALSE
  <1>1. Suit(intent[t])
    BY ThePlan
  <1>2. (\A i \in Live : Repaired[i] = columns[i].meta) /\ (title.live => OwnRepaired = title.meta)
    BY RepairOfOrder DEF KeysInd
  <1>3. /\ intent[t].all = [i \in {j \in Live : Repaired[j] # columns[j].meta} |-> Repaired[i]]
        /\ intent[t].title = (title.live /\ OwnRepaired # title.meta)
    BY <1>1 DEF Suit
  <1>4. DOMAIN intent[t].all = {j \in Live : Repaired[j] # columns[j].meta}
    BY <1>3, Zenon
  <1> QED BY <1>2, <1>3, <1>4

LEMMA ReconcileKeeps ==
  ASSUME KeysInd, NEW t \in Renamings, WriteReconcile(t), DOMAIN intent[t].all \subseteq Live
  PROVE  /\ KeysInd' /\ SameList
         /\ ~overlapped /\ ~overlapped' => UNCHANGED <<columns, title>>
         /\ ~overlapped /\ ~intent[t].stale => UNCHANGED <<columns, title>>
  <1> DEFINE e    == intent[t]
             new  == DOMAIN e.all
             some == new # {} \/ e.title
  <1>1. /\ KeyTables /\ PlanTypes(e) /\ (~e.stale => Suit(e))
        /\ e.stale \in BOOLEAN /\ overlapped \in BOOLEAN
    BY ThePlan
  <1>2. /\ e.what = "reconcile"
        /\ columns' = [i \in DOMAIN columns |-> IF i \in new THEN [columns[i] EXCEPT !.meta = e.all[i]] ELSE columns[i]]
        /\ title' = (IF e.title THEN [e.entity EXCEPT !.live = title.live] ELSE title)
        /\ IF some THEN Overtake(t) ELSE intent' = [intent EXCEPT ![t] = NoPlan]
        /\ overlapped' = (e.stale /\ (overlapped \/ some))
        /\ tombstones' = tombstones
    BY DEF WriteReconcile
  <1>0. SameList
    BY DEF WriteReconcile, SameList
  <1>3. e.entity \in Entities /\ new \subseteq Live /\ \A i \in new : e.all[i] \in Meta
    BY <1>1, <1>2 DEF PlanTypes
  <1>4. ~overlapped /\ ~e.stale => ~some
    BY <1>2, NothingToRepair
  <1> HIDE DEF e, new, some
  <1>5. columns \in Seq(Entities) /\ Len(columns) \in Nat /\ DOMAIN columns = 1 .. Len(columns)
    BY <1>1 DEF KeyTables
  <1>6. ASSUME ~some PROVE UNCHANGED <<columns, title, tombstones>>
    <2>1. new = {} /\ ~e.title
      BY <1>6 DEF some
    <2>2. columns' = [i \in DOMAIN columns |-> columns[i]]
      BY <1>2, <2>1
    <2>3. columns = [i \in DOMAIN columns |-> columns[i]]
      BY <1>5
    <2>4. title' = title
      BY <1>2, <2>1
    <2> QED BY <1>2, <2>2, <2>3, <2>4
  <1>7. /\ columns' \in Seq(Entities) /\ Len(columns') = Len(columns)
        /\ DOMAIN columns' = DOMAIN columns
        /\ \A i \in DOMAIN columns :
              /\ columns'[i].live = columns[i].live
              /\ columns'[i].meta = IF i \in new THEN e.all[i] ELSE columns[i].meta
    <2> DEFINE after(i) == IF i \in new THEN [columns[i] EXCEPT !.meta = e.all[i]] ELSE columns[i]
    <2>1. \A i \in DOMAIN columns :
              /\ after(i) \in Entities /\ after(i).live = columns[i].live
              /\ after(i).meta = IF i \in new THEN e.all[i] ELSE columns[i].meta
      <3> SUFFICES ASSUME NEW i \in DOMAIN columns
                   PROVE  /\ after(i) \in Entities /\ after(i).live = columns[i].live
                          /\ after(i).meta = IF i \in new THEN e.all[i] ELSE columns[i].meta
        OBVIOUS
      <3>1. PICK x : x = columns[i]
        OBVIOUS
      <3>2. x \in Entities
        BY <1>5, <3>1
      <3>3. CASE i \in new
        <4>1. PICK m \in Meta : m = e.all[i]
          BY <1>3, <3>3
        <4>2. after(i) = [x EXCEPT !.meta = m]
          BY <3>1, <3>3, <4>1
        <4> HIDE DEF after
        <4>3. after(i) \in Entities /\ after(i).live = x.live /\ after(i).meta = m
          BY <3>2, <4>2 DEF Entities
        <4> QED BY <3>1, <3>3, <4>1, <4>3
      <3>4. CASE i \notin new
        <4>1. after(i) = x
          BY <3>1, <3>4
        <4> HIDE DEF after
        <4> QED BY <3>1, <3>2, <3>4, <4>1
      <3> QED BY <3>3, <3>4
    <2>2. columns' = [i \in 1 .. Len(columns) |-> after(i)]
      BY <1>2, <1>5
    <2> HIDE DEF after
    <2> QED BY <1>5, <2>1, <2>2
  <1>8. KeyTables'
    <2>1. overlapped' \in BOOLEAN
      BY <1>2
    <2>2. title' \in Entities
      <3>1. title \in Entities
        BY <1>1 DEF KeyTables
      <3> QED BY <1>2, <1>3, <3>1 DEF Entities
    <2> QED BY <1>0, <1>1, <1>2, <1>7, <2>1, <2>2, ListStays DEF KeyTables
  <1>9. Live' = Live
    BY <1>7 DEF Live
  <1>10. PlansHold'
    <2>1. CASE some
      BY <1>2, <1>5, <1>7, <1>8, <2>1, Overtaken
    <2>2. CASE ~some
      BY <1>2, <1>6, <2>2, Dropped
    <2> QED BY <2>1, <2>2
  <1>11. CASE e.stale
    <2>1. ~overlapped' => ~overlapped /\ ~some
      BY <1>2, <1>11
    <2>2. NamesApart' /\ AllKeyed'
      <3>1. CASE overlapped'
        BY <3>1 DEF NamesApart, AllKeyed
      <3>2. CASE ~overlapped'
        BY <1>6, <1>9, <2>1, <3>2 DEF KeysInd, NamesApart, AllKeyed
      <3> QED BY <3>1, <3>2
    <2>3. ~overlapped /\ ~overlapped' => UNCHANGED <<columns, title>>
      BY <1>6, <2>1
    <2> QED BY <1>8, <1>10, <1>11, <2>2, <2>3, <1>0, ListStays DEF KeysInd, e
  <1>12. CASE ~e.stale
    <2>1. /\ new = {j \in Live : Repaired[j] # columns[j].meta}
          /\ \A i \in new : e.all[i] = Repaired[i]
          /\ e.entity = [title EXCEPT !.meta = OwnRepaired]
          /\ e.title = (title.live /\ OwnRepaired # title.meta)
      BY <1>1, <1>2, <1>12 DEF Suit, new
    <2>2. \A i \in Live : columns'[i].meta = Repaired[i]
      BY <1>7, <2>1 DEF Live
    <2>3. /\ title'.live = title.live
          /\ title.live => title'.meta = OwnRepaired
          /\ ~title.live => title' = title
      BY <1>1, <1>2, <2>1 DEF KeyTables, Entities
    <2>4. /\ \A i \in Live : Apart(Repaired[i], Registry)
          /\ \A i, j \in Live : i # j => Known(Repaired[i]) \cap Known(Repaired[j]) = {}
          /\ Keyed(OwnRepaired) /\ \A i \in Live : Apart(OwnRepaired, Known(Repaired[i]))
      BY <1>1, RepairIs
    <2>5. \A i \in Live : Keyed(columns'[i].meta) /\ Reserves(columns'[i]) = Known(Repaired[i])
      BY <2>2, <2>4 DEF Apart, Reserves
    <2>6. title.live => Keyed(title'.meta) /\ Reserves(title') = Known(OwnRepaired)
      BY <2>3, <2>4 DEF Apart, Reserves
    <2>7. \A i \in Live : Reserves(columns'[i]) \cap (tombstones \cup Reserves(title')) = {}
      <3>1. \A i \in Live : Known(Repaired[i]) \cap tombstones = {}
        BY <1>1, <2>4, TakenHas DEF Apart
      <3>2. \A i \in Live : Known(OwnRepaired) \cap Known(Repaired[i]) = {}
        BY <2>4 DEF Apart
      <3>3. \A i \in Live : Known(Repaired[i]) \cap Reserves(title) = {}
        BY <1>1, <2>4, TakenHas DEF Apart
      <3>4. CASE title.live
        BY <2>5, <2>6, <3>1, <3>2, <3>4
      <3>5. CASE ~title.live
        BY <2>3, <2>5, <3>1, <3>3, <3>5
      <3> QED BY <3>4, <3>5
    <2>8. NamesApart' /\ AllKeyed'
      BY <1>2, <1>9, <2>3, <2>4, <2>5, <2>6, <2>7 DEF NamesApart, AllKeyed
    <2>9. ~overlapped => UNCHANGED <<columns, title>>
      BY <1>4, <1>6, <1>12
    <2> QED BY <1>0, <1>8, <1>10, <2>8, <2>9, ListStays DEF KeysInd
  <1> QED BY <1>0, <1>1, <1>11, <1>12

LEMMA DeleteTitleKeeps ==
  ASSUME KeysInd, NEW t \in Renamings, DeleteTitle(t)
  PROVE  KeysInd' /\ Outlive
  <1>1. /\ KeyTables /\ columns' = columns /\ overlapped' = overlapped /\ Overtake(t) /\ SameList
        /\ title' = [title EXCEPT !.live = FALSE]
    BY DEF KeysInd, DeleteTitle, Turn, SameList
  <1>2. title' \in Entities /\ ~title'.live /\ Reserves(title') = Reserves(title)
    BY <1>1 DEF KeyTables, Entities, Reserves
  <1>3. KeyTables' /\ Len(columns) <= Len(columns')
    BY <1>1, <1>2, ListStays DEF KeyTables, SameList
  <1>4. PlansHold'
    BY <1>1, <1>3, Overtaken
  <1>5. Live' = Live
    BY <1>1 DEF Live
  <1>6. NamesApart' /\ AllKeyed'
    BY <1>1, <1>2, <1>5 DEF KeysInd, NamesApart, AllKeyed, SameList
  <1>7. Outlive
    BY <1>1, ListStays DEF Outlive, Live
  <1> QED BY <1>1, <1>3, <1>4, <1>6, <1>7, ListStays DEF KeysInd

LEMMA SnapshotKeeps ==
  ASSUME KeysInd, NEW t \in Renamings, PutSnapshot(t)
  PROVE  KeysInd' /\ Outlive
  <1>1. /\ KeyTables /\ columns' = columns /\ overlapped' = TRUE /\ Overtake(t) /\ retired' = retired
        /\ tombstones' \in SUBSET tombstones
        /\ dropped' = (dropped \/ tombstones' # tombstones)
    BY DEF KeysInd, PutSnapshot, Turn
  <1>2. title' \in Entities
    <2>1. PICK label \in LabelsIn, meta \in {Legacy, title.meta} :
             title' = [label |-> label, meta |-> meta, live |-> TRUE]
      BY DEF PutSnapshot
    <2>2. meta \in Meta
      BY <1>1, <2>1, LegacyMeta DEF KeyTables, Entities
    <2> QED BY <2>1, <2>2 DEF LabelsIn, ALabel, Entities
  <1>3. tombstones' \in KeySets
    BY <1>1, FS_Subset DEF KeyTables, KeySets
  <1>4. KeyTables' /\ Len(columns) <= Len(columns')
    BY <1>1, <1>2, <1>3 DEF KeyTables
  <1>5. PlansHold'
    BY <1>1, <1>4, Overtaken
  <1>6. NamesApart' /\ AllKeyed' /\ RetiredStay'
    BY <1>1 DEF KeysInd, NamesApart, AllKeyed, RetiredStay
  <1>7. Outlive
    BY <1>1 DEF Outlive, Live
  <1> QED BY <1>4, <1>5, <1>6, <1>7 DEF KeysInd

LEMMA KeysStart == KeysInit => KeysInd
  <1> SUFFICES ASSUME KeysInit PROVE KeysInd
    OBVIOUS
  <1>1. \A l \in LabelsIn : Entity(l) \in Entities
    BY LegacyMeta DEF LabelsIn, ALabel, Entity, Entities
  <1>2. OlderColumns \in Seq(LabelsIn) /\ Len(OlderColumns) \in Nat /\ DOMAIN OlderColumns = 1 .. Len(OlderColumns)
    BY ColumnKeysAssumption DEF LabelsIn
  <1>3. columns \in Seq(Entities) /\ Len(columns) = Len(OlderColumns)
    <2> DEFINE f == [i \in 1 .. Len(OlderColumns) |-> Entity(OlderColumns[i])]
    <2>1. columns = f
      BY <1>2 DEF KeysInit
    <2>2. \A i \in 1 .. Len(OlderColumns) : Entity(OlderColumns[i]) \in Entities
      BY <1>1, <1>2
    <2> QED BY <1>2, <2>1, <2>2
  <1>4. title \in Entities
    <2>1. (CHOOSE l \in LabelsIn : TRUE) \in LabelsIn
      <3>1. PICK l \in LabelNames : TRUE
        BY PublicKeysAssumption
      <3>2. <<l, 0>> \in LabelsIn
        BY DEF LabelsIn
      <3> QED BY <3>2
    <2> QED BY <1>1, <2>1 DEF KeysInit
  <1>5. KeyTables /\ overlapped = TRUE
    BY <1>3, <1>4, KeySetsJoin, ColumnKeysAssumption DEF KeysInit, KeyTables
  <1>6. PlansHold
    <2>1. intent = [t \in Renamings |-> NoPlan] /\ PlanHolds(NoPlan)
      BY <1>5, NoPlanHolds DEF KeysInit
    <2>2. \A t \in Renamings : intent[t] = NoPlan
      BY <2>1
    <2> HIDE DEF NoPlan
    <2> QED BY <2>1, <2>2 DEF PlansHold
  <1> QED BY <1>5, <1>6 DEF KeysInd, NamesApart, AllKeyed, RetiredStay, KeysInit

\* Every write keeps the names apart and the links alive.
LEMMA WritesKeep ==
  ASSUME KeysInd, NEW t \in Renamings,
         WriteCreate(t) \/ WriteUpdate(t) \/ WriteDelete(t) \/ WriteTitle(t) \/ WriteReconcile(t)
  PROVE  KeysInd' /\ Outlive
  <1>0. ASSUME columns' = columns, SameList PROVE Outlive
    BY <1>0, ListStays DEF Outlive, Live
  <1>00. ASSUME Refuse(t) PROVE KeysInd' /\ Outlive
    BY <1>0, <1>00, RefuseKeeps DEF Refuse, namesVars, SameList
  <1>1. CASE WriteCreate(t)
    BY <1>1, CreateKeeps
  <1>2. CASE WriteUpdate(t)
    <2>1. CASE intent[t].id \in Live
      BY <1>2, <2>1, UpdateKeeps
    <2>2. CASE intent[t].id \notin Live
      <3>1. Refuse(t)
        BY <1>2, <2>2 DEF WriteUpdate
      <3> QED BY <1>00, <3>1
    <2> QED BY <2>1, <2>2
  <1>3. CASE WriteDelete(t)
    <2>1. CASE intent[t].id \in Live
      BY <1>3, <2>1, DeleteKeeps
    <2>2. CASE intent[t].id \notin Live
      <3>1. Refuse(t)
        BY <1>3, <2>2 DEF WriteDelete
      <3> QED BY <1>00, <3>1
    <2> QED BY <2>1, <2>2
  <1>4. CASE WriteTitle(t)
    BY <1>00, <1>4, TitleKeeps DEF WriteTitle
  <1>5. CASE WriteReconcile(t)
    <2>1. CASE DOMAIN intent[t].all \subseteq Live
      <3>1. KeysInd' /\ SameList /\ (~overlapped /\ ~overlapped' => UNCHANGED <<columns, title>>)
        BY <1>5, <2>1, ReconcileKeeps
      <3> QED BY <1>0, <3>1, ListStays DEF Outlive
    <2>2. CASE ~(DOMAIN intent[t].all \subseteq Live)
      <3>1. Refuse(t)
        BY <1>5, <2>2 DEF WriteReconcile
      <3> QED BY <1>00, <3>1
    <2> QED BY <2>1, <2>2
  <1> QED BY <1>1, <1>2, <1>3, <1>4, <1>5

LEMMA KeysStep ==
  ASSUME KeysInd, [KeysNext]_keysVars
  PROVE  KeysInd' /\ Outlive
  <1>0. ASSUME columns' = columns, SameList PROVE Outlive
    BY <1>0, ListStays DEF Outlive, Live
  <1>1. CASE UNCHANGED keysVars
    <2>1. UNCHANGED <<columns, title, tombstones, intent, overlapped, retired, dropped>>
      BY <1>1 DEF keysVars
    <2>2. ASSUME NEW s \in Renamings PROVE PlanHolds(intent[s])'
      <3>1. PICK x : x = intent[s]
        OBVIOUS
      <3>2. PlanHolds(x)
        BY <3>1 DEF KeysInd, PlansHold
      <3>3. PlanHolds(x)'
        BY <2>1, <3>2, SamePlan
      <3> QED BY <2>1, <3>1, <3>3
    <2>3. PlansHold'
      BY <2>1, <2>2 DEF KeysInd, PlansHold
    <2>4. Live' = Live
      BY <2>1 DEF Live
    <2>5. KeyTables' /\ NamesApart' /\ AllKeyed' /\ RetiredStay'
      BY <2>1, <2>4 DEF KeysInd, KeyTables, NamesApart, AllKeyed, RetiredStay
    <2> QED BY <1>0, <2>1, <2>3, <2>5 DEF KeysInd, SameList
  <1>2. ASSUME NEW t \in Renamings, NEW e, Plan(t, e) PROVE Outlive
    BY <1>0, <1>2 DEF Plan, namesVars, SameList
  <1>3. ASSUME NEW t \in Renamings, NEW l \in LabelsIn, CreateColumn(t, l) PROVE KeysInd' /\ Outlive
    BY <1>2, <1>3, PlanOfCreate DEF CreateColumn
  <1>4. ASSUME NEW t \in Renamings, NEW l \in LabelsIn, PatchTitle(t, l) PROVE KeysInd' /\ Outlive
    BY <1>2, <1>4, PlanOfTitle DEF PatchTitle
  <1>5. ASSUME NEW t \in Renamings, NEW l \in LabelsIn, NEW c \in DOMAIN columns, UpdateColumn(t, c, l)
        PROVE  KeysInd' /\ Outlive
    BY <1>2, <1>5, PlanOfUpdate DEF UpdateColumn
  <1>6. ASSUME NEW t \in Renamings, NEW c \in DOMAIN columns, DeleteColumn(t, c) PROVE KeysInd' /\ Outlive
    BY <1>2, <1>6, PlanOfDelete DEF DeleteColumn
  <1>7. ASSUME NEW t \in Renamings, Reconcile(t) PROVE KeysInd' /\ Outlive
    BY <1>2, <1>7, PlanOfReconcile DEF Reconcile
  <1>8. CASE KeysNext
    <2>1. PICK t \in Renamings :
            \/ \E l \in LabelsIn : CreateColumn(t, l) \/ PatchTitle(t, l)
                   \/ \E c \in DOMAIN columns : UpdateColumn(t, c, l)
            \/ \E c \in DOMAIN columns : DeleteColumn(t, c)
            \/ Reconcile(t) \/ DeleteTitle(t) \/ PutSnapshot(t)
            \/ WriteCreate(t) \/ WriteUpdate(t) \/ WriteDelete(t) \/ WriteTitle(t) \/ WriteReconcile(t)
      BY <1>8 DEF KeysNext
    <2> QED BY <2>1, <1>3, <1>4, <1>5, <1>6, <1>7, WritesKeep, DeleteTitleKeeps, SnapshotKeeps
  <1> QED BY <1>1, <1>8

LEMMA KeysAlways == KeysSpec => []KeysInd
  BY KeysStart, KeysStep, PTL DEF KeysSpec

\* From a repair on to the next requests that cross, no two columns of a page
\* answer to one name, nor to that of its title, nor to any that a deleted
\* column ever had, unless the list of those was written over one that had
\* changed, or replaced with the page's data (reconcilePublicKeyMetadata,
\* reconcilePublicKeyScope and the commands of page-column-controller.ts).
THEOREM NamesAreApart == KeysSpec => []KeysInv
  <1>1. KeysInd => KeysInv
    <2> SUFFICES ASSUME KeysInd PROVE KeysInv
      OBVIOUS
    <2>1. KeyTables /\ NamesApart /\ RetiredStay
      BY DEF KeysInd
    <2>2. \A i \in DOMAIN columns : columns[i].meta.key \notin columns[i].meta.aliases
      <3> SUFFICES ASSUME NEW i \in DOMAIN columns PROVE columns[i].meta.key \notin columns[i].meta.aliases
        OBVIOUS
      <3>1. columns[i].meta \in Meta
        BY <2>1, TablesOfKeys DEF Entities
      <3> QED BY <3>1 DEF Meta
    <2>3. \A t \in Renamings : intent[t].id \in 0 .. Len(columns)
      BY DEF KeysInd, PlansHold, PlanHolds, PlanTypes
    <2>4. NamesNameOne
      BY <2>1 DEF NamesApart, RetiredStay, NamesNameOne
    <2> QED BY <2>1, <2>2, <2>3, <2>4 DEF KeysInv, KeysTypeOK, KeyTables
  <1> QED BY <1>1, KeysAlways, PTL

\* A name a link uses stays a name of its column when the column is renamed,
\* and is retired when the column is deleted (the aliases of
\* reconcilePublicKeyMetadata), from a repair on to the next requests that
\* cross; and no name leaves the retired ones by a list that is not written
\* over another (appendDeletedColumnKeys).
THEOREM LinksStay == KeysSpec => LinksOutliveRenames
  <1>1. KeysInd /\ [KeysNext]_keysVars =>
          [/\ ~overlapped /\ ~overlapped' =>
                 \A i \in Live : Reserves(columns[i]) \subseteq
                     IF columns'[i].live THEN Reserves(columns'[i]) ELSE tombstones'
           /\ ~dropped' => tombstones \subseteq tombstones']_keysVars
    BY KeysStep DEF Outlive
  <1> QED BY <1>1, KeysAlways, PTL DEF KeysSpec, LinksOutliveRenames

\* The requests of others stay what they are.
LEMMA OthersGoOn ==
  ASSUME KeysInd, NEW s \in Renamings, NEW t \in Renamings, s # t,
         Overtake(s) \/ (\E e : intent' = [intent EXCEPT ![s] = e])
  PROVE  intent'[t].what = "nothing" => intent[t].what = "nothing"
  <1>1. PlansHold /\ Formed(intent[t])
    BY DEF KeysInd, PlansHold, PlanHolds, PlanTypes
  <1>2. CASE Overtake(s)
    <2>1. CASE intent[t].what = "nothing"
      BY <2>1
    <2>2. CASE intent[t].what # "nothing"
      <3>1. intent'[t] = [intent[t] EXCEPT !.stale = TRUE]
        BY <1>2, <2>2 DEF Overtake
      <3>2. intent'[t].what = intent[t].what
        BY <1>1, <3>1 DEF Formed, PlanFields
      <3> QED BY <3>2
    <2> QED BY <2>1, <2>2
  <1>3. CASE \E e : intent' = [intent EXCEPT ![s] = e]
    <2>1. intent'[t] = intent[t]
      BY <1>1, <1>3 DEF PlansHold
    <2> QED BY <2>1
  <1> QED BY <1>2, <1>3

LEMMA StepsOfOthers ==
  ASSUME KeysInd, [KeysNext]_keysVars, NEW t \in Renamings,
         intent[t].what = "reconcile", intent'[t].what = "nothing"
  PROVE  WriteReconcile(t)
  <1>0. ASSUME NEW s \in Renamings, NEW e, Plan(s, e) PROVE FALSE
    <2>1. intent[s].what = "nothing" /\ \E x : intent' = [intent EXCEPT ![s] = x]
      BY <1>0 DEF Plan
    <2>2. s # t
      BY <2>1
    <2> QED BY <2>1, <2>2, OthersGoOn
  <1>00. ASSUME NEW s \in Renamings, s # t, Refuse(s) PROVE FALSE
    <2>1. \E x : intent' = [intent EXCEPT ![s] = x]
      BY <1>00 DEF Refuse
    <2> QED BY <1>00, <2>1, OthersGoOn
  <1>1. intent' # intent
    OBVIOUS
  <1>2. CASE UNCHANGED keysVars
    BY <1>1, <1>2 DEF keysVars
  <1>3. CASE KeysNext
    <2>1. PICK s \in Renamings :
            \/ \E l \in LabelsIn : CreateColumn(s, l) \/ PatchTitle(s, l)
                   \/ \E c \in DOMAIN columns : UpdateColumn(s, c, l)
            \/ \E c \in DOMAIN columns : DeleteColumn(s, c)
            \/ Reconcile(s) \/ DeleteTitle(s) \/ PutSnapshot(s)
            \/ WriteCreate(s) \/ WriteUpdate(s) \/ WriteDelete(s) \/ WriteTitle(s) \/ WriteReconcile(s)
      BY <1>3 DEF KeysNext
    <2>2. ASSUME NEW l \in LabelsIn, CreateColumn(s, l) PROVE FALSE
      BY <1>0, <2>2 DEF CreateColumn
    <2>3. ASSUME NEW l \in LabelsIn, PatchTitle(s, l) PROVE FALSE
      BY <1>0, <2>3 DEF PatchTitle
    <2>4. ASSUME NEW l \in LabelsIn, NEW c \in DOMAIN columns, UpdateColumn(s, c, l) PROVE FALSE
      BY <1>0, <2>4 DEF UpdateColumn
    <2>5. ASSUME NEW c \in DOMAIN columns, DeleteColumn(s, c) PROVE FALSE
      BY <1>0, <2>5 DEF DeleteColumn
    <2>6. ASSUME Reconcile(s) PROVE FALSE
      BY <1>0, <2>6 DEF Reconcile
    <2>7. CASE s = t
      BY <2>1, <2>2, <2>3, <2>4, <2>5, <2>6, <2>7 DEF WriteCreate, WriteUpdate, WriteDelete, WriteTitle, DeleteTitle, PutSnapshot, Turn
    <2>8. CASE s # t
      <3>1. ~Overtake(s)
        BY <2>8, OthersGoOn
      <3>2. ~WriteCreate(s) /\ ~DeleteTitle(s) /\ ~PutSnapshot(s)
        BY <3>1 DEF WriteCreate, Wrote, DeleteTitle, PutSnapshot, Turn
      <3>3. ~WriteUpdate(s) /\ ~WriteDelete(s) /\ ~WriteTitle(s)
        BY <1>00, <2>8, <3>1 DEF WriteUpdate, WriteDelete, WriteTitle, Wrote
      <3>4. ASSUME WriteReconcile(s) PROVE FALSE
        <4>1. Refuse(s) \/ Overtake(s) \/ (\E x : intent' = [intent EXCEPT ![s] = x])
          BY <3>4 DEF WriteReconcile
        <4> QED BY <1>00, <2>8, <4>1, OthersGoOn
      <3> QED BY <2>1, <2>2, <2>3, <2>4, <2>5, <2>6, <3>2, <3>3, <3>4
    <2> QED BY <2>7, <2>8
  <1> QED BY <1>2, <1>3

\* A repair of a page whose names are in order writes nothing: it is its own
\* fixed point (ReconcileScope over names that are apart gives them back;
\* filter-key-reconciler.ts).
THEOREM OrderStays == KeysSpec => OrderIsLeftAlone
  <1>1. KeysInd /\ [KeysNext]_keysVars =>
          [\A t \in Renamings :
              /\ intent[t].what = "reconcile" /\ intent'[t].what = "nothing"
              /\ ~overlapped /\ ~intent[t].stale
              => UNCHANGED <<columns, title>>]_keysVars
    <2> SUFFICES ASSUME KeysInd, [KeysNext]_keysVars, NEW t \in Renamings,
                        intent[t].what = "reconcile", intent'[t].what = "nothing",
                        ~overlapped, ~intent[t].stale
                 PROVE  UNCHANGED <<columns, title>>
      OBVIOUS
    <2>1. WriteReconcile(t)
      BY StepsOfOthers
    <2>2. CASE DOMAIN intent[t].all \subseteq Live
      BY <2>1, <2>2, ReconcileKeeps
    <2>3. CASE ~(DOMAIN intent[t].all \subseteq Live)
      BY <2>1, <2>3 DEF WriteReconcile, Refuse, namesVars
    <2> QED BY <2>2, <2>3
  <1> QED BY <1>1, KeysAlways, PTL DEF KeysSpec, OrderIsLeftAlone
==============================================================================

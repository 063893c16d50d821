---------------------------- MODULE MCPageContents ----------------------------
(* What a page holds, one part at a time: the first state chooses the part   *)
(* that moves, and the others stay as they begin.                            *)
EXTENDS PageFlows, PageRelations, ColumnKeys, PageViews, TLC

CONSTANTS
    Focuses,
    Requests, Colleagues,       \* requests in progress; users who edit
    p, q, x, y,                 \* two payloads, two columns of a form
    a1, a2, b1, A, B, plain,    \* rows of two databases, a relation of the first
    ana, bia,
    FlowValues,
    upper, lower, other,        \* names; the first two have one simple form
    v1, c1                      \* a view and a column

VARIABLE focus

-----------------------------------------------------------------------------
(* Forms: one payload answers both columns, and the flow writes one of them. *)

SomeAnswers == [payload \in Payloads |-> IF payload = p THEN {x} ELSE {x, y}]

-----------------------------------------------------------------------------
(* Flows: every graph of four nodes of which the middle two set a column,   *)
(* send mail, branch or end, and some lists with conditions in them.        *)

Box   == [v \in FlowValues |-> IF v = "" THEN NoMail ELSE "ana"]
AnaIs == [k \in Contacts |-> "Ana"]
Typed == [c \in Fields |-> IF c = x THEN "text" ELSE "email"]
Replied == {[c \in RowKeys |-> IF c = y THEN v ELSE ""] : v \in {"Ana"}}

Node(id, type) ==
    [id |-> id, type |-> type, column |-> Title, operator |-> "", value |-> "", to |-> <<>>,
     next |-> <<>>, yes |-> <<>>, no |-> <<>>]
Sets(id, c, v) == [Node(id, "set_value") EXCEPT !.column = c, !.value = v]
Mails(id)      == [Node(id, "email") EXCEPT !.to = <<ana, y>>]
Branches(id, c, yes, no) ==
    [Node(id, "switch") EXCEPT !.column = c, !.operator = "is_empty", !.yes = yes, !.no = no]
To(n, next) == [n EXCEPT !.next = next]

Ids == {"b", "c", "d"}
MiddleNodes(id) ==
    {To(Sets(id, y, x), <<i>>) : i \in Ids} \cup {To(Mails(id), <<i>>) : i \in Ids}
        \cup {To(Branches(id, x, <<>>, <<>>), <<i, j>>) : i, j \in Ids} \cup {Node(id, "callback")}
Graphs == {[version |-> 1, nodes |-> <<To(Node("a", "start"), <<i>>), m, n, Node("d", "callback")>>] :
              i \in Ids, m \in MiddleNodes("b"), n \in MiddleNodes("c") \cup {To(Mails("b"), <<"d">>)}}
Inner == Branches("e", y, <<Sets("f", y, "ana")>>, <<Mails("g")>>)
Lists == {[version |-> 2, nodes |-> <<Node("a", "start")>> \o steps \o <<Node("d", "callback")>>] :
              steps \in {<<Branches("b", x, <<Sets("c", x, y), Inner>>, <<Mails(i)>>), Mails("h")>> :
                             i \in {"c", "i", "h"}} \cup {<<Mails("b")>>}}
Offered == Graphs \cup Lists

InsideOf(nodes) == UNION {Range(n.yes \o n.no) : n \in nodes}
Sent  == UNION {Range(d.nodes) : d \in Offered}
Sends == Sent \cup InsideOf(Sent) \cup InsideOf(InsideOf(Sent))

-----------------------------------------------------------------------------
(* Relations: from two rows to one, at first not shown at the target.  bia   *)
(* does not see one of the rows.                                             *)

Rowed   == [r \in Pages |-> IF r = b1 THEN B ELSE A]
Begun   == plain :> [kind |-> "relation", from |-> A, to |-> B, one |-> FALSE, pair |-> Absent]
Readers == [u \in Editors |-> IF u = ana THEN Pages ELSE Pages \ {a2}]
Asked ==
    {[enable |-> TRUE, one |-> FALSE, inverseOne |-> TRUE, to |-> B],
     [enable |-> TRUE, one |-> FALSE, inverseOne |-> FALSE, to |-> B],
     [enable |-> FALSE, one |-> FALSE, inverseOne |-> FALSE, to |-> B],
     [enable |-> FALSE, one |-> FALSE, inverseOne |-> FALSE, to |-> A]}

\* How many requests in progress do something else than that.
Besides(whats) == Cardinality({t \in Edits : edit'[t].what \notin {"nothing"} \cup whats})

\* What crosses: edits of cells and one change of the column, or two changes;
\* two people who see different rows; a relation whose target changes.
Crossing(part) ==
    \A t \in Edits : LET e == edit'[t] IN
        CASE part = "cells" ->
               /\ Besides({"cell"}) <= 1 /\ e.by # ana
               /\ e.what # "redefine" /\ (e.at = "asking" => e.want.to = B)
          [] part = "settings" ->
               /\ (e.what = "cell" => Besides({}) = 1) /\ e.by # ana
               /\ e.what # "redefine" /\ (e.at = "asking" => e.want.to = B)
          [] part = "people" ->
               /\ Besides({"cell"}) <= 1 /\ e.what \in {"nothing", "cell", "definition"}
               /\ (e.at = "asking" => e.want.enable /\ e.by = ana)
          [] part = "targets" ->
               /\ Besides({"cell"}) <= 1 /\ e.by # ana /\ e.column \in {plain, Absent}
          [] part = "moves" ->
               /\ (e.at = "asking" => ~e.want.enable) /\ e.by # ana
               /\ e.column \in {plain, Absent} /\ e.what \notin {"reset", "delete"}

-----------------------------------------------------------------------------
(* Names: "Status" and "status" are older than their keys.                   *)

Simplified == [n \in LabelNames |-> IF n = other THEN "b" ELSE "a"]
Older      == <<<<upper, 0>>, <<lower, 0>>>>

-----------------------------------------------------------------------------
(* Views: a page begins with none, with a form that runs nothing, has no     *)
(* order and filters by a column that is not there, or with such a form and  *)
(* a table in one place.                                                     *)

NoViews  == [v \in ViewIds |-> NoView]
Careless == [NoView EXCEPT !.kind = "form", !.order = Unordered, !.filters = {c1}]
Alone    == [NoViews EXCEPT ![v1] = Careless]
Both     == [v \in ViewIds |-> IF v = v1 THEN [Careless EXCEPT !.order = 0] ELSE [NoView EXCEPT !.kind = "table"]]
FirstViews == {NoViews, Alone, Both}

-----------------------------------------------------------------------------
Interchangeable == Permutations(Requests) \cup Permutations(Colleagues)

AllInit ==
    /\ focus \in Focuses
    /\ FormsInit /\ FlowsInit /\ RelationsInit /\ KeysInit /\ ViewsInit
    /\ focus # "views" => views = NoViews

AllNext ==
    \/ focus = "forms" /\ FormsNext
          /\ UNCHANGED <<flowsVars, relationsVars, keysVars, viewsVars, focus>>
    \/ focus = "flows" /\ FlowsNext
          /\ UNCHANGED <<relationsVars, keysVars, viewsVars, focus>>
    \/ focus \in {"cells", "settings", "people", "targets", "moves"} /\ RelationsNext /\ Crossing(focus)
          /\ UNCHANGED <<formsVars, flowsVars, keysVars, viewsVars, focus>>
    \/ focus = "names" /\ KeysNext
          /\ UNCHANGED <<formsVars, flowsVars, relationsVars, viewsVars, focus>>
    \/ focus = "views" /\ ViewsNext
          /\ UNCHANGED <<formsVars, flowsVars, relationsVars, keysVars, focus>>

allVars == <<formsVars, flowsVars, relationsVars, keysVars, viewsVars, focus>>
AllSpec == AllInit /\ [][AllNext]_allVars
==============================================================================

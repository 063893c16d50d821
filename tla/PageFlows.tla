------------------------------ MODULE PageFlows ------------------------------
(***************************************************************************)
(* The flow of a database: a document of nodes that a button of a row, or  *)
(* a submitted form, executes (services/flows, flow-repository.ts,         *)
(* flow-controller.ts).  Version 1 is a graph whose nodes name the next    *)
(* one, version 2 a list of steps with branches inside.                    *)
(*                                                                         *)
(* An execution reads the column, the catalogue and the values of the row, *)
(* walks the document in memory, asking for the lock of each column it     *)
(* sets, and writes everything in one transaction that asks for nothing    *)
(* again.  The locks are those of PageForms.  Values are opaque but for    *)
(* being empty and being an address.  No execution has to go on: a value   *)
(* its codec refuses, an error of the database or a process that stops     *)
(* leaves it where it is, with nothing written.                            *)
(***************************************************************************)
EXTENDS PageForms, Sequences, Functions

CONSTANTS
    Executions,     \* requests that press the button or submit the form
    Title,          \* the pseudo-column of the title of the row
    Values, Empty,  \* values of cells
    Mailbox, NoMail,    \* the address a value is, whatever its case, or NoMail
    Contacts, Address,  \* people a recipient may name, and the value of their e-mail
    Kinds,          \* the types the columns begin with
    Filled,         \* what the answers of a form may give the row
    Nodes,          \* nodes and steps a client may send, those inside others included
    Drafts,         \* documents a client may try to save
    MaxNodes,       \* FLOW_MAX_NODES
    MaxSaves,       \* bound: documents saved
    MaxChanges      \* bound: cells and columns changed by others

RowKeys == Fields \cup {Title}
NoFlow == [version |-> 0, nodes |-> <<>>]
Unread == [c \in {} |-> Empty]

\* Only a condition has branches.
ASSUME FlowsAssumption ==
    /\ Title \notin Columns /\ Empty \in Values /\ Contacts \cap RowKeys = {}
    /\ Kinds \in [Fields -> {"text", "email", "checkbox"}]
    /\ Mailbox[Empty] = NoMail /\ Address \in [Contacts -> Values]
    /\ Filled \subseteq [RowKeys -> Values]
    /\ Drafts \subseteq [version : Nat, nodes : Seq(Nodes)]
    /\ \A n \in Nodes :
          /\ n.next \in Seq({m.id : m \in Nodes})
          /\ n.yes \in Seq(Nodes) /\ n.no \in Seq(Nodes)
          /\ n.type # "switch" => n.yes = <<>> /\ n.no = <<>>
          /\ n.to \in Seq(RowKeys \cup Contacts)
          /\ n.type = "set_value" => n.value \in RowKeys \cup Contacts \cup Values
    /\ MaxNodes \in Nat

VARIABLES
    kinds,      \* page_columns: by column, its type, or "gone" once deleted
    cells,      \* the title and the values of one row
    flow,       \* data.flow of the flow's column
    draft,      \* a document a request has validated and is about to save
    result,     \* the execution whose summary the flow's cell holds
    outbox,     \* the mail of committed executions
    run,        \* by execution: what it read, planned and answered
    saves, changes

flowsVars == <<kinds, cells, flow, draft, result, outbox, run, saves, changes>>

Resting ==
    [at |-> "idle", by |-> Nobody, from |-> "button", flow |-> NoFlow, kinds |-> Unread,
     values |-> Unread, todo |-> <<>>, visited |-> <<>>, writes |-> Unread, mails |-> {},
     could |-> {}, reply |-> "none"]

FlowsInit ==
    /\ kinds = [c \in Columns \cup {Title} |->
            IF c = Flow THEN "flow" ELSE IF c = Title THEN "title" ELSE Kinds[c]]
    /\ cells = [c \in RowKeys |-> Empty]
    /\ flow = NoFlow /\ draft = NoFlow /\ result = Nobody /\ outbox = {}
    /\ run = [t \in Executions |-> Resting]
    /\ saves = 0 /\ changes = 0

-----------------------------------------------------------------------------
(* Documents.                                                               *)

NodeIds(nodes) == [i \in DOMAIN nodes |-> nodes[i].id]
OfType(nodes, type) == {i \in DOMAIN nodes : nodes[i].type = type}
Callback(d) == d.nodes[Len(d.nodes)]
Middle(nodes) == SubSeq(nodes, 2, Len(nodes) - 1)

Operators == {"is_empty", "is_not_empty", "equals", "not_equals"}

ShapedNode(n) ==
    /\ n.type \in {"start", "email", "set_value", "switch", "callback"}
    /\ n.type = "email" => n.to # <<>>
    /\ n.type = "switch" => n.operator \in Operators
    /\ Len(n.next) = CASE n.type = "callback" -> 0 [] n.type = "switch" -> 2 [] OTHER -> 1

\* Every node but the first is the target of another, and targets are ahead.
ParsesV1(nodes) ==
    /\ Len(nodes) \in 2..MaxNodes /\ \A i \in DOMAIN nodes : ShapedNode(nodes[i])
    /\ IsInjective(NodeIds(nodes))
    /\ OfType(nodes, "start") = {1} /\ OfType(nodes, "callback") = {Len(nodes)}
    /\ Cardinality(OfType(nodes, "switch")) <= 1
    /\ \A i \in DOMAIN nodes : \A target \in Range(nodes[i].next) :
          \E j \in i + 1..Len(nodes) : nodes[j].id = target
    /\ \A j \in 2..Len(nodes) : \E i \in DOMAIN nodes : nodes[j].id \in Range(nodes[i].next)

\* The steps of a list in the order they are met, a condition before its
\* branches and these before what follows it, up to FLOW_MAX_NODES.
Meet(b) ==
    IF b.left = <<>> THEN b
    ELSE [met  |-> Append(b.met, Head(b.left)),
          left |-> Head(b.left).yes \o Head(b.left).no \o Tail(b.left)]

Reading(steps) ==
    LET read[k \in 0..MaxNodes] ==
            IF k = 0 THEN [met |-> <<>>, left |-> steps] ELSE Meet(read[k - 1])
    IN read

StepsOf(steps) == Reading(steps)[MaxNodes].met

ShapedStep(s) ==
    /\ s.type \in {"email", "set_value", "switch"}
    /\ s.type = "email" => s.to # <<>>
    /\ s.type = "switch" => s.operator \in Operators

ParsesV2(nodes) ==
    /\ Len(nodes) >= 2
    /\ nodes[1].type = "start" /\ nodes[Len(nodes)].type = "callback"
    /\ Reading(Middle(nodes))[MaxNodes].left = <<>>
    /\ LET steps == StepsOf(Middle(nodes)) IN
       /\ \A i \in DOMAIN steps : ShapedStep(steps[i])
       /\ Len(steps) + 2 <= MaxNodes
       /\ IsInjective(NodeIds(steps \o <<nodes[1], nodes[Len(nodes)]>>))

Parses(d) == IF d.version = 1 THEN ParsesV1(d.nodes) ELSE d.version = 2 /\ ParsesV2(d.nodes)

Documents == {d \in Drafts : Parses(d)}

Parts(d) == Range(IF d.version = 1 THEN d.nodes ELSE StepsOf(Middle(d.nodes)))
PartsOf(d, type) == {n \in Parts(d) : n.type = type}

Supports(kind, operator) == operator \in {"is_empty", "is_not_empty"} => kind # "checkbox"

\* The conditions of version 2 are asked of the columns of the day.
ValidConditions(d, ks) ==
    d.version = 2 => \A n \in PartsOf(d, "switch") :
        ks[n.column] # "gone" /\ Supports(ks[n.column], n.operator)

\* The macros of a document; in version 2 a condition holds none.
Macros(d) ==
    UNION {Range(n.to) \cup ({n.value} \cap RowKeys) : n \in Parts(d) \ PartsOf(d, "switch")}
        \cup (IF d.version = 1 THEN UNION {{n.column} \cup ({n.value} \cap RowKeys) : n \in PartsOf(d, "switch")}
              ELSE {})

KnownMacros(d, ks) == \A key \in Macros(d) : key \notin Contacts => ks[key] # "gone"
Valid(d, ks) == Parses(d) /\ ValidConditions(d, ks) /\ KnownMacros(d, ks)

Recipient(key, ks) == key \notin Contacts => ks[key] \in {"email", "title"}
Target(c, ks)      == c \in Fields /\ ks[c] # "gone"

ValidActions(d, u) ==
    /\ \A n \in PartsOf(d, "email") : \A key \in Range(n.to) : Recipient(key, kinds)
    /\ \A n \in PartsOf(d, "set_value") : Target(n.column, kinds) /\ u \in locks[n.column]

-----------------------------------------------------------------------------
(* Whoever edits the database.                                              *)

CheckDraft(u, d) ==
    /\ saves < MaxSaves /\ draft = NoFlow
    /\ kinds[Flow] = "flow"
    /\ ValidConditions(d, kinds) /\ KnownMacros(d, kinds) /\ ValidActions(d, u)
    /\ draft' = d
    /\ UNCHANGED <<kinds, cells, flow, result, outbox, run, saves, changes>>

\* Saved only while the column is a flow that was not deleted.
SaveDefinition ==
    /\ draft # NoFlow
    /\ flow' = IF kinds[Flow] = "flow" THEN draft ELSE flow
    /\ draft' = NoFlow /\ saves' = saves + 1
    /\ UNCHANGED <<kinds, cells, result, outbox, run, changes>>

ChangeCell(c, v) ==
    /\ changes < MaxChanges /\ changes' = changes + 1
    /\ cells' = [cells EXCEPT ![c] = v]
    /\ UNCHANGED <<kinds, flow, draft, result, outbox, run, saves>>

RetypeColumn(c, kind) ==
    /\ changes < MaxChanges /\ changes' = changes + 1
    /\ c = Flow => kind = "gone"
    /\ kinds' = [kinds EXCEPT ![c] = kind]
    /\ UNCHANGED <<cells, flow, draft, result, outbox, run, saves>>

\* What an execution in progress could write at some moment grows with a lock.
Lock(u, c, list) ==
    /\ SaveLock(u, c, list)
    /\ run' = [t \in Executions |->
            [run[t] EXCEPT !.could = @ \cup {f \in Columns : run[t].by \in locks'[f]}]]
    /\ UNCHANGED <<kinds, cells, flow, draft, result, outbox, saves, changes>>

-----------------------------------------------------------------------------
(* An execution.                                                            *)

Set(t, r) == run' = [run EXCEPT ![t] = r]
End(t, reply) == Set(t, [run[t] EXCEPT !.at = "done", !.reply = reply])
NothingElse == UNCHANGED <<kinds, cells, flow, draft, result, outbox, saves, changes>>

Started(u) ==
    [Resting EXCEPT !.at = "read", !.by = u, !.flow = flow,
        !.could = {f \in Columns : u \in locks[f]}]

Press(t, u) ==
    /\ run[t].at = "idle"
    /\ kinds[Flow] = "flow" /\ u \in locks[Flow]
    /\ Set(t, Started(u))
    /\ NothingElse

\* With a form the values are its answers, and a visitor's run by right of
\* the author of the form.
Submit(t, u, from, answers) ==
    /\ run[t].at = "idle"
    /\ kinds[Flow] = "flow"
    /\ Set(t, [Started(u) EXCEPT !.from = from, !.values = answers])
    /\ NothingElse

ReadCatalog(t) ==
    /\ run[t].at = "read" /\ run[t].kinds = Unread
    /\ Set(t, [run[t] EXCEPT !.kinds = kinds])
    /\ NothingElse

ReadValues(t) ==
    /\ run[t].at = "read" /\ run[t].values = Unread
    /\ Set(t, [run[t] EXCEPT !.values = cells])
    /\ NothingElse

\* Version 2 begins past its start, with the callback after the steps.
Walk(d) == IF d.version = 1 THEN <<d.nodes[1]>> ELSE Tail(d.nodes)

Authorize(t) ==
    LET r == run[t] IN
    /\ r.at = "read" /\ r.kinds # Unread /\ r.values # Unread
    /\ IF r.by \notin locks[Flow] THEN End(t, "forbidden")
       ELSE IF ~Valid(r.flow, r.kinds) THEN End(t, "validation")
       ELSE Set(t, [r EXCEPT !.at = "walk", !.todo = Walk(r.flow),
                    !.visited = IF r.flow.version = 1 THEN <<>> ELSE <<r.flow.nodes[1].id>>])
    /\ NothingElse

Resolve(r, v) ==
    IF v \in RowKeys THEN r.values[v] ELSE IF v \in Contacts THEN Address[v] ELSE v

Named(nodes, id) ==
    LET found == {m \in Range(nodes) : m.id = id}
    IN IF found = {} THEN <<>> ELSE <<CHOOSE m \in found : TRUE>>

\* What is left to do after node n, of whose ways out this is the i-th.
Past(r, n, i) ==
    [r EXCEPT !.visited = Append(@, n.id),
        !.todo = IF r.flow.version = 1 THEN Named(r.flow.nodes, n.next[i])
                 ELSE (IF i = 1 THEN n.yes ELSE n.no) \o Tail(@)]

Walking(t) == run[t].at = "walk" /\ run[t].todo # <<>>
Repeated(t) == run[t].flow.version = 1 /\ Head(run[t].todo).id \in Range(run[t].visited)
Here(t, type) == Walking(t) /\ ~Repeated(t) /\ Head(run[t].todo).type = type

\* A target that is not there, or a node for the second time.
Lost(t) ==
    /\ run[t].at = "walk"
    /\ run[t].todo = <<>> \/ Repeated(t)
    /\ End(t, "lost")
    /\ NothingElse

Begin(t) ==
    /\ Here(t, "start")
    /\ Set(t, Past(run[t], Head(run[t].todo), 1))
    /\ NothingElse

Compare(operator, left, right) ==
    CASE operator = "is_empty"     -> left = Empty
      [] operator = "is_not_empty" -> left # Empty
      [] operator = "equals"       -> left = right
      [] operator = "not_equals"   -> left # right

\* A condition sees what the execution itself has set; the right side is a
\* macro in version 1 only.
Switch(t) ==
    LET r == run[t]
        n == Head(r.todo)
        right == IF r.flow.version = 1 THEN Resolve(r, n.value) ELSE n.value IN
    /\ Here(t, "switch")
    /\ Set(t, Past(r, n, IF Compare(n.operator, r.values[n.column], right) THEN 1 ELSE 2))
    /\ NothingElse

WriteValue(t) ==
    LET r == run[t]
        n == Head(r.todo)
        v == Resolve(r, n.value) IN
    /\ Here(t, "set_value")
    /\ IF ~Target(n.column, r.kinds) THEN End(t, "validation")
       ELSE IF r.by \notin locks[n.column] THEN End(t, "forbidden")
       ELSE Set(t, [Past(r, n, 1) EXCEPT
                    !.values = [@ EXCEPT ![n.column] = v],
                    !.writes = [c \in DOMAIN @ \cup {n.column} |->
                                    IF c = n.column THEN v ELSE @[c]]])
    /\ NothingElse

\* One message for each address of a node, as the last of its keys spells it.
SpelledEach(r, n) ==                                                    \* mutant
    {[node |-> n.id, box |-> Mailbox[Resolve(r, n.to[i])], to |-> Resolve(r, n.to[i])] :
        i \in DOMAIN n.to}
Spelled(r, n) ==
    {[node |-> n.id, box |-> Mailbox[Resolve(r, n.to[i])], to |-> Resolve(r, n.to[i])] :
        i \in {i \in DOMAIN n.to : \A j \in i + 1..Len(n.to) :
                  Mailbox[Resolve(r, n.to[j])] # Mailbox[Resolve(r, n.to[i])]}}

\* A visitor's answer names no recipient.
EnqueueEmail(t) ==
    LET r == run[t]
        n == Head(r.todo)
        keys == Range(n.to) IN
    /\ Here(t, "email")
    /\ IF \E key \in keys : ~Recipient(key, r.kinds) THEN End(t, "validation")
       ELSE IF r.from = "visitor" /\ ~(keys \subseteq Contacts) THEN End(t, "forbidden")
       ELSE IF \E key \in keys : Mailbox[Resolve(r, key)] = NoMail THEN End(t, "validation")
       ELSE Set(t, [Past(r, n, 1) EXCEPT !.mails = @ \cup Spelled(r, n)])
    /\ NothingElse

Finish(t) ==
    LET r == run[t]
        n == Head(r.todo) IN
    /\ Here(t, "callback")
    /\ IF n # Callback(r.flow) THEN End(t, "lost")
       ELSE Set(t, [r EXCEPT !.at = "commit", !.visited = Append(@, n.id), !.todo = <<>>])
    /\ NothingElse

\* dedupe_key: the execution, the node and the address without case.
Deduped(r) == \A m, o \in r.mails : m.node = o.node /\ m.box = o.box => m = o

\* All or nothing; a form's values go to the row it inserts.  The answer of
\* the transaction may be lost.
CommitExecution(t, reply) ==
    LET r == run[t] IN
    /\ r.at = "commit" /\ Deduped(r)
    /\ IF r.from # "button" THEN UNCHANGED <<cells, result>>
       ELSE cells' = [c \in RowKeys |-> IF c \in DOMAIN r.writes THEN r.writes[c] ELSE cells[c]]
            /\ result' = t
    /\ outbox' = outbox \cup {[by |-> t, node |-> m.node, box |-> m.box] : m \in r.mails}
    /\ End(t, reply)
    /\ UNCHANGED <<kinds, flow, draft, saves, changes>>

-----------------------------------------------------------------------------
Editing ==
    \/ \E u \in People, d \in Documents : CheckDraft(u, d)
    \/ SaveDefinition
    \/ \E c \in RowKeys, v \in Values : ChangeCell(c, v)
    \/ \E c \in Columns, kind \in {"text", "checkbox", "gone"} : RetypeColumn(c, kind)

Running(t) ==
    \/ \E u \in People : Press(t, u)
    \/ \E u \in People, from \in {"form", "visitor"}, answers \in Filled : Submit(t, u, from, answers)
    \/ ReadCatalog(t) \/ ReadValues(t) \/ Authorize(t)
    \/ Lost(t) \/ Begin(t) \/ Switch(t) \/ WriteValue(t) \/ EnqueueEmail(t) \/ Finish(t)
    \/ \E reply \in {"succeeded", "server_error"} : CommitExecution(t, reply)

\* Of PageForms only the locks move.
FlowsNext ==
    \/ \E u \in People, c \in Columns, list \in SUBSET People : Lock(u, c, list)
    \/ (Editing \/ \E t \in Executions : Running(t)) /\ UNCHANGED formsVars

FlowsSpec == FormsInit /\ FlowsInit /\ [][FlowsNext]_<<formsVars, flowsVars>>

-----------------------------------------------------------------------------
(* Properties.                                                              *)

WasPlanned(t) == run[t].at = "commit" \/ run[t].reply \in {"succeeded", "server_error"}

\* Rows, and what executions hold, have the types of their columns and locals.
FlowsTypeOK ==
    /\ kinds \in [Columns \cup {Title} -> {"flow", "title", "text", "email", "checkbox", "gone"}]
    /\ cells \in [RowKeys -> Values]
    /\ flow \in Drafts \cup {NoFlow} /\ draft \in Drafts \cup {NoFlow}
    /\ result \in Executions \cup {Nobody}
    /\ \A t \in Executions : run[t].at \in {"idle", "read", "walk", "commit", "done"}

\* What the parser admits the executor finishes: no document that was saved
\* leads an execution to a node that is not there, to one it has been at, or
\* to an end that is not the last node.
AdmittedFlowsEnd == \A t \in Executions : run[t].reply # "lost"

\* One way through a list with conditions in it: in the order of the document,
\* with everything outside of conditions, and of each condition on the way one
\* branch; nothing of the other, nor of a condition beside the way.
OneWay(d, path) ==
    LET order == <<Head(d.nodes)>> \o StepsOf(Middle(d.nodes)) \o <<Callback(d)>>
        On(steps)    == \A i \in DOMAIN steps : steps[i].id \in Range(path)
        Beside(steps) == \A i \in DOMAIN steps : steps[i].id \notin Range(path)
    IN /\ \A i, j \in DOMAIN path : i < j =>
             \E k, l \in DOMAIN order : k < l /\ order[k].id = path[i] /\ order[l].id = path[j]
       /\ On(d.nodes)
       /\ \A n \in PartsOf(d, "switch") :
             IF n.id \in Range(path)
             THEN (On(n.yes) /\ Beside(n.no)) \/ (On(n.no) /\ Beside(n.yes))
             ELSE Beside(n.yes) /\ Beside(n.no)

\* The nodes an execution reports are one way through the document from its
\* first node to its last: a step after a condition is executed once,
\* whichever branch was taken, and of the other branch nothing is.
WholePath(d, path) ==
    IF d.version = 2 THEN OneWay(d, path)
    ELSE /\ Head(path) = Head(d.nodes).id /\ path[Len(path)] = Callback(d).id
         /\ \A i \in 1..Len(path) - 1 : \E n \in Parts(d) :
               n.id = path[i] /\ path[i + 1] \in Range(n.next)

PathsAreWhole == \A t \in Executions : WasPlanned(t) => WholePath(run[t].flow, run[t].visited)

\* Whatever its recipients resolve to, an execution has one message for each
\* node and address, so the dedupe_key of its own mail never refuses it.
MailsAreDeduped == \A t \in Executions : run[t].at = "commit" => Deduped(run[t])

\* What a visitor answers reaches nobody: their mail goes to people of the database.
VisitorsMailPeople ==
    \A m \in outbox : run[m.by].from = "visitor" => \E k \in Contacts : Mailbox[Address[k]] = m.box

\* A column is set by right of someone whose list had it at some moment since
\* the execution began; the transaction asks for no lock again.
WritesWereAllowed ==
    \A t \in Executions : WasPlanned(t) => DOMAIN run[t].writes \cup {Flow} \subseteq run[t].could

\* What every reachable state of the flow satisfies.
FlowsInv ==
    FlowsTypeOK /\ AdmittedFlowsEnd /\ PathsAreWhole /\ MailsAreDeduped /\ VisitorsMailPeople
        /\ WritesWereAllowed
==============================================================================

------------------------------ MODULE PublicKeys ------------------------------
(***************************************************************************)
(* How columns, options and views get the names that links use             *)
(* (public-key.ts, filter-key-registry.ts).  An entity has a key and the   *)
(* aliases it had before; older rows have neither, and answer to what      *)
(* their label would be called.                                            *)
(*                                                                         *)
(* A label is <<name, n>>, "Status" or "Status (n)"; a key is the simple   *)
(* form of the name and the suffixes after it, <<"status", 1, 2>> for      *)
(* "status_1_2".  Names that differ in accents or punctuation have one     *)
(* simple form.                                                            *)
(***************************************************************************)
EXTENDS Integers, Sequences, FiniteSets

CONSTANTS
    LabelNames,
    Simple          \* by name: the simple form of it

ASSUME PublicKeysAssumption == LabelNames \subseteq DOMAIN Simple /\ LabelNames # {}

Legacy == [key |-> <<>>, aliases |-> {}]

Keyed(meta) == meta # Legacy
Known(meta) == IF Keyed(meta) THEN {meta.key} \cup meta.aliases ELSE {}

NormalizePublicKey(label) ==
    IF label[2] = 0 THEN <<Simple[label[1]]>> ELSE <<Simple[label[1]], label[2]>>

Least(S) == CHOOSE n \in S : \A m \in S : n <= m

\* The smallest suffix free.
AllocatePublicKey(base, reserved) ==
    IF base \notin reserved THEN base
    ELSE Append(base, Least({n \in 2 .. Cardinality(reserved) + 2 : Append(base, n) \notin reserved}))

\* A new label with the name of another gets the smallest suffix free.
AllocateDuplicateLabel(label, taken) ==
    IF label \notin taken THEN label
    ELSE <<label[1], Least({n \in 1 .. Cardinality(taken) + 1 : <<label[1], n>> \notin taken})>>

\* An entity keeps its key until it is renamed, or another has it; a key it
\* leaves becomes an alias, unless it is another's.
ForgetfulMetadata(label, meta, reserved, rename) ==                     \* mutant
    IF Keyed(meta) /\ ~rename /\ meta.key \notin reserved THEN meta
    ELSE [key |-> AllocatePublicKey(NormalizePublicKey(label), reserved), aliases |-> {}]
ReconcileMetadata(label, meta, reserved, rename) ==
    LET base == NormalizePublicKey(label)
        past == Known(meta) \ ({base} \cup reserved)
        key  == AllocatePublicKey(base, reserved \cup past)
    IN IF Keyed(meta) /\ ~rename /\ meta.key \notin reserved
       THEN [meta EXCEPT !.aliases = @ \ reserved]
       ELSE [key |-> key, aliases |-> past \ {key}]

Reserves(entity) ==
    IF Keyed(entity.meta) THEN Known(entity.meta) ELSE {NormalizePublicKey(entity.label)}

FirstOf(ids) == {i \in ids : \A j \in ids : i <= j}

\* A name belongs to the first that has it in its metadata, then to the first
\* whose label it is.  Entities are numbered in the order they are read.
OwnerByLabel(entities, external, k) ==                                  \* mutant
    IF k \in external THEN {}
    ELSE FirstOf({i \in DOMAIN entities : k = NormalizePublicKey(entities[i].label)})
OwnerOf(entities, external, k) ==
    LET has    == {i \in DOMAIN entities : k \in Known(entities[i].meta)}
        legacy == {i \in DOMAIN entities : ~Keyed(entities[i].meta) /\ k \in Reserves(entities[i])}
    IN IF k \in external THEN {} ELSE FirstOf(IF has # {} THEN has ELSE legacy)

NamesOfOthers(entities, external, i) ==
    {k \in external \cup UNION {Reserves(entities[j]) : j \in DOMAIN entities} :
        OwnerOf(entities, external, k) # {i}}

\* The whole of a scope, in order: each entity leaves the names of others.
ReconcileScope(entities, external) ==
    LET result[i \in DOMAIN entities] ==
            ReconcileMetadata(entities[i].label, entities[i].meta,
                NamesOfOthers(entities, external, i)
                    \cup UNION {Known(result[j]) : j \in {n \in DOMAIN entities : n < i}}, FALSE)
    IN result
==============================================================================

------------------------------- MODULE Seeder -------------------------------
(***************************************************************************)
(* The seeding CLI: Apply reconciles a YAML file with the metadata in one  *)
(* transaction.                                                            *)
(*                                                                         *)
(* What other parties see of the transaction is its commit, so Apply is    *)
(* one step that computes the new tables, or fails and changes nothing.    *)
(* Create and Save are the library's: Create stores the column default for *)
(* a field that holds its zero value, Save stores the field as it is.      *)
(*                                                                         *)
(* `body` stands for the columns without a default, `schema` for the       *)
(* columns whose zero value a file may leave in (target_schema,            *)
(* watermark_type, batch_size).                                            *)
(***************************************************************************)
EXTENDS Lists

CONSTANTS SourceNames, LoadNames,
          Files     \* seed files: sequences sources, loads, modbus, opcua

VARIABLES
  sources,  \* meta_sources by name
  loads,    \* meta_loads by name
  tags,     \* meta_modbus_tags by load, in the order of their ids
  nodes,    \* meta_opcua_nodes by load
  last,     \* the file applied last, with nothing done to the tables since
  again     \* how often in a row it has been applied, at most 3

tables == <<sources, loads, tags, nodes>>
seedVars == <<tables, last, again>>

\* The strings; those that are defaults are named, since to the provers a literal
\* is not known to be a string.
Texts == STRING \cup {"", "dbo", "big", "high_first"}

\* What a file may say; a flag or a number may be left out, a name may be missing.
Switches == {"unset", "yes", "no"}
SourceSpecs == [name : SourceNames \cup {""}, kind : Texts, enabled : Switches]
LoadSpecs == [name : LoadNames \cup {""}, source : Texts, body : Int, schema : Texts,
              enabled : Switches]
TagSpecs == [load : Texts, name : Texts, register : Texts, type : Texts, quantity : Nat,
             byteOrder : Texts, wordOrder : Texts, scale : Seq(Int), offset : Seq(Int),
             enabled : Switches]
NodeSpecs == [load : Texts, name : Texts, id : Texts, scale : Seq(Int), offset : Seq(Int),
              enabled : Switches]

ASSUME FilesAssumption ==
  Files \subseteq [sources : Seq(SourceSpecs), loads : Seq(LoadSpecs),
                   modbus : Seq(TagSpecs), opcua : Seq(NodeSpecs)]

\* The rows of the tables.
States == {"absent", "live", "deleted"}
SourceRows == [state : States, kind : Texts, enabled : BOOLEAN]
LoadRows == [state : States, source : Texts, body : Int, schema : Texts, enabled : BOOLEAN]
TagRows == [name : Texts, register : Texts, type : Texts, quantity : Nat \ {0},
            byteOrder : Texts, wordOrder : Texts, scale : Int, offset : Int,
            enabled : BOOLEAN]
NodeRows == [name : Texts, id : Texts, scale : Int, offset : Int, enabled : BOOLEAN]

NoSource == [state |-> "absent", kind |-> "", enabled |-> FALSE]
NoLoad == [state |-> "absent", source |-> "", body |-> 0, schema |-> "", enabled |-> FALSE]

SeederInit ==
  /\ sources = [s \in SourceNames |-> NoSource]
  /\ loads = [l \in LoadNames |-> NoLoad]
  /\ tags = [l \in LoadNames |-> <<>>] /\ nodes = [l \in LoadNames |-> <<>>]
  /\ last = <<>> /\ again = 0

(***************************************************************************)
(* The upserts, on the transaction's view of the tables.                   *)
(***************************************************************************)
boolOr(p, def) == IF p = "unset" THEN def ELSE p = "yes"
numberOr(p, def) == IF p = <<>> THEN def ELSE p[1]    \* <<>> where the file is silent
stringOr(s, def) == IF s = "" THEN def ELSE s

Tables == [ok |-> TRUE, sources |-> sources, loads |-> loads, tags |-> tags, nodes |-> nodes]
Fails(t) == [t EXCEPT !.ok = FALSE]

\* The zero value of a column with a default is not stored.
CreatedEnabled(b) == TRUE
CreatedSchema(s) == IF s = "" THEN "dbo" ELSE s
CreatedScale(x) == IF x = 0 THEN 1 ELSE x

\* A deleted row is not found, and its name is still taken.
upsertSource(t, spec) ==
  IF ~t.ok \/ spec.name = "" \/ spec.kind = "" THEN Fails(t)
  ELSE LET row == t.sources[spec.name] IN
    IF row.state = "deleted" THEN Fails(t)
    ELSE [t EXCEPT !.sources[spec.name] =
            [state |-> "live", kind |-> spec.kind,
             enabled |-> IF row.state = "absent"
                         THEN CreatedEnabled(boolOr(spec.enabled, TRUE))
                         ELSE boolOr(spec.enabled, row.enabled)]]

LoadEnabled_Reset(spec, row) ==
  IF row.state = "absent" THEN CreatedEnabled(boolOr(spec.enabled, TRUE))
  ELSE boolOr(spec.enabled, TRUE)
LoadEnabled(spec, row) ==
  IF row.state = "absent" THEN CreatedEnabled(boolOr(spec.enabled, TRUE))
  ELSE boolOr(spec.enabled, row.enabled)

upsertLoad_CreatesOnly(t, spec) ==
  IF ~t.ok \/ spec.name = "" \/ spec.source \notin SourceNames THEN Fails(t)
  ELSE IF t.loads[spec.name].state = "live" THEN t
  ELSE [t EXCEPT !.loads[spec.name] =
          [state |-> "live", source |-> spec.source, body |-> spec.body,
           schema |-> CreatedSchema(spec.schema), enabled |-> TRUE]]
upsertLoad(t, spec) ==
  IF ~t.ok \/ spec.name = "" \/ spec.source \notin SourceNames THEN Fails(t)
  ELSE LET row == t.loads[spec.name] IN
    IF t.sources[spec.source].state # "live" \/ row.state = "deleted" THEN Fails(t)
    ELSE [t EXCEPT !.loads[spec.name] =
            [state |-> "live", source |-> spec.source, body |-> spec.body,
             schema |-> IF row.state = "absent" THEN CreatedSchema(spec.schema)
                                                ELSE spec.schema,
             enabled |-> LoadEnabled(spec, row)]]

\* The specs of a load, in the order of the file.
Of(specs, l) == Picked(specs, {i \in DOMAIN specs : specs[i].load = l})

Width(type) ==
  IF type \in {"int32", "uint32", "float32"} THEN 2
  ELSE IF type \in {"int64", "uint64", "float64"} THEN 4 ELSE 1
defaultQuantity(spec) == IF spec.quantity > 0 THEN spec.quantity ELSE Width(spec.type)

TagRow(spec) ==
  [name |-> spec.name, register |-> spec.register, type |-> spec.type,
   quantity |-> defaultQuantity(spec),
   byteOrder |-> stringOr(spec.byteOrder, "big"),
   wordOrder |-> stringOr(spec.wordOrder, "high_first"),
   scale |-> CreatedScale(numberOr(spec.scale, 1)), offset |-> numberOr(spec.offset, 0),
   enabled |-> CreatedEnabled(boolOr(spec.enabled, TRUE))]
NodeRow(spec) ==
  [name |-> spec.name, id |-> spec.id,
   scale |-> CreatedScale(numberOr(spec.scale, 1)), offset |-> numberOr(spec.offset, 0),
   enabled |-> CreatedEnabled(boolOr(spec.enabled, TRUE))]

\* A load that has specs in the file loses its old rows; another keeps them.
Replaced_Appends(old, new) == old \o new
Replaced(old, new) == IF new = <<>> THEN old ELSE new

TagsComplete(specs) ==
  \A i \in DOMAIN specs : specs[i].name # "" /\ specs[i].register # "" /\ specs[i].type # ""
NodesComplete(specs) == \A i \in DOMAIN specs : specs[i].name # "" /\ specs[i].id # ""

\* One turn of the loop over the loads: the load, its tags, its nodes.
SeedLoad(t, spec, file) ==
  LET u == upsertLoad(t, spec)
      m == Of(file.modbus, spec.name)  o == Of(file.opcua, spec.name)
  IN IF ~u.ok \/ ~TagsComplete(m) \/ ~NodesComplete(o) THEN Fails(u)
     ELSE [u EXCEPT !.tags[spec.name] = Replaced(@, Map(TagRow, m)),
                    !.nodes[spec.name] = Replaced(@, Map(NodeRow, o))]
Declared(file) == {file.loads[i].name : i \in DOMAIN file.loads}
Referenced(file) == {file.modbus[i].load : i \in DOMAIN file.modbus}
                    \cup {file.opcua[i].load : i \in DOMAIN file.opcua}

\* The loops over the sources and over the loads.
SeedSources(t, specs) ==
  LET u[k \in 0..Len(specs)] == IF k = 0 THEN t ELSE upsertSource(u[k - 1], specs[k])
  IN u[Len(specs)]
SeedLoads(t, file) ==
  LET u[k \in 0..Len(file.loads)] ==
        IF k = 0 THEN t ELSE SeedLoad(u[k - 1], file.loads[k], file)
  IN u[Len(file.loads)]

\* The tables when the transaction ends.
Seeded(file) == SeedLoads(SeedSources(Tables, file.sources), file)

\* Tags of a load that is not in the file are refused up front.  Any failure,
\* the database's included, rolls everything back.
Apply(file) ==
  LET t == Seeded(file)
  IN /\ Referenced(file) \subseteq Declared(file) /\ t.ok
     /\ sources' = t.sources /\ loads' = t.loads
     /\ tags' = t.tags /\ nodes' = t.nodes
     /\ last' = file
     /\ again' = IF last = file /\ again < 3 THEN again + 1
                 ELSE IF last = file THEN 3 ELSE 1

(***************************************************************************)
(* Other tools write to the same tables.                                   *)
(***************************************************************************)
Edit(l, row) ==
  /\ loads[l].state = "live" /\ loads[l] # row
  /\ loads' = [loads EXCEPT ![l] = row]
  /\ last' = <<>> /\ again' = 0
  /\ UNCHANGED <<sources, tags, nodes>>

DeleteSource(s) ==
  /\ sources[s].state = "live"
  /\ sources' = [sources EXCEPT ![s].state = "deleted"]
  /\ last' = <<>> /\ again' = 0
  /\ UNCHANGED <<loads, tags, nodes>>

EditLoad(l) == \/ Edit(l, [loads[l] EXCEPT !.enabled = ~@])
               \/ Edit(l, [loads[l] EXCEPT !.state = "deleted"])

(***************************************************************************)
(* Properties.                                                             *)
(***************************************************************************)
\* The i-th spec is the last one of its name.
IsLast(specs, i) == \A j \in DOMAIN specs : j > i => specs[j].name # specs[i].name

\* The i-th spec is the last one of its name that sets the flag.
IsLastFlag(specs, i) ==
  /\ specs[i].enabled # "unset"
  /\ \A j \in DOMAIN specs : j > i /\ specs[j].name = specs[i].name => specs[j].enabled = "unset"

\* The rows that a file asks for, with the defaults of what it leaves out.
TagWanted(spec) ==
  [name |-> spec.name, register |-> spec.register, type |-> spec.type,
   quantity |-> IF spec.quantity = 0 THEN Width(spec.type) ELSE spec.quantity,
   byteOrder |-> stringOr(spec.byteOrder, "big"), wordOrder |-> stringOr(spec.wordOrder, "high_first"),
   scale |-> numberOr(spec.scale, 1), offset |-> numberOr(spec.offset, 0),
   enabled |-> spec.enabled # "no"]
NodeWanted(spec) ==
  [name |-> spec.name, id |-> spec.id, scale |-> numberOr(spec.scale, 1),
   offset |-> numberOr(spec.offset, 0), enabled |-> spec.enabled # "no"]

\* A row has every column that is wanted; but a scale of 0 and a point switched
\* off are not asked of it.
SameButZeros(row, want) ==
  /\ \A c \in DOMAIN want \ {"scale", "enabled"} : row[c] = want[c]
  /\ want.scale # 0 => row.scale = want.scale
  /\ want.enabled => row.enabled

\* Once a file has been applied, what it declares is what the tables hold: the
\* last spec of a name decides, the last that sets a flag decides on the flag,
\* and the tags and nodes of a load are the file's and no others, in its order
\* and in every column.  The flags and the columns with defaults of a source and
\* a load are so from the second application on; of a tag or node, a scale of 0
\* and the flag off never are (Create stores the default for them).
FileWins ==
  again > 0 =>
    /\ \A i \in DOMAIN last.sources :
         LET spec == last.sources[i]  row == sources[spec.name]
         IN /\ IsLast(last.sources, i) => row.state = "live" /\ row.kind = spec.kind
            /\ again > 1 /\ IsLastFlag(last.sources, i) => row.enabled = (spec.enabled = "yes")
    /\ \A i \in DOMAIN last.loads :
         LET spec == last.loads[i]  l == spec.name  row == loads[l]
             m == Of(last.modbus, l)  o == Of(last.opcua, l)
         IN /\ IsLast(last.loads, i) =>
                 row.state = "live" /\ row.source = spec.source /\ row.body = spec.body
            /\ again > 1 /\ IsLast(last.loads, i) => row.schema = spec.schema
            /\ again > 1 /\ IsLastFlag(last.loads, i) => row.enabled = (spec.enabled = "yes")
            /\ m # <<>> => /\ Len(tags[l]) = Len(m)
                           /\ \A j \in DOMAIN m : SameButZeros(tags[l][j], TagWanted(m[j]))
            /\ o # <<>> => /\ Len(nodes[l]) = Len(o)
                           /\ \A j \in DOMAIN o : SameButZeros(nodes[l][j], NodeWanted(o[j]))

\* docs/02-architecture.md, "Seeding and schedule reloads converge on the desired
\* state and are safe to repeat": once a file has been applied, a load or a point
\* that it switches on or off is on or off, and stays so when it is applied again.
SeedConverges ==
  again > 0 =>
    \A i \in DOMAIN last.loads :
      LET spec == last.loads[i]  l == spec.name
          m == Of(last.modbus, l)  o == Of(last.opcua, l)
      IN /\ IsLastFlag(last.loads, i) => loads[l].enabled = (spec.enabled = "yes")
         /\ \A j \in DOMAIN m : tags[l][j].enabled = (m[j].enabled # "no")
         /\ \A j \in DOMAIN o : nodes[l][j].enabled = (o[j].enabled # "no")

\* "Seeding ... safe to repeat": from the second application on, applying a
\* file again changes nothing.  (The second may: it stores the zero values
\* that the first, which created the rows, replaced by defaults.)
SeedSettles == [][again' = 3 => UNCHANGED tables]_seedVars

\* A file that does not say whether a load is enabled never switches a load
\* that exists on or off, whatever an operator had chosen.
OperatorsChoiceStays ==
  [][\A f \in Files, l \in LoadNames :
       /\ last' = f /\ again' > 0
       /\ loads[l].state = "live"
       /\ \A i \in DOMAIN f.loads : f.loads[i].name = l => f.loads[i].enabled = "unset"
       => loads'[l].enabled = loads[l].enabled]_seedVars

(***************************************************************************)
(* The inductive invariant.                                                *)
(***************************************************************************)
SeederTypeOK ==
  /\ sources \in [SourceNames -> SourceRows] /\ loads \in [LoadNames -> LoadRows]
  /\ tags \in [LoadNames -> Seq(TagRows)] /\ nodes \in [LoadNames -> Seq(NodeRows)]
  /\ again \in 0..3
  /\ again > 0 => last \in Files

\* The tables agree with a file that was applied, but for the zero values that
\* creating a row replaced.
Written(file, t) ==
  /\ \A i \in DOMAIN file.sources :
       LET spec == file.sources[i]  row == t.sources[spec.name]
       IN /\ spec.name \in SourceNames /\ row.state = "live"
          /\ IsLast(file.sources, i) => row.kind = spec.kind
  /\ \A i \in DOMAIN file.loads :
       LET spec == file.loads[i]  l == spec.name
           m == Of(file.modbus, l)  o == Of(file.opcua, l)
       IN /\ l \in LoadNames /\ t.loads[l].state = "live"
          /\ IsLast(file.loads, i) => t.loads[l].source = spec.source /\ t.loads[l].body = spec.body
          /\ m # <<>> => t.tags[l] = Map(TagRow, m)
          /\ o # <<>> => t.nodes[l] = Map(NodeRow, o)

\* They agree with the zero values too.
Settled(file, t) ==
  /\ \A i \in DOMAIN file.sources : IsLastFlag(file.sources, i) =>
       t.sources[file.sources[i].name].enabled = (file.sources[i].enabled = "yes")
  /\ \A i \in DOMAIN file.loads :
       LET spec == file.loads[i]  row == t.loads[spec.name]
       IN /\ IsLast(file.loads, i) => row.schema = spec.schema
          /\ IsLastFlag(file.loads, i) => row.enabled = (spec.enabled = "yes")

SeedInv == /\ SeederTypeOK
           /\ again > 0 => Written(last, Tables)
           /\ again > 1 => Settled(last, Tables)
=============================================================================

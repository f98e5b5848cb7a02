---------------------------- MODULE MCTelemetry ----------------------------
(***************************************************************************)
(* Telemetry with one Modbus load and one OPC UA load.                     *)
(*                                                                         *)
(* `Shapes` are files with one tag: every type, in the four orders, with   *)
(* the default number of words, too few and too many.  The other files are *)
(* about seeding: flags and fields left out, a name given twice, tags left *)
(* alone, and files that are refused.                                      *)
(***************************************************************************)
EXTENDS Telemetry

Plc == [name |-> "plc", kind |-> "modbus", enabled |-> "unset"]
Ua == [name |-> "ua", kind |-> "opcua", enabled |-> "unset"]
LoadSpec(n, s, body, schema, enabled) ==
  [name |-> n, source |-> s, body |-> body, schema |-> schema, enabled |-> enabled]
TagSpec(n, register, type, quantity, bytes, words, scale, enabled) ==
  [load |-> "m", name |-> n, register |-> register, type |-> type, quantity |-> quantity,
   byteOrder |-> bytes, wordOrder |-> words, scale |-> scale, offset |-> <<3>>,
   enabled |-> enabled]
NodeSpec(n, id) == [load |-> "o", name |-> n, id |-> id, scale |-> <<2>>, offset |-> <<>>,
                    enabled |-> "unset"]
File(s, l, m, o) == [sources |-> s, loads |-> l, modbus |-> m, opcua |-> o]

M1 == LoadSpec("m", "plc", 1, "dbo", "unset")
O1 == LoadSpec("o", "ua", 1, "dbo", "unset")

Quantities(type) == IF Width(type) = 4 THEN {0} ELSE {0, 1, Width(type) + 1}
Asked(type, q, bytes, words) ==
  /\ q \in Quantities(type)
  /\ Width(type) = 4 => words = "low_first"
  /\ type \in {"uint64", "float64"} => bytes = "big"
Shapes ==
  {File(<<Plc>>, <<M1>>, <<TagSpec("a", "holding", t, q, b, w, <<2>>, "unset")>>, <<>>) :
     <<t, q, b, w>> \in {x \in (Supported \cup {"bool"}) \X {0, 1, 2, 3}
                               \X {"big", "little"} \X {"high_first", "low_first"} :
                           Asked(x[1], x[2], x[3], x[4])}}

Int16(n, enabled) == TagSpec(n, "input", "int16", 0, "", "", <<>>, enabled)
Coil == TagSpec("c", "coil", "bool", 0, "", "", <<>>, "unset")
Odd == TagSpec("d", "register", "int16", 0, "", "", <<0>>, "unset")

\* A first and a changed version of the Modbus load.
First == File(<<Plc>>, <<LoadSpec("m", "plc", 1, "", "unset")>>, <<Int16("a", "no"), Coil>>, <<>>)
Changed == File(<<Plc>>, <<LoadSpec("m", "plc", 2, "dbo", "no"), LoadSpec("m", "plc", 3, "dbo", "yes")>>,
                <<Odd>>, <<>>)
\* Disabled from the start; its tags are not in the file.
Off == File(<<Plc>>, <<LoadSpec("m", "plc", 4, "dbo", "no")>>, <<>>, <<>>)
NodesFile == File(<<Ua>>, <<O1>>, <<>>, <<NodeSpec("x", "i=1"), NodeSpec("y", "malformed"),
                                          NodeSpec("z", "i=2")>>)
Malformed == File(<<Ua>>, <<O1>>, <<>>, <<NodeSpec("y", "malformed")>>)
Refused == {File(<<Plc>>, <<M1>>, <<>>, <<NodeSpec("x", "i=1")>>),
            File(<<Plc>>, <<M1, O1>>, <<>>, <<>>),
            File(<<Plc>>, <<M1>>, <<[Coil EXCEPT !.register = ""]>>, <<>>)}

MCRacing == {Changed}
MCFiles == Shapes \cup {First, Changed, Off, NodesFile, Malformed} \cup Refused
MCResults ==
  {[status |-> "OK", variant |-> [type |-> "number", v |-> 1]],
   [status |-> "OK", variant |-> [type |-> "text", v |-> 2]],
   [status |-> "OK", variant |-> [type |-> "null", v |-> 0]],
   [status |-> "Uncertain", variant |-> [type |-> "number", v |-> 3]],
   [status |-> "BadNodeIdUnknown", variant |-> [type |-> "none", v |-> 0]]}
\* A behaviour is about one of the two loads; a shape is read as first seeded,
\* and nothing else is seeded then.
OneAtATime ==
  /\ \E l \in LoadNames : loads'[l].state = "absent"
  /\ last' \in Shapes /\ last' # last => \A l \in LoadNames : loads[l].state = "absent"
  /\ last \in Shapes => UNCHANGED seedVars
MCNext == TeleNext /\ OneAtATime
MCSpec == TeleInit /\ [][MCNext]_teleVars
MCNeighbours == {<<0, 1>>}
=============================================================================

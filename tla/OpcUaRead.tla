----------------------------- MODULE OpcUaRead -----------------------------
(***************************************************************************)
(* The rows of one OPC UA polling cycle.  One request carries the nodes    *)
(* whose id parses; its results come back as a list without ids, to be     *)
(* matched with the nodes by position.                                     *)
(*                                                                         *)
(* A result has a status and a variant; a row has a quality and at most    *)
(* one of a number, a boolean and a text, where a text is a value or an    *)
(* error.  Scaling is kept symbolic.                                       *)
(***************************************************************************)
EXTENDS Lists, FiniteSets

Value(column, v) == [column |-> column, v |-> v]
Error == [column |-> "error", v |-> <<>>]

badRow(n) == [name |-> n.name, value |-> Error, quality |-> "bad"]

\* Only three codes are told apart.
qualityFromStatus(status) ==
  IF status = "Bad" THEN "bad" ELSE IF status = "Uncertain" THEN "uncertain" ELSE "good"

\* The column for the type of a variant; scale and offset go with numbers.
assignValue(variant, n) ==
  IF variant.type = "number" THEN Value("num", <<variant.v, n.scale, n.offset>>)
  ELSE IF variant.type = "bool" THEN Value("bool", <<variant.v>>)
  ELSE Value("text", <<variant.v>>)    \* strings, times, arrays and structures

\* A variant is missing, or holds nothing.
NullVariant(variant) == variant.type \in {"none", "null"}

RowOf(n, dv) ==
  IF dv.status # "OK"
  THEN [name |-> n.name, value |-> Error, quality |-> qualityFromStatus(dv.status)]
  ELSE IF NullVariant(dv.variant) THEN badRow(n)
  ELSE [name |-> n.name, value |-> assignValue(dv.variant, n), quality |-> "good"]

\* The request: the nodes whose id parses, in order.
Parsed(nodes) == {i \in DOMAIN nodes : nodes[i].valid}
Requested(nodes) == Picked(nodes, Parsed(nodes))

\* respIdx when the loop is at node i, both counted from 1.
respIdx_All(nodes, i) == i
respIdx(nodes, i) == Counter(Parsed(nodes), i)

OpcRows(nodes, results) ==
  [i \in 1..Len(nodes) |->
     IF ~nodes[i].valid \/ respIdx(nodes, i) > Len(results) THEN badRow(nodes[i])
     ELSE RowOf(nodes[i], results[respIdx(nodes, i)])]

\* The whole request failed.
OpcFailedRows(nodes) == [i \in 1..Len(nodes) |-> badRow(nodes[i])]
=============================================================================

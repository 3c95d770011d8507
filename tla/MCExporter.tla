------------------------------ MODULE MCExporter ------------------------------
(* Two scrapes of three subcommands, each of which prints what it should (a goal in
   two families too), something else, one series twice, or nothing. *)
EXTENDS Exporter

Row(l, tag, len, text) == [labels |-> l, tag |-> tag, len |-> len, text |-> text]

MCOutputs == [c \in Commands |->
  CASE c = "info" ->
         {<<>>, <<Row("a", "v", 15, {1}), Row("b", "x", 1, {1})>>, <<Row("a", "v", 15, {1, 4})>>}
    [] c = "chunks-health" ->
         {<<>>, <<Row("a", "AVA", 5, {1, 2}), Row("a", "REP", 9, {1, 2})>>,
          <<Row("a", "AVA", 5, {1, 2}), Row("b", "DEL", 9, {1, 2, 8})>>,
          <<Row("a", "AVA", 5, {1, 2}), Row("a", "AVA", 5, {1, 2})>>}
    [] OTHER -> {<<Row("a", "master", 3, {1, 2})>>}]
=============================================================================

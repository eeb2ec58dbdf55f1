----------------------------- MODULE MCJsonText -----------------------------
(***************************************************************************)
(* Items to print: atoms, strings with and without escapes, and arrays and *)
(* objects of up to two entries, three deep.  No two numbers are           *)
(* neighbours, so that a missing comma does not make one of two.           *)
(***************************************************************************)
EXTENDS JsonText

Node(type, value, child) == [type |-> type, value |-> value, string |-> NULL, child |-> child]
As(name, node) == [node EXCEPT !.string = name]

Atoms ==
  {Node(t, NULL, <<>>) : t \in {"null", "false", "true"}}
    \cup {Node("number", v, <<>>) : v \in {"0", "int"}}
    \cup {Node("string", str, <<>>) : str \in {<<>>, <<"\n", "bell", "a">>}}
Empty == {Node(t, NULL, <<>>) : t \in {"array", "object"}}

Text == Node("string", <<"a">>, <<>>)
Lists(nodes) ==
  {Node("array", NULL, <<n>>) : n \in nodes}
    \cup {Node("array", NULL, <<n, Text>>) : n \in nodes}
    \cup {Node("object", NULL, <<As(<<"a">>, n)>>) : n \in nodes}
    \cup {Node("object", NULL, <<As(<<"bell">>, Text), As(<<>>, n)>>) : n \in nodes}

Inner == {Node("array", NULL, <<Node("number", "0", <<>>)>>),
          Node("object", NULL, <<As(<<"a">>, Node("object", NULL, <<>>))>>)}

MCValues == Atoms \cup Empty \cup Lists(Atoms \cup Empty \cup Inner)
=============================================================================

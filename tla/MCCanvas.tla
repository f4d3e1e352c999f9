------------------------------ MODULE MCCanvas ------------------------------
(* Three nodes in a row, of which the last two may be folded; another file   *)
(* has two edges with one label at one input port.                           *)
EXTENDS Canvas

JoinAs(s, t, label) ==
  [id |-> [base |-> <<s, "out", t, "in">>, n |-> 1], source |-> s, sh |-> "out",
   target |-> t, th |-> "in", kind |-> "chain", label |-> label]
Join(s, t) == JoinAs(s, t, [base |-> <<s, "out", t, "in">>, n |-> 1])

Three == {[id |-> x, inputs |-> None] : x \in {"a", "b", "c"}}
Row   == [nodes |-> Three, edges |-> {Join("a", "b"), Join("b", "c")}]
Crowd == [nodes |-> Three,
          edges |-> {Join("b", "c"), JoinAs("a", "c", [base |-> <<"b", "out", "c", "in">>, n |-> 1])}]

MCFiles == {Row, Crowd}

Fold(hides) == [id |-> "fold0", members |-> {"b", "c"}, collapsed |-> hides]

Start == { {}, {Fold(TRUE)}, {Fold(FALSE)} }
=============================================================================

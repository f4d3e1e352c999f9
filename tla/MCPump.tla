------------------------------- MODULE MCPump -------------------------------
(* Two nodes: an inhibitor whose output has two edges, a gate whose output    *)
(* has one, which an outside edit may take away, and a dead end.  The gate,   *)
(* or both of them, may be in a collapsed fold.                              *)
EXTENDS Pump

Joins(id, s, p, t) == [id |-> id, source |-> s, port |-> p, target |-> t]
Fan   == <<Joins("e1", "c", "ToNext", "g"), Joins("e2", "c", "ToNext", "c")>>
Whole == Fan \o <<Joins("e3", "g", "To", "c")>>

Folding(members) == [n \in Node |-> IF n \in members THEN "fold" ELSE None]
MCDrawings == {[spec |-> Fan, fold |-> Folding({})]} \cup
              {[spec |-> Whole, fold |-> Folding(members)] : members \in {{}, {"g"}, Node}}

MCEvent == { [kind |-> "recv", node |-> "g", port |-> "From"],
             [kind |-> "fire", node |-> "g", port |-> None],
             [kind |-> "send", node |-> "g", port |-> "To"],
             [kind |-> "send", node |-> "g", port |-> "Dead"],
             [kind |-> "send", node |-> "c", port |-> "ToNext"] }
=============================================================================

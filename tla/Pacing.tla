------------------------------- MODULE Pacing -------------------------------
(***************************************************************************)
(* What the pacing ring promises: the values of one input list enter the   *)
(* chain in order, none lost and none repeated, and a value is released    *)
(* only after the acknowledgement of the one before it has come back.      *)
(***************************************************************************)
EXTENDS Integers, Sequences

CONSTANT Values   \* the input list

VARIABLES
  released,  \* the values that have entered the chain
  credit     \* the read gate may release a value

vars == <<released, credit>>

Init == released = <<>> /\ credit = TRUE

\* The read gate lets the next value into the chain and spends its credit.
Release ==
  /\ credit
  /\ Len(released) < Len(Values)
  /\ released' = Append(released, Values[Len(released) + 1])
  /\ credit' = FALSE

\* The last inhibitor of the chain has seen the value and acknowledges it.
Acknowledge ==
  /\ ~credit
  /\ credit' = TRUE
  /\ UNCHANGED released

Next == Release \/ Acknowledge

Spec == Init /\ [][Next]_vars

\* As long as the runtime is not cancelled every value is released and
\* acknowledged.
Fairness == WF_vars(Release) /\ WF_vars(Acknowledge)
=============================================================================

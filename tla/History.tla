------------------------------ MODULE History ------------------------------
(***************************************************************************)
(* Undo and redo of the canvas: two stacks of snapshots beside what is     *)
(* shown.  Handlers of the canvas take a snapshot before they change it.   *)
(***************************************************************************)
EXTENDS Integers, Sequences

CONSTANT Limit   \* HISTORY_LIMIT
ASSUME HistoryAssumption == Limit \in Nat

VARIABLES shown, past, future   \* the canvas, and snapshots of it

historyVars == <<shown, past, future>>

\* A mistake: the oldest snapshot stays.
PushedForever(stack) == Append(stack, shown)

\* The stack with a snapshot of the canvas; beyond the limit the oldest one
\* is dropped.
Pushed(stack) ==
  IF Len(stack) < Limit THEN Append(stack, shown) ELSE Tail(Append(stack, shown))

\* pushSnapshot n times, before anything else is shown.
PushSnapshots(n) ==
  /\ past' = IF n = 2 THEN Pushed(Pushed(past)) ELSE Pushed(past)
  /\ future' = <<>>

PushSnapshot == PushSnapshots(1)

\* A mistake: what is shown now is not kept for redo.
UndoForgets ==
  /\ past # <<>>
  /\ shown' = past[Len(past)]
  /\ past' = SubSeq(past, 1, Len(past) - 1)
  /\ future' = Append(future, past[Len(past)])

undo ==
  /\ past # <<>>
  /\ shown' = past[Len(past)]
  /\ past' = SubSeq(past, 1, Len(past) - 1)
  /\ future' = Append(future, shown)

redo ==
  /\ future # <<>>
  /\ shown' = future[Len(future)]
  /\ future' = SubSeq(future, 1, Len(future) - 1)
  /\ past' = Append(past, shown)   \* without regard to the limit

\* All the user can get at by undo and redo, from the oldest to the newest.
Timeline ==
  [k \in 1..(Len(past) + 1 + Len(future)) |->
     IF k <= Len(past) THEN past[k]
     ELSE IF k = Len(past) + 1 THEN shown
     ELSE future[Len(past) + 1 + Len(future) - k + 1]]

\* history.ts:32 and 50: redo pushes without a limit, and yet neither stack
\* ever exceeds it, since only the limited pushes make the two longer.
HistoryBounded == Len(past) + Len(future) <= Limit

\* Undo and redo move along one timeline and lose nothing of it.
TimelineKept == [][undo \/ redo => Timeline' = Timeline]_historyVars
=============================================================================

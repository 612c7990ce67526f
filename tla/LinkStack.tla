------------------------------ MODULE LinkStack ------------------------------
(***************************************************************************)
(* What a chain promises: links are stacked while it is open, settled from *)
(* the top while it resolves, and each outcome is final.  There are no     *)
(* bodies here, and no frames, decisions or budgets.                       *)
(***************************************************************************)
EXTENDS Naturals, Sequences

VARIABLES
  phase,   \* closed, open or resolving
  stack    \* the outcome of each link, the top one last

vars == <<phase, stack>>

Top == stack[Len(stack)]

Init == phase = "closed" /\ stack = << >>

Open ==
  /\ phase = "closed"
  /\ phase' = "open"
  /\ stack' = << >>

Push ==
  /\ phase = "open"
  /\ stack' = Append(stack, "pending")
  /\ UNCHANGED phase

Seal ==
  /\ phase = "open"
  /\ stack # << >>
  /\ phase' = "resolving"
  /\ UNCHANGED stack

\* The outcome of a link is decided once, and only while it is on top.
Settle ==
  /\ phase = "resolving"
  /\ stack # << >>
  /\ Top = "pending"
  /\ \E outcome \in {"executed", "negated"} :
       stack' = [stack EXCEPT ![Len(stack)] = outcome]
  /\ UNCHANGED phase

Pop ==
  /\ phase = "resolving"
  /\ stack # << >>
  /\ Top # "pending"
  /\ stack' = SubSeq(stack, 1, Len(stack) - 1)
  /\ UNCHANGED phase

Reopen ==
  /\ phase = "resolving"
  /\ stack = << >>
  /\ phase' = "open"
  /\ UNCHANGED stack

Close ==
  /\ phase = "open"
  /\ stack = << >>
  /\ phase' = "closed"
  /\ UNCHANGED stack

Next == Open \/ Push \/ Seal \/ Settle \/ Pop \/ Reopen \/ Close

Spec == Init /\ [][Next]_vars
=============================================================================

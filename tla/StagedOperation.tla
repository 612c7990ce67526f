--------------------------- MODULE StagedOperation ---------------------------
(***************************************************************************)
(* What staging promises about each operation, without frames, queues or   *)
(* budgets: a plan may be amended while its handlers run, is frozen when   *)
(* the last of them reports, and is then applied once or cancelled once -  *)
(* or never, if a handler failed.                                          *)
(***************************************************************************)
CONSTANTS
  Ids,         \* operation ids
  Plans,       \* an instruction with its cancellation flag
  Applicable,  \* plans that may be applied
  Cancelled    \* plans that are dropped

VARIABLES
  phase,   \* absent, open, doomed, sealed, rejected, applied or cancelled
  plan     \* the plan of each operation

vars == <<phase, plan>>

Move(id, to) == phase' = [phase EXCEPT ![id] = to]
Keep == plan' = plan
Replan(id) == \E p \in Plans : plan' = [plan EXCEPT ![id] = p]

Init ==
  /\ phase = [id \in Ids |-> "absent"]
  /\ plan \in [Ids -> Plans]

\* An operation without handlers is sealed from the start.
Stage(id) ==
  /\ phase[id] = "absent"
  /\ Move(id, "open") \/ Move(id, "sealed")
  /\ Replan(id)

Amend(id) ==
  /\ phase[id] \in {"open", "doomed"}
  /\ Move(id, phase[id])
  /\ Replan(id)

\* The last handler reports, and no handler has failed.
Seal(id) ==
  /\ phase[id] = "open"
  /\ Move(id, "sealed")
  /\ Keep

\* A handler fails, or the last handler of a doomed operation reports.  Its last
\* instruction may have amended the plan first.
Doom(id) ==
  /\ phase[id] \in {"open", "doomed"}
  /\ Move(id, "doomed") \/ Move(id, "rejected")
  /\ Replan(id)

Apply(id) ==
  /\ phase[id] = "sealed"
  /\ plan[id] \in Applicable
  /\ Move(id, "applied")
  /\ Keep

Cancel(id) ==
  /\ phase[id] = "sealed"
  /\ plan[id] \in Cancelled
  /\ Move(id, "cancelled")
  /\ Keep

Next == \E id \in Ids :
  \/ Stage(id)
  \/ Amend(id)
  \/ Seal(id)
  \/ Doom(id)
  \/ Apply(id)
  \/ Cancel(id)

Spec == Init /\ [][Next]_vars
=============================================================================

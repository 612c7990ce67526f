---------------------------- MODULE Replacements ----------------------------
(***************************************************************************)
(* Staged instructions and their replacement handlers.                     *)
(*                                                                         *)
(* STAGE freezes one concrete mutation under a fresh id and queues a copy  *)
(* of every frame subscribed to the "would" event; each copy may edit the  *)
(* operands or the cancellation flag through its CONTROL.PENDING_* cells   *)
(* until its first terminal result.  COMMIT waits for all of them and then *)
(* applies the amended instruction, or drops it when it was cancelled.     *)
(*                                                                         *)
(* A step is one instruction of one frame.  Programs are arbitrary, and a  *)
(* host may run the frames it holds in any order and with any budget, so   *)
(* every interleaving of instructions is a run of the program.             *)
(***************************************************************************)
EXTENDS Integers, FiniteSets, Sequences

CONSTANTS
  MaxId,          \* kImmediateMax: the last pending id that Stage can give out
  Registrations,  \* SUBSCRIBE registrations that a would-event may find
  Drivers,        \* frames without a pending context: the host's own frames,
                  \* delivered event frames, link bodies
  Operands,       \* operand triples of an instruction (words 1 to 3)
  WellFormed,     \* those that pass ValidInstruction and resolve at execution
  AttributeDst,   \* those whose destination is a numeric attribute
  MaxHandlers,    \* bound on the handler frames of a run (not in the code)
  Nested          \* TRUE: a handler COMMITs only what was staged after its own
                  \* operation (a condition on the programs, not on the code)

ASSUME ReplacementsAssumption ==
  /\ MaxId \in Nat
  /\ IsFiniteSet(Registrations)
  /\ Operands # {}
  /\ WellFormed \subseteq Operands
  /\ AttributeDst \subseteq Operands
  /\ Drivers \cap ((1..MaxId) \X Registrations) = {}
  /\ Nested \in BOOLEAN

Ids == 1..MaxId
Handlers == Ids \X Registrations   \* the copy of r's frame that staging id made
Frames == Drivers \cup Handlers

\* Only the opcodes the code tells apart: STORE has a destination rule of its
\* own; SUMMON, which NEGATE can cancel, stands for every other mutation too (one
\* that no NEGATE is aimed at).
Opcodes == {"STORE", "SUMMON"}
Instructions == [opcode: Opcodes, operands: Operands]
NoFrame == [opcode |-> "none"]     \* a null PendingOperation::execution

\* PendingOperation.  CONTROL.PENDING_CANCELLED accepts any word: "bad" is every
\* word that is neither immediate zero ("no") nor immediate one ("yes").
PendingOperation ==
  [instruction: Instructions, cancelled: {"no", "yes", "bad"},
   participants: Nat, failed: BOOLEAN, execution: Instructions \cup {NoFrame}]

Unstaged ==
  [instruction |-> [opcode |-> "STORE", operands |-> CHOOSE o \in Operands : TRUE],
   cancelled |-> "no", participants |-> 0, failed |-> FALSE, execution |-> NoFrame]

VARIABLES
  next,        \* Replacements::next_
  entries,     \* ids in Replacements::entries_
  op,          \* the PendingOperation of each staged id (shared, so it outlives Erase)
  completed,   \* PendingParticipant::completed of each handler frame
  status,      \* where a frame is and how its last Run ended
  at,          \* the id of the COMMIT that suspended a frame, else 0
  applied      \* history: the instructions that COMMIT reported as applied

vars == <<next, entries, op, completed, status, at, applied>>

Staged(id) == id < next
HandlerFrames == {h \in Handlers : status[h] # "absent"}

-----------------------------------------------------------------------------
(* Helpers.                                                                *)

\* ValidInstruction, and for STORE the rule that it writes storage.
Stageable(i) ==
  /\ i.operands \in WellFormed
  /\ i.opcode = "STORE" => i.operands \in AttributeDst

MutPendingCell(f) == f \in Handlers

\* Cell: the pending cells exist only while the participant is incomplete.
PendingCell(f) == f \in Handlers /\ ~completed[f]

MutAlreadyCompleted(f) == FALSE

AlreadyCompleted(f) == completed[f]

\* PendingParticipant::Complete on the operations o, when handler f ends.
Complete(o, f, success) ==
  IF AlreadyCompleted(f) THEN o
  ELSE [o EXCEPT ![f[1]].participants = IF @ > 0 THEN @ - 1 ELSE 0,
                 ![f[1]].failed = @ \/ ~success]

MutReports(f, st) == f \in Handlers /\ st = "halted"

\* Runtime::Run reports every terminal status to the frame's participant.
Reports(f, st) == f \in Handlers

MutMarkCompleted(f) == completed

MarkCompleted(f) == [completed EXCEPT ![f] = TRUE]

\* Runtime::Run: what a terminal status does to the frame and its participant.
Return(o, f, st) ==
  /\ op' = IF Reports(f, st) THEN Complete(o, f, st = "halted") ELSE o
  /\ completed' = IF Reports(f, st) THEN MarkCompleted(f) ELSE completed
  /\ status' = [status EXCEPT ![f] = st]

MutIdLeft == TRUE

\* Replacements::Stage throws when this does not hold.
IdLeft == next <= MaxId

MutNewOperation(i, R) ==
  [instruction |-> i, cancelled |-> "no", failed |-> FALSE,
   participants |-> Cardinality(Registrations), execution |-> NoFrame]

NewOperation(i, R) ==
  [instruction |-> i, cancelled |-> "no", failed |-> FALSE,
   participants |-> Cardinality(R), execution |-> NoFrame]

MutErase(id) == entries

\* Replacements::Erase.
Erase(id) == entries \ {id}

\* A frame the host holds and that is about to execute an arbitrary instruction.
CanStep(f) == status[f] = "live" /\ at[f] = 0

-----------------------------------------------------------------------------
(* Instructions of a frame.                                                *)

\* STAGE, which finds the registrations R for its would-event (any set: other
\* programs may SUBSCRIBE and CANCEL in between).  The event is recorded and
\* handed to those handlers; it is not delivered as an ordinary event.  An
\* instruction that cannot be staged is Fault's business; with the ids exhausted
\* Replacements::Stage throws and the frame stays where it is.
Stage(f, i, R) ==
  /\ CanStep(f)
  /\ IdLeft
  /\ Stageable(i)
  /\ Cardinality(HandlerFrames) + Cardinality(R) <= MaxHandlers
  /\ op' = [op EXCEPT ![next] = NewOperation(i, R)]
  /\ status' = [h \in Frames |-> IF h \in {next} \X R THEN "ready"
                                 ELSE status[h]]
  /\ entries' = entries \cup {next}
  /\ next' = next + 1
  /\ UNCHANGED <<completed, at, applied>>

\* STORE/SET to CONTROL.PENDING_DESTINATION, _SOURCE0 or _SOURCE1: any word.
AmendOperands(f, o) ==
  /\ CanStep(f)
  /\ PendingCell(f)
  /\ op' = [op EXCEPT ![f[1]].instruction.operands = o]
  /\ UNCHANGED <<next, entries, completed, status, at, applied>>

\* STORE/SET to CONTROL.PENDING_CANCELLED: any word.
AmendCancelled(f, c) ==
  /\ CanStep(f)
  /\ PendingCell(f)
  /\ op' = [op EXCEPT ![f[1]].cancelled = c]
  /\ UNCHANGED <<next, entries, completed, status, at, applied>>

\* NEGATE SUMMON of the card that the pending SUMMON moves.  The flag is set
\* first: when the storage write that follows fails, the handler has already
\* cancelled the operation and then fails it.
NegateSummon(f) ==
  /\ CanStep(f)
  /\ PendingCell(f)
  /\ op[f[1]].instruction.opcode = "SUMMON"
  /\ LET negated == [op EXCEPT ![f[1]].cancelled = "yes"]
     IN \/ /\ op' = negated
           /\ UNCHANGED <<completed, status>>
        \/ Return(negated, f, "faulted")
  /\ UNCHANGED <<next, entries, at, applied>>

\* HALT, or running past the last instruction.  Running a halted frame again
\* returns kHalted at once, and reports to the participant again.
Halt(f) ==
  /\ status[f] = "halted" \/ CanStep(f)
  /\ Return(op, f, "halted")
  /\ UNCHANGED <<next, entries, at, applied>>

\* Any other instruction that ends in kFault, kUnsupported or kInvalidProgram.
Fault(f) ==
  /\ CanStep(f)
  /\ Return(op, f, "faulted")
  /\ UNCHANGED <<next, entries, at, applied>>

-----------------------------------------------------------------------------
(* COMMIT: one action for each way it returns.  A COMMIT that waits or     *)
(* runs out of budget keeps the pc, and the next Run tries it again.  So   *)
(* does one that faults, but its operand may read something else by then:  *)
(* a frame that is run again after a fault may execute any instruction.    *)

AtCommit(f, id) ==
  /\ status[f] = "live"
  /\ at[f] \in {0, id}
  /\ Nested /\ f \in Handlers => id > f[1]

StoreLeavesStorage(i) == i.opcode = "STORE" /\ i.operands \notin AttributeDst

MutSettled(id) ==
  /\ id \in entries
  /\ op[id].participants = 0

\* The checks that precede the application all passed.
Settled(id) ==
  /\ id \in entries
  /\ op[id].participants = 0
  /\ ~op[id].failed

Accepted(id) ==
  /\ Settled(id)
  /\ op[id].cancelled = "no"
  /\ ~StoreLeavesStorage(op[id].instruction)

\* The single-instruction frame is made by the first COMMIT that gets this far
\* and kept for its retries.
Execution(id) == IF op[id].execution = NoFrame THEN op[id].instruction
                                              ELSE op[id].execution

CommitWaiting(f, id) ==
  /\ AtCommit(f, id)
  /\ id \in entries
  /\ op[id].participants > 0
  /\ at' = [at EXCEPT ![f] = id]
  /\ UNCHANGED <<next, entries, op, completed, status, applied>>

\* Unknown or erased id, failed handler, a cancellation flag that is not a
\* boolean, a STORE redirected out of storage.
CommitRejected(f, id) ==
  /\ AtCommit(f, id)
  /\ \/ id \notin entries
     \/ /\ op[id].participants = 0
        /\ \/ op[id].failed
           \/ op[id].cancelled = "bad"
           \/ /\ op[id].cancelled = "no"
              /\ StoreLeavesStorage(op[id].instruction)
  /\ Return(op, f, "faulted")
  /\ at' = [at EXCEPT ![f] = 0]
  /\ UNCHANGED <<next, entries, applied>>

CommitCancelled(f, id) ==
  /\ AtCommit(f, id)
  /\ Settled(id)
  /\ op[id].cancelled = "yes"
  /\ entries' = Erase(id)
  /\ at' = [at EXCEPT ![f] = 0]
  /\ UNCHANGED <<next, op, completed, status, applied>>

\* The COMMIT itself used up the budget: the nested Run starts with none.
CommitStarved(f, id) ==
  /\ AtCommit(f, id)
  /\ Accepted(id)
  /\ op' = [op EXCEPT ![id].execution = Execution(id)]
  /\ at' = [at EXCEPT ![f] = id]
  /\ UNCHANGED <<next, entries, completed, status, applied>>

\* The nested instruction is invalid, or its storage operation fails.  The
\* entry stays and the COMMIT can be tried again.
CommitFaulted(f, id) ==
  /\ AtCommit(f, id)
  /\ Accepted(id)
  /\ Return([op EXCEPT ![id].execution = Execution(id)], f, "faulted")
  /\ at' = [at EXCEPT ![f] = 0]
  /\ UNCHANGED <<next, entries, applied>>

CommitApplied(f, id) ==
  /\ AtCommit(f, id)
  /\ Accepted(id)
  /\ Execution(id).operands \in WellFormed
  /\ op' = [op EXCEPT ![id].execution = Execution(id)]
  /\ applied' = [applied EXCEPT ![id] = Append(@, Execution(id))]
  /\ entries' = Erase(id)
  /\ at' = [at EXCEPT ![f] = 0]
  /\ UNCHANGED <<next, completed, status>>

Commit(f, id) ==
  \/ CommitWaiting(f, id)
  \/ CommitRejected(f, id)
  \/ CommitCancelled(f, id)
  \/ CommitStarved(f, id)
  \/ CommitFaulted(f, id)
  \/ CommitApplied(f, id)

-----------------------------------------------------------------------------
(* The host.                                                               *)

MutTakeReady ==
  /\ \E f \in Frames : status[f] = "ready"
  /\ status' = [f \in Frames |-> IF status[f] = "ready" THEN "absent" ELSE status[f]]
  /\ UNCHANGED <<next, entries, op, completed, at, applied>>

\* Runtime::TakeReady: the queue moves to the host, which may now run it.
TakeReady ==
  /\ \E f \in Frames : status[f] = "ready"
  /\ status' = [f \in Frames |-> IF status[f] = "ready" THEN "live" ELSE status[f]]
  /\ UNCHANGED <<next, entries, op, completed, at, applied>>

\* A fault leaves halted clear and the pc where it was: the host may run the
\* frame again, although its participant has already reported the failure.
Retry(f) ==
  /\ status[f] = "faulted"
  /\ status' = [status EXCEPT ![f] = "live"]
  /\ UNCHANGED <<next, entries, op, completed, at, applied>>

-----------------------------------------------------------------------------

Init ==
  /\ next = 1
  /\ entries = {}
  /\ op = [id \in Ids |-> Unstaged]
  /\ completed = [h \in Handlers |-> FALSE]
  /\ status = [f \in Frames |-> IF f \in Drivers THEN "live" ELSE "absent"]
  /\ at = [f \in Frames |-> 0]
  /\ applied = [id \in Ids |-> << >>]

Execute(f) ==
  \/ \E i \in Instructions, R \in SUBSET Registrations : Stage(f, i, R)
  \/ \E o \in Operands : AmendOperands(f, o)
  \/ \E c \in {"no", "yes", "bad"} : AmendCancelled(f, c)
  \/ NegateSummon(f)
  \/ \E id \in Ids : Commit(f, id)
  \/ Halt(f)
  \/ Fault(f)

Next ==
  \/ \E f \in Frames : Execute(f) \/ Retry(f)
  \/ TakeReady

Spec == Init /\ [][Next]_vars

-----------------------------------------------------------------------------
(* Fairness.  The host drains the queue and keeps running the frames it    *)
(* holds, with enough budget for the instruction that a COMMIT executes; a *)
(* program that is not resting on a COMMIT ends.  Nothing is assumed of    *)
(* faulted frames: a host need not run them again.                         *)

End(f) == Halt(f) \/ Fault(f)
Resume(f) == \E id \in Ids : at[f] = id /\ Commit(f, id)

Fairness ==
  /\ WF_vars(TakeReady)
  /\ \A f \in Frames : WF_vars(End(f)) /\ WF_vars(Resume(f))

FairSpec == Spec /\ Fairness

-----------------------------------------------------------------------------
(* Properties.                                                             *)

\* The type invariant.
TypeOK ==
  /\ next \in 1..(MaxId + 1)
  /\ entries \subseteq 1..(next - 1)
  /\ op \in [Ids -> PendingOperation]
  /\ completed \in [Handlers -> BOOLEAN]
  /\ status \in [Frames -> {"absent", "ready", "live", "halted", "faulted"}]
  /\ at \in [Frames -> 0..MaxId]
  /\ applied \in [Ids -> Seq(Instructions)]

\* The handler frames of an operation whose participant has not reported.
Outstanding(id) ==
  {h \in {id} \X Registrations : status[h] # "absent" /\ ~completed[h]}

\* PendingOperation::participants, which COMMIT trusts, is the number of handler
\* frames that have not reported, however often a frame is run again.
ParticipantsExact ==
  \A id \in Ids : op[id].participants = Cardinality(Outstanding(id))

\* Once the last handler has reported, nothing can change the operands, the
\* cancellation flag or the verdict that COMMIT is going to act on: not a
\* handler run again after its fault, and not a frame it captured.
SealedIsFrozen ==
  [][\A id \in Ids : Staged(id) /\ op[id].participants = 0 =>
       /\ op'[id].instruction = op[id].instruction
       /\ op'[id].cancelled = op[id].cancelled
       /\ op'[id].failed = op[id].failed]_vars

\* COMMIT applies an operation at most once, whoever commits it and however
\* often, and what it applies is the amended instruction, with every handler
\* ended, none of them failed, and never a STORE that left storage.
AppliedOnceAsAmended ==
  \A id \in Ids : applied[id] # << >> =>
    /\ applied[id] = << op[id].instruction >>
    /\ op[id].cancelled = "no"
    /\ ~StoreLeavesStorage(op[id].instruction)
    /\ \A h \in {id} \X Registrations : status[h] # "absent" => completed[h]
    /\ ~op[id].failed

\* The frame cached by a COMMIT that ran out of budget or faulted still holds
\* the instruction as amended when a later COMMIT reuses it.
ExecutionFresh ==
  \A id \in Ids : op[id].execution \in {NoFrame, op[id].instruction}

\* The host can get h on: it is queued, not at a COMMIT, or no longer held there.
CanProgress(h) ==
  \/ status[h] = "ready"
  \/ status[h] = "live" /\ at[h] = 0
  \/ status[h] = "live" /\ at[h] # 0 /\ op[at[h]].participants = 0

\* COMMIT never waits for nobody: while an operation has participants, some
\* handler of some operation can still make progress.  This needs Nested: a
\* handler that COMMITs its own operation waits for itself.
WaitHasARunner ==
  (\E id \in Ids : op[id].participants > 0) =>
     \E h \in Handlers : ~completed[h] /\ CanProgress(h)

\* Refinement: what StagedOperation calls the phase and the plan of an operation.
Phase(id) ==
  CASE ~Staged(id) -> "absent"
    [] Staged(id) /\ id \notin entries ->
         IF applied[id] = << >> THEN "cancelled" ELSE "applied"
    [] Staged(id) /\ id \in entries /\ op[id].participants > 0 ->
         IF op[id].failed THEN "doomed" ELSE "open"
    [] Staged(id) /\ id \in entries /\ op[id].participants = 0 ->
         IF op[id].failed THEN "rejected" ELSE "sealed"

Plan(id) == [instruction |-> op[id].instruction, cancelled |-> op[id].cancelled]
Plans == [instruction: Instructions, cancelled: {"no", "yes", "bad"}]

Staging == INSTANCE StagedOperation WITH
  Applicable <- {p \in Plans : p.cancelled = "no" /\ p.instruction.operands \in WellFormed
                                /\ ~StoreLeavesStorage(p.instruction)},
  Cancelled <- {p \in Plans : p.cancelled = "yes"},
  phase <- [id \in Ids |-> Phase(id)],
  plan <- [id \in Ids |-> Plan(id)]

\* The frames, the shared participants and the retried COMMITs together keep the
\* promise of StagedOperation for every operation.
ImplementsStaging == Staging!Spec

\* Every handler that STAGE queued eventually reports, so no operation stays
\* open for ever.
HandlersDrain ==
  \A id \in Ids : (op[id].participants > 0) ~> (op[id].participants = 0)

\* A frame suspended at a COMMIT eventually gets past it or faults.
CommitReturns == \A f \in Frames :
  (status[f] = "live" /\ at[f] # 0) ~> (at[f] = 0 \/ status[f] = "faulted")
=============================================================================

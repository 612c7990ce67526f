------------------------- MODULE ReplacementsProofs -------------------------
(***************************************************************************)
(* Replacements, for every number of ids, registrations and drivers: the   *)
(* inductive invariant, and from it the safety properties the runs check.  *)
(***************************************************************************)
EXTENDS Replacements, FiniteInduction, FiniteSetTheorems, TLAPS

USE DEF Ids, Handlers, Frames

\* Ids from next on have no operation, no history and no handler frame.
FutureIsBlank ==
  /\ \A id \in Ids : ~Staged(id) => op[id] = Unstaged /\ applied[id] = << >>
  /\ \A h \in Handlers : ~Staged(h[1]) => status[h] = "absent"
  /\ \A h \in Handlers : status[h] = "absent" => ~completed[h]

\* What COMMIT looked at stays true once it has acted on it.
VerdictStands ==
  \A id \in Ids : op[id].execution # NoFrame \/ applied[id] # << >> =>
    /\ op[id].participants = 0
    /\ ~op[id].failed
    /\ op[id].cancelled = "no"
    /\ ~StoreLeavesStorage(op[id].instruction)

AppliedIsErased ==
  \A id \in Ids : applied[id] # << >> =>
    applied[id] = << op[id].instruction >> /\ id \notin entries

\* COMMIT erases an operation only after its handlers.
ErasedIsClosed ==
  \A id \in Ids : Staged(id) /\ id \notin entries => op[id].participants = 0

IInv ==
  /\ TypeOK
  /\ FutureIsBlank
  /\ ParticipantsExact
  /\ VerdictStands
  /\ ExecutionFresh
  /\ AppliedIsErased
  /\ ErasedIsClosed

-----------------------------------------------------------------------------
(* Facts about one operation.                                              *)

\* The handlers of one operation are finitely many.
LEMMA OutstandingFinite ==
  ASSUME NEW id \in Ids
  PROVE  IsFiniteSet(Outstanding(id))
<1>1. IsFiniteSet({id} \X Registrations)
  BY FS_Singleton, FS_Product, ReplacementsAssumption
<1> QED
  BY <1>1, FS_Subset DEF Outstanding

\* A handler that has not reported keeps its operation open, which is why an
\* operation with no participants is out of every handler's reach.
LEMMA OutstandingKeepsOpen ==
  ASSUME TypeOK, ParticipantsExact, NEW h \in Handlers,
         status[h] # "absent", ~completed[h]
  PROVE  op[h[1]].participants > 0
<1>1. h[1] \in Ids /\ h \in Outstanding(h[1])
  BY DEF Outstanding
<1>2. Cardinality(Outstanding(h[1])) # 0
  BY <1>1, OutstandingFinite, FS_EmptySet
<1>3. op[h[1]].participants = Cardinality(Outstanding(h[1])) /\ op[h[1]].participants \in Nat
  BY <1>1 DEF ParticipantsExact, TypeOK, PendingOperation
<1> QED
  BY <1>2, <1>3

-----------------------------------------------------------------------------
(* What an instruction may write to the operations, before it returns.     *)

\* o is op after the writes of one instruction other than STAGE: counts and
\* verdicts are left alone, only an open operation is amended, and an execution
\* frame is made from an accepted instruction.
Writes(o) ==
  /\ o \in [Ids -> PendingOperation]
  /\ \A id \in Ids :
       /\ o[id].participants = op[id].participants
       /\ o[id].failed = op[id].failed
       /\ op[id].participants = 0 => /\ o[id].instruction = op[id].instruction
                                     /\ o[id].cancelled = op[id].cancelled
       /\ \/ o[id].execution = op[id].execution
          \/ Accepted(id) /\ o[id].execution = op[id].instruction
       /\ ~Staged(id) => o[id] = op[id]

\* A running handler that can see its pending cells writes to an open operation.
LEMMA AmendWrites ==
  ASSUME IInv, NEW f \in Frames, CanStep(f), PendingCell(f)
  PROVE  /\ \A w \in Operands : Writes([op EXCEPT ![f[1]].instruction.operands = w])
         /\ \A c \in {"no", "yes", "bad"} : Writes([op EXCEPT ![f[1]].cancelled = c])
<1>1. f \in Handlers /\ f[1] \in Ids /\ status[f] # "absent" /\ ~completed[f]
  BY DEF CanStep, PendingCell
<1>2. Staged(f[1]) /\ op[f[1]].participants > 0
  BY <1>1, OutstandingKeepsOpen DEF IInv, FutureIsBlank
<1>3. op \in [Ids -> PendingOperation]
  BY DEF IInv, TypeOK
<1>4. ASSUME NEW w \in Operands
      PROVE  Writes([op EXCEPT ![f[1]].instruction.operands = w])
  BY <1>1, <1>2, <1>3 DEF Writes, PendingOperation, Instructions
<1>5. ASSUME NEW c \in {"no", "yes", "bad"}
      PROVE  Writes([op EXCEPT ![f[1]].cancelled = c])
  BY <1>1, <1>2, <1>3 DEF Writes, PendingOperation
<1> QED
  BY <1>4, <1>5

\* Making, or keeping, the execution frame of an accepted operation.
LEMMA ExecutionWrites ==
  ASSUME IInv, NEW id \in Ids, Accepted(id)
  PROVE  /\ Execution(id) = op[id].instruction
         /\ Execution(id) \in Instructions
         /\ Writes([op EXCEPT ![id].execution = Execution(id)])
<1>1. op \in [Ids -> PendingOperation] /\ Staged(id)
  BY DEF IInv, TypeOK, Accepted, Settled, Staged
<1>2. Execution(id) = op[id].instruction /\ op[id].instruction \in Instructions
  BY <1>1 DEF Execution, IInv, ExecutionFresh, PendingOperation
<1> QED
  BY <1>1, <1>2 DEF Writes, PendingOperation

-----------------------------------------------------------------------------
(* The end of a frame's Run.                                               *)

\* A terminal result of f, after the writes o: typing, blankness, the exact counts
\* and the standing verdicts all hold afterwards.
LEMMA ReturnPreserves ==
  ASSUME TypeOK, FutureIsBlank, ParticipantsExact,
         NEW f \in Frames, status[f] \in {"live", "halted"},
         NEW o, Writes(o),
         NEW st \in {"halted", "faulted"},
         Return(o, f, st),
         next' = next
  PROVE  /\ op' \in [Ids -> PendingOperation]
         /\ completed' \in [Handlers -> BOOLEAN]
         /\ status' \in [Frames -> {"absent", "ready", "live", "halted", "faulted"}]
         /\ \A h \in Frames : status'[h] = "absent" <=> status[h] = "absent"
         /\ \A h \in Handlers : status[h] = "absent" => completed'[h] = completed[h]
         /\ \A id \in Ids : /\ op'[id].instruction = o[id].instruction
                             /\ op'[id].cancelled = o[id].cancelled
                             /\ op'[id].execution = o[id].execution
         /\ \A id \in Ids : op[id].participants = 0 => op'[id] = o[id]
         /\ \A id \in Ids : ~Staged(id) => op'[id] = o[id]
         /\ ParticipantsExact'
<1>0. /\ o \in [Ids -> PendingOperation]
      /\ \A id \in Ids : /\ o[id].participants = op[id].participants
                          /\ o[id].failed = op[id].failed
  BY DEF Writes
<1>1. CASE f \notin Handlers \/ completed[f]
  <2>1. op' = o
    BY <1>1 DEF Return, Reports, Complete, AlreadyCompleted
  <2>2. completed' = completed
    BY <1>1 DEF Return, Reports, MarkCompleted, TypeOK
  <2>3. status' = [status EXCEPT ![f] = st]
    BY DEF Return
  <2>4. \A h \in Frames : status'[h] = "absent" <=> status[h] = "absent"
    BY <2>3 DEF TypeOK
  <2>5. \A id \in Ids : Outstanding(id)' = Outstanding(id)
    BY <2>2, <2>4 DEF Outstanding
  <2>6. ParticipantsExact'
    BY <1>0, <2>1, <2>5 DEF ParticipantsExact
  <2> QED
    BY <1>0, <2>1, <2>2, <2>3, <2>4, <2>6 DEF TypeOK
<1>2. CASE f \in Handlers /\ ~completed[f]
  <2> DEFINE j == f[1]
  <2>1. j \in Ids /\ status[f] # "absent" /\ Staged(j)
    BY <1>2 DEF FutureIsBlank
  <2>2. op[j].participants > 0
    BY <1>2, <2>1, OutstandingKeepsOpen
  <2>3. op' = [o EXCEPT ![j].participants = IF @ > 0 THEN @ - 1 ELSE 0,
                        ![j].failed = @ \/ ~(st = "halted")]
    BY <1>2 DEF Return, Reports, Complete, AlreadyCompleted
  <2>4. completed' = [completed EXCEPT ![f] = TRUE]
    BY <1>2 DEF Return, Reports, MarkCompleted
  <2>5. status' = [status EXCEPT ![f] = st]
    BY DEF Return
  <2>6. \A h \in Frames : status'[h] = "absent" <=> status[h] = "absent"
    BY <2>5 DEF TypeOK
  <2>7. /\ op' \in [Ids -> PendingOperation]
        /\ op'[j].participants = o[j].participants - 1
        /\ op'[j].instruction = o[j].instruction
        /\ op'[j].cancelled = o[j].cancelled
        /\ op'[j].execution = o[j].execution
        /\ \A id \in Ids \ {j} : op'[id] = o[id]
    <3> DEFINE n == o[j].participants - 1
               b == o[j].failed \/ ~(st = "halted")
    <3>1. o[j] \in PendingOperation /\ n \in Nat /\ b \in BOOLEAN
      BY <1>0, <2>1, <2>2 DEF PendingOperation
    <3>2. op' = [o EXCEPT ![j] = [o[j] EXCEPT !.participants = n, !.failed = b]]
      BY <1>0, <2>1, <2>2, <2>3
    <3>3. n = o[j].participants - 1
      OBVIOUS
    <3> HIDE DEF n, b
    <3> DEFINE q == [o[j] EXCEPT !.participants = n, !.failed = b]
    <3>4. /\ q \in PendingOperation
          /\ q.participants = n
          /\ q.instruction = o[j].instruction
          /\ q.cancelled = o[j].cancelled
          /\ q.execution = o[j].execution
      BY <3>1, Zenon DEF PendingOperation
    <3>5. op' = [o EXCEPT ![j] = q]
      BY <3>2
    <3> HIDE DEF q
    <3>6. op' \in [Ids -> PendingOperation] /\ op'[j] = q /\ \A id \in Ids \ {j} : op'[id] = o[id]
      BY <1>0, <2>1, <3>4, <3>5
    <3> QED
      BY <3>3, <3>4, <3>6
  <2>8. ParticipantsExact'
    <3> SUFFICES ASSUME NEW id \in Ids
                 PROVE  op'[id].participants = Cardinality(Outstanding(id)')
      BY DEF ParticipantsExact
    <3>1. CASE id # j
      <4>1. Outstanding(id)' = Outstanding(id)
        BY <3>1, <2>4, <2>6 DEF Outstanding, TypeOK
      <4> QED
        BY <1>0, <4>1, <3>1, <2>7 DEF ParticipantsExact
    <3>2. CASE id = j
      <4>1. f \in Outstanding(j)
        BY <1>2, <2>1 DEF Outstanding
      <4>2. Outstanding(j)' = Outstanding(j) \ {f}
        BY <1>2, <2>1, <2>4, <2>6 DEF Outstanding, TypeOK
      <4>3. Cardinality(Outstanding(j)') = Cardinality(Outstanding(j)) - 1
        <5>1. IsFiniteSet(Outstanding(j))
          BY <2>1, OutstandingFinite
        <5>2. Cardinality(Outstanding(j) \ {f}) = Cardinality(Outstanding(j)) - 1
          BY <4>1, <5>1, FS_RemoveElement
        <5> QED
          BY <4>2, <5>2
      <4> QED
        BY <1>0, <4>3, <3>2, <2>1, <2>7 DEF ParticipantsExact
    <3> QED
      BY <3>1, <3>2
  <2>9. \A id \in Ids : op[id].participants = 0 \/ ~Staged(id) => op'[id] = o[id]
    BY <2>1, <2>2, <2>7
  <2>10. /\ completed' \in [Handlers -> BOOLEAN]
         /\ status' \in [Frames -> {"absent", "ready", "live", "halted", "faulted"}]
         /\ \A h \in Handlers : status[h] = "absent" => completed'[h] = completed[h]
    BY <1>2, <2>1, <2>4, <2>5 DEF TypeOK
  <2>11. \A id \in Ids : /\ op'[id].instruction = o[id].instruction
                         /\ op'[id].cancelled = o[id].cancelled
                         /\ op'[id].execution = o[id].execution
    BY <2>7
  <2> QED
    BY <2>6, <2>7, <2>8, <2>9, <2>10, <2>11
<1> QED
  BY <1>1, <1>2

\* A terminal result preserves the invariant, whatever its instruction wrote.
LEMMA ReturnIInv ==
  ASSUME IInv, NEW f \in Frames, status[f] \in {"live", "halted"},
         NEW o, Writes(o), NEW st \in {"halted", "faulted"}, Return(o, f, st),
         at' \in [Frames -> 0..MaxId],
         UNCHANGED <<next, entries, applied>>
  PROVE  IInv'
<1>1. /\ op' \in [Ids -> PendingOperation]
      /\ completed' \in [Handlers -> BOOLEAN]
      /\ status' \in [Frames -> {"absent", "ready", "live", "halted", "faulted"}]
      /\ \A h \in Frames : status'[h] = "absent" <=> status[h] = "absent"
      /\ \A h \in Handlers : status[h] = "absent" => completed'[h] = completed[h]
      /\ \A id \in Ids : /\ op'[id].instruction = o[id].instruction
                          /\ op'[id].cancelled = o[id].cancelled
                          /\ op'[id].execution = o[id].execution
      /\ \A id \in Ids : op[id].participants = 0 => op'[id] = o[id]
      /\ \A id \in Ids : ~Staged(id) => op'[id] = o[id]
      /\ ParticipantsExact'
  BY ReturnPreserves DEF IInv
<1>2. TypeOK'
  BY <1>1 DEF IInv, TypeOK
<1>3. FutureIsBlank'
  <2>1. \A id \in Ids : ~Staged(id)' => op'[id] = Unstaged /\ applied'[id] = << >>
    BY <1>1 DEF IInv, FutureIsBlank, Writes, Staged
  <2>2. \A h \in Handlers : ~Staged(h[1])' => status'[h] = "absent"
    BY <1>1 DEF IInv, FutureIsBlank, Staged
  <2>3. \A h \in Handlers : status'[h] = "absent" => ~completed'[h]
    BY <1>1 DEF IInv, FutureIsBlank
  <2> QED
    BY <2>1, <2>2, <2>3 DEF FutureIsBlank, Unstaged, NoFrame
<1>4. ASSUME NEW id \in Ids, op'[id].execution # NoFrame \/ applied[id] # << >>
      PROVE  op[id].participants = 0 /\ op'[id] = o[id]
  <2>1. op[id].execution # NoFrame \/ Accepted(id) \/ applied[id] # << >>
    BY <1>1, <1>4 DEF Writes
  <2>2. op[id].participants = 0
    BY <2>1 DEF IInv, VerdictStands, Accepted, Settled
  <2> QED
    BY <1>1, <2>2
<1>5. VerdictStands'
  <2> SUFFICES ASSUME NEW id \in Ids, op'[id].execution # NoFrame \/ applied[id] # << >>
               PROVE  /\ op'[id].participants = 0
                      /\ ~op'[id].failed
                      /\ op'[id].cancelled = "no"
                      /\ ~StoreLeavesStorage(op'[id].instruction)
    BY DEF VerdictStands, StoreLeavesStorage
  <2>1. op[id].participants = 0 /\ op'[id] = o[id]
    BY <1>4
  <2>2. /\ ~op[id].failed
        /\ op[id].cancelled = "no"
        /\ ~StoreLeavesStorage(op[id].instruction)
    BY <2>1 DEF IInv, VerdictStands, Writes, Accepted, Settled
  <2> QED
    BY <2>1, <2>2 DEF Writes
<1>6. ExecutionFresh'
  <2> SUFFICES ASSUME NEW id \in Ids, op'[id].execution # NoFrame
               PROVE  op'[id].execution = op'[id].instruction
    BY DEF ExecutionFresh
  <2> QED
    BY <1>1, <1>4 DEF IInv, ExecutionFresh, Writes
<1>7. AppliedIsErased'
  BY <1>1, <1>4 DEF IInv, AppliedIsErased, Writes
<1>8. ErasedIsClosed'
  <2> SUFFICES ASSUME NEW id \in Ids, Staged(id)', id \notin entries'
               PROVE  op'[id].participants = 0
    BY DEF ErasedIsClosed
  <2>1. op[id].participants = 0
    BY DEF IInv, ErasedIsClosed, Staged
  <2>2. op'[id] = o[id]
    BY <1>1, <2>1
  <2>3. o[id].participants = op[id].participants
    BY DEF Writes
  <2> QED
    BY <2>1, <2>2, <2>3
<1> QED
  BY <1>1, <1>2, <1>3, <1>5, <1>6, <1>7, <1>8 DEF IInv

\* So does an instruction after which the frame goes on, or is suspended, and a
\* step of the host, as long as frames neither appear nor disappear.
LEMMA WriteIInv ==
  ASSUME IInv, NEW o, Writes(o), op' = o, completed' = completed,
         status' \in [Frames -> {"absent", "ready", "live", "halted", "faulted"}],
         \A h \in Frames : status'[h] = "absent" <=> status[h] = "absent",
         at' \in [Frames -> 0..MaxId],
         entries' \subseteq entries,
         \A id \in entries \ entries' : op[id].participants = 0,
         UNCHANGED <<next, applied>>
  PROVE  IInv'
<1>1. TypeOK'
  BY DEF IInv, TypeOK, Writes
<1>2. FutureIsBlank'
  BY DEF IInv, FutureIsBlank, Writes, Staged
<1>3. \A id \in Ids : Outstanding(id)' = Outstanding(id)
  BY DEF Outstanding
<1>4. ParticipantsExact'
  BY <1>3 DEF IInv, ParticipantsExact, Writes
<1>5. VerdictStands'
  BY DEF IInv, VerdictStands, Writes, Accepted, Settled
<1>6. ExecutionFresh'
  BY DEF IInv, ExecutionFresh, VerdictStands, Writes, Accepted, Settled
<1>7. AppliedIsErased'
  BY DEF IInv, AppliedIsErased, VerdictStands, Writes
<1>8. ErasedIsClosed'
  BY DEF IInv, ErasedIsClosed, Writes, Staged
<1> QED
  BY <1>1, <1>2, <1>4, <1>5, <1>6, <1>7, <1>8 DEF IInv

-----------------------------------------------------------------------------
(* The invariant is inductive.                                             *)

\* The invariant holds at the start.
LEMMA InitIInv == Init => IInv
<1> SUFFICES ASSUME Init PROVE IInv
  OBVIOUS
<1> USE ReplacementsAssumption
<1>1. Unstaged \in PendingOperation
  BY DEF Unstaged, PendingOperation, Instructions, Opcodes
<1>2. TypeOK
  BY <1>1 DEF Init, TypeOK
<1>3. FutureIsBlank
  BY DEF Init, FutureIsBlank
<1>4. \A id \in Ids : Outstanding(id) = {}
  BY DEF Init, Outstanding
<1>5. ParticipantsExact
  BY <1>4, FS_EmptySet DEF Init, ParticipantsExact, Unstaged
<1>6. VerdictStands /\ ExecutionFresh /\ AppliedIsErased /\ ErasedIsClosed
  BY DEF Init, VerdictStands, ExecutionFresh, AppliedIsErased, ErasedIsClosed, Unstaged
<1> QED
  BY <1>2, <1>3, <1>5, <1>6 DEF IInv

\* STAGE: the new operation counts exactly the frames it queues.
LEMMA StageIInv ==
  ASSUME IInv, NEW f \in Frames, NEW i \in Instructions,
         NEW R \in SUBSET Registrations, Stage(f, i, R)
  PROVE  IInv'
<1> USE ReplacementsAssumption
<1> DEFINE n == next
<1>1. /\ n \in Ids /\ ~Staged(n) /\ next' = n + 1 /\ entries' = entries \cup {n}
      /\ op' = [op EXCEPT ![n] = NewOperation(i, R)]
      /\ status' = [h \in Frames |-> IF h \in {n} \X R THEN "ready" ELSE status[h]]
      /\ UNCHANGED <<completed, at, applied>>
  BY DEF Stage, IdLeft, IInv, TypeOK, Staged
<1>2. IsFiniteSet(R) /\ Cardinality(R) \in Nat
  BY FS_Subset, FS_CardinalityType
<1>3. NewOperation(i, R) \in PendingOperation
  BY <1>2 DEF NewOperation, PendingOperation
<1>4. TypeOK'
  BY <1>1, <1>3 DEF IInv, TypeOK
<1>5. \A id \in Ids : Staged(id)' <=> Staged(id) \/ id = n
  BY <1>1 DEF Staged, IInv, TypeOK
<1>6. FutureIsBlank'
  <2>1. \A id \in Ids : ~Staged(id)' => op'[id] = Unstaged /\ applied'[id] = << >>
    BY <1>1, <1>5 DEF IInv, FutureIsBlank, TypeOK
  <2>2. \A h \in Handlers : ~Staged(h[1])' => status'[h] = "absent"
    BY <1>1, <1>5 DEF IInv, FutureIsBlank
  <2>3. \A h \in Handlers : status'[h] = "absent" => ~completed'[h]
    BY <1>1 DEF IInv, FutureIsBlank
  <2> QED
    BY <2>1, <2>2, <2>3 DEF FutureIsBlank, Unstaged, NoFrame
<1>7. ParticipantsExact'
  <2> SUFFICES ASSUME NEW id \in Ids
               PROVE  op'[id].participants = Cardinality(Outstanding(id)')
    BY DEF ParticipantsExact
  <2>1. CASE id # n
    <3>1. Outstanding(id)' = Outstanding(id)
      BY <1>1, <2>1 DEF Outstanding
    <3> QED
      BY <1>1, <2>1, <3>1 DEF IInv, ParticipantsExact, TypeOK
  <2>2. CASE id = n
    <3>1. \A h \in {n} \X Registrations : status[h] = "absent" /\ ~completed[h]
      BY <1>1 DEF IInv, FutureIsBlank
    <3>2. Outstanding(id)' = {n} \X R
      BY <1>1, <2>2, <3>1 DEF Outstanding
    <3>3. Cardinality({n} \X R) = Cardinality(R)
      <4>1. /\ IsFiniteSet({n}) /\ Cardinality({n}) = 1
        BY FS_Singleton
      <4>2. Cardinality({n} \X R) = Cardinality({n}) * Cardinality(R)
        BY <4>1, <1>2, FS_Product
      <4> QED
        BY <4>1, <4>2, <1>2
    <3> QED
      BY <1>1, <2>2, <3>2, <3>3 DEF NewOperation, IInv, TypeOK
  <2> QED
    BY <2>1, <2>2
<1>8. VerdictStands'
  <2> SUFFICES ASSUME NEW id \in Ids, op'[id].execution # NoFrame \/ applied'[id] # << >>
               PROVE  /\ op'[id].participants = 0
                      /\ ~op'[id].failed
                      /\ op'[id].cancelled = "no"
                      /\ ~StoreLeavesStorage(op'[id].instruction)
    BY DEF VerdictStands, StoreLeavesStorage
  <2>1. id # n
    BY <1>1 DEF IInv, FutureIsBlank, NewOperation, TypeOK
  <2> QED
    BY <1>1, <2>1 DEF IInv, VerdictStands, TypeOK
<1>9. ExecutionFresh'
  BY <1>1 DEF IInv, ExecutionFresh, NewOperation, TypeOK
<1>10. AppliedIsErased'
  BY <1>1 DEF IInv, AppliedIsErased, FutureIsBlank, TypeOK
<1>11. ErasedIsClosed'
  BY <1>1, <1>5 DEF IInv, ErasedIsClosed, TypeOK
<1> QED
  BY <1>4, <1>6, <1>7, <1>8, <1>9, <1>10, <1>11 DEF IInv

\* No write at all is a write.
LEMMA NothingWrites ==
  ASSUME IInv
  PROVE  Writes(op)
BY DEF IInv, TypeOK, Writes

\* NEGATE of the pending SUMMON is an amendment, and may then fail its handler.
LEMMA NegateSummonIInv ==
  ASSUME IInv, NEW f \in Frames, NegateSummon(f)
  PROVE  IInv'
<1> DEFINE negated == [op EXCEPT ![f[1]].cancelled = "yes"]
<1>1. CanStep(f) /\ PendingCell(f) /\ UNCHANGED <<next, entries, at, applied>>
  BY DEF NegateSummon
<1>2. Writes(negated)
  BY <1>1, AmendWrites
<1>3. at' \in [Frames -> 0..MaxId] /\ status[f] = "live"
  BY <1>1 DEF IInv, TypeOK, CanStep
<1>4. CASE op' = negated /\ UNCHANGED <<completed, status>>
  <2>1. status' \in [Frames -> {"absent", "ready", "live", "halted", "faulted"}]
    BY <1>4 DEF IInv, TypeOK
  <2> QED
    BY <1>1, <1>2, <1>3, <1>4, <2>1, WriteIInv
<1>5. CASE Return(negated, f, "faulted")
  BY <1>1, <1>2, <1>3, <1>5, ReturnIInv
<1> QED
  BY <1>4, <1>5 DEF NegateSummon

\* COMMIT, in each way it can return.
LEMMA CommitIInv ==
  ASSUME IInv, NEW f \in Frames, NEW id \in Ids, Commit(f, id)
  PROVE  IInv'
<1> USE ReplacementsAssumption
<1> DEFINE Statuses == {"absent", "ready", "live", "halted", "faulted"}
<1> DEFINE executing == [op EXCEPT ![id].execution = Execution(id)]
<1>1. /\ [at EXCEPT ![f] = id] \in [Frames -> 0..MaxId]
      /\ [at EXCEPT ![f] = 0] \in [Frames -> 0..MaxId]
      /\ status \in [Frames -> Statuses]
  BY DEF IInv, TypeOK
<1>2. CASE CommitWaiting(f, id)
  BY <1>1, <1>2, NothingWrites, WriteIInv DEF CommitWaiting
<1>3. CASE CommitRejected(f, id)
  <2>1. status[f] = "live" /\ Return(op, f, "faulted")
    BY <1>3 DEF CommitRejected, AtCommit
  <2> QED
    BY <1>1, <1>3, <2>1, NothingWrites, ReturnIInv DEF CommitRejected
<1>4. CASE CommitCancelled(f, id)
  <2>1. entries' \subseteq entries /\ \A j \in entries \ entries' : op[j].participants = 0
    BY <1>4 DEF CommitCancelled, Erase, Settled
  <2> QED
    BY <1>1, <1>4, <2>1, NothingWrites, WriteIInv DEF CommitCancelled
<1>5. CASE CommitStarved(f, id)
  <2>1. Writes(executing)
    BY <1>5, ExecutionWrites DEF CommitStarved
  <2> QED
    BY <1>1, <1>5, <2>1, WriteIInv DEF CommitStarved
<1>6. CASE CommitFaulted(f, id)
  <2>1. Writes(executing)
    BY <1>6, ExecutionWrites DEF CommitFaulted
  <2>2. status[f] = "live" /\ Return(executing, f, "faulted")
    BY <1>6 DEF CommitFaulted, AtCommit
  <2> QED
    BY <1>1, <1>6, <2>1, <2>2, ReturnIInv DEF CommitFaulted
<1>7. CASE CommitApplied(f, id)
  <2>1. /\ Accepted(id) /\ op' = executing
        /\ applied' = [applied EXCEPT ![id] = Append(@, Execution(id))]
        /\ entries' = entries \ {id}
        /\ at' = [at EXCEPT ![f] = 0]
        /\ UNCHANGED <<next, completed, status>>
    BY <1>7 DEF CommitApplied, Erase
  <2>2. /\ Execution(id) = op[id].instruction
        /\ Execution(id) \in Instructions
        /\ Writes(executing)
    BY <2>1, ExecutionWrites
  <2>3. id \in entries /\ applied[id] = << >> /\ Staged(id)
    BY <2>1 DEF Accepted, Settled, IInv, AppliedIsErased, TypeOK, Staged
  <2>4. /\ applied' \in [Ids -> Seq(Instructions)]
        /\ applied'[id] = << op[id].instruction >>
        /\ \A j \in Ids \ {id} : applied'[j] = applied[j]
    BY <2>1, <2>2, <2>3 DEF IInv, TypeOK
  <2>5. \A j \in Ids : /\ op'[j].instruction = op[j].instruction
                       /\ op'[j].cancelled = op[j].cancelled
                       /\ op'[j].participants = op[j].participants
                       /\ op'[j].failed = op[j].failed
                       /\ j # id => op'[j] = op[j]
    BY <2>1 DEF IInv, TypeOK, PendingOperation
  <2>6. TypeOK'
    BY <1>1, <2>1, <2>2, <2>4 DEF IInv, TypeOK, Writes
  <2>7. FutureIsBlank'
    <3>1. \A j \in Ids : ~Staged(j)' => op'[j] = Unstaged /\ applied'[j] = << >>
      BY <2>1, <2>3, <2>4, <2>5 DEF IInv, FutureIsBlank, Staged
    <3> QED
      BY <2>1, <3>1 DEF IInv, FutureIsBlank, Staged, Unstaged, NoFrame
  <2>8. ParticipantsExact'
    <3>1. \A j \in Ids : Outstanding(j)' = Outstanding(j)
      BY <2>1 DEF Outstanding
    <3> QED
      BY <2>5, <3>1 DEF IInv, ParticipantsExact
  <2>9. VerdictStands'
    BY <2>1, <2>4, <2>5 DEF IInv, VerdictStands, Accepted, Settled, StoreLeavesStorage
  <2>10. ExecutionFresh'
    BY <2>1, <2>2, <2>5 DEF IInv, ExecutionFresh, TypeOK, PendingOperation
  <2>11. AppliedIsErased'
    BY <2>1, <2>4, <2>5 DEF IInv, AppliedIsErased
  <2>12. ErasedIsClosed'
    BY <2>1, <2>5 DEF IInv, ErasedIsClosed, Accepted, Settled, Staged
  <2> QED
    BY <2>6, <2>7, <2>8, <2>9, <2>10, <2>11, <2>12 DEF IInv
<1> QED
  BY <1>2, <1>3, <1>4, <1>5, <1>6, <1>7 DEF Commit

\* Every step of every frame and of the host preserves the invariant.
LEMMA NextIInv == IInv /\ [Next]_vars => IInv'
<1> SUFFICES ASSUME IInv, [Next]_vars PROVE IInv'
  OBVIOUS
<1> USE ReplacementsAssumption
<1>0. status \in [Frames -> {"absent", "ready", "live", "halted", "faulted"}]
      /\ at \in [Frames -> 0..MaxId]
  BY DEF IInv, TypeOK
<1>1. CASE UNCHANGED vars
  BY <1>0, <1>1, NothingWrites, WriteIInv DEF vars
<1>2. ASSUME NEW f \in Frames, Execute(f)
      PROVE  IInv'
  <2>1. ASSUME NEW i \in Instructions, NEW R \in SUBSET Registrations, Stage(f, i, R)
        PROVE  IInv'
    BY <2>1, StageIInv
  <2>2. ASSUME NEW w \in Operands, AmendOperands(f, w)
        PROVE  IInv'
    BY <1>0, <2>2, AmendWrites, WriteIInv DEF AmendOperands
  <2>3. ASSUME NEW c \in {"no", "yes", "bad"}, AmendCancelled(f, c)
        PROVE  IInv'
    BY <1>0, <2>3, AmendWrites, WriteIInv DEF AmendCancelled
  <2>4. CASE NegateSummon(f)
    BY <2>4, NegateSummonIInv
  <2>5. ASSUME NEW id \in Ids, Commit(f, id)
        PROVE  IInv'
    BY <2>5, CommitIInv
  <2>6. CASE Halt(f)
    BY <1>0, <2>6, NothingWrites, ReturnIInv DEF Halt, CanStep
  <2>7. CASE Fault(f)
    BY <1>0, <2>7, NothingWrites, ReturnIInv DEF Fault, CanStep
  <2> QED
    BY <1>2, <2>1, <2>2, <2>3, <2>4, <2>5, <2>6, <2>7 DEF Execute
<1>3. ASSUME NEW f \in Frames, Retry(f)
      PROVE  IInv'
  BY <1>0, <1>3, NothingWrites, WriteIInv DEF Retry
<1>4. CASE TakeReady
  BY <1>0, <1>4, NothingWrites, WriteIInv DEF TakeReady
<1> QED
  BY <1>1, <1>2, <1>3, <1>4 DEF Next

\* The strengthened invariant: every state of every instance satisfies it.
THEOREM Invariance == Spec => []IInv
BY InitIInv, NextIInv, PTL DEF Spec

\* Type correctness: in particular a participant count never goes below zero and
\* no id beyond kImmediateMax is handed out.
THEOREM TypeCorrect == Spec => []TypeOK
BY Invariance, PTL DEF IInv

\* The participant count that COMMIT trusts is the number of handler frames that
\* have not reported.
THEOREM CountsAreExact == Spec => []ParticipantsExact
BY Invariance, PTL DEF IInv

\* The cached execution frame holds the instruction as amended.
THEOREM ExecutionIsFresh == Spec => []ExecutionFresh
BY Invariance, PTL DEF IInv

\* At most one application, of the amended instruction, after every handler
\* ended and none failed.
THEOREM AppliedOnce == Spec => []AppliedOnceAsAmended
<1>1. IInv => AppliedOnceAsAmended
  <2> SUFFICES ASSUME IInv, NEW id \in Ids, applied[id] # << >>
               PROVE  /\ applied[id] = << op[id].instruction >>
                      /\ op[id].cancelled = "no"
                      /\ ~StoreLeavesStorage(op[id].instruction)
                      /\ \A h \in {id} \X Registrations :
                           status[h] # "absent" => completed[h]
                      /\ ~op[id].failed
    BY DEF AppliedOnceAsAmended
  <2>1. op[id].participants = 0
    BY DEF IInv, VerdictStands
  <2>2. \A h \in {id} \X Registrations : status[h] # "absent" => completed[h]
    BY <2>1, OutstandingKeepsOpen DEF IInv
  <2> QED
    BY <2>2 DEF IInv, VerdictStands, AppliedIsErased
<1> QED
  BY <1>1, Invariance, PTL

-----------------------------------------------------------------------------
(* Refinement: every step is a step of StagedOperation or changes nothing  *)
(* it can see.                                                             *)

\* A step that touches what StagedOperation sees of one operation only.
LEMMA OneMoves ==
  ASSUME NEW id \in Ids, NEW to, Phase(id)' = to, Plan(id)' \in Plans,
         \A k \in Ids \ {id} : Phase(k)' = Phase(k) /\ Plan(k)' = Plan(k)
  PROVE  /\ Staging!Move(id, to)
         /\ Staging!Replan(id)
         /\ Plan(id)' = Plan(id) => Staging!Keep
<1>1. Staging!Move(id, to)
  BY DEF Staging!Move
<1>2. Staging!Replan(id)
  BY DEF Staging!Replan
<1>3. Plan(id)' = Plan(id) => Staging!Keep
  BY DEF Staging!Keep
<1> QED
  BY <1>1, <1>2, <1>3

\* A step that changes nothing StagedOperation sees.
LEMMA NoneMoves ==
  ASSUME \A k \in Ids : Phase(k)' = Phase(k) /\ Plan(k)' = Plan(k)
  PROVE  UNCHANGED Staging!vars
BY DEF Staging!vars

\* What a reader of phases and plans sees of an operation is decided by these.
LEMMA SeenDependsOn ==
  ASSUME NEW k \in Ids, Staged(k)' <=> Staged(k),
         k \in entries' <=> k \in entries,
         applied'[k] = applied[k],
         op'[k].participants = op[k].participants,
         op'[k].failed = op[k].failed,
         op'[k].instruction = op[k].instruction,
         op'[k].cancelled = op[k].cancelled
  PROVE  Phase(k)' = Phase(k) /\ Plan(k)' = Plan(k)
BY DEF Phase, Plan

\* An open operation, as StagedOperation sees it.
LEMMA OpenPhase ==
  ASSUME IInv, NEW k \in Ids, op[k].participants > 0, Staged(k)
  PROVE  k \in entries /\ Phase(k) = IF op[k].failed THEN "doomed" ELSE "open"
<1>1. k \in entries
  BY DEF IInv, ErasedIsClosed, TypeOK, PendingOperation
<1> QED
  BY <1>1 DEF Phase, IInv, TypeOK, PendingOperation

\* A settled operation is sealed.
LEMMA SettledPhase ==
  ASSUME IInv, NEW k \in Ids, Settled(k)
  PROVE  Staged(k) /\ Phase(k) = "sealed"
BY DEF Phase, Settled, IInv, TypeOK, Staged, PendingOperation

\* Halting, failing, and failing right after an amendment: Seal, Doom or Amend
\* of the frame's own operation, or nothing.
LEMMA ReturnRefines ==
  ASSUME IInv, NEW f \in Frames, status[f] \in {"live", "halted"},
         NEW o, Writes(o), NEW st \in {"halted", "faulted"}, Return(o, f, st),
         at' \in [Frames -> 0..MaxId],
         UNCHANGED <<next, entries, applied>>,
         \A id \in Ids : f \notin Handlers \/ completed[f] \/ id # f[1] \/ st = "halted" =>
           o[id].instruction = op[id].instruction /\ o[id].cancelled = op[id].cancelled
  PROVE  [Staging!Next]_(Staging!vars)
<1>0. /\ o \in [Ids -> PendingOperation]
      /\ \A id \in Ids : /\ o[id].participants = op[id].participants
                          /\ o[id].failed = op[id].failed
  BY DEF Writes
<1>00. IInv'
  BY ReturnIInv
<1>1. CASE f \notin Handlers \/ completed[f]
  <2>1. op' = o
    BY <1>1 DEF Return, Reports, Complete, AlreadyCompleted
  <2>2. \A k \in Ids : Phase(k)' = Phase(k) /\ Plan(k)' = Plan(k)
    BY <1>0, <1>1, <2>1, SeenDependsOn DEF Staged
  <2> QED
    BY <2>2, NoneMoves
<1>2. CASE f \in Handlers /\ ~completed[f]
  <2> DEFINE j == f[1]
  <2>1. j \in Ids /\ status[f] # "absent" /\ Staged(j)
    BY <1>2 DEF IInv, FutureIsBlank
  <2>2. op[j].participants > 0
    BY <1>2, <2>1, OutstandingKeepsOpen DEF IInv
  <2>3. op' = [o EXCEPT ![j].participants = IF @ > 0 THEN @ - 1 ELSE 0,
                        ![j].failed = @ \/ ~(st = "halted")]
    BY <1>2 DEF Return, Reports, Complete, AlreadyCompleted
  <2>4. /\ op'[j].participants = op[j].participants - 1
        /\ op'[j].failed = (op[j].failed \/ ~(st = "halted"))
        /\ op'[j].instruction = o[j].instruction
        /\ op'[j].cancelled = o[j].cancelled
        /\ \A id \in Ids \ {j} : op'[id] = o[id]
    BY <1>0, <2>1, <2>2, <2>3 DEF PendingOperation
  <2>5. \A k \in Ids \ {j} : Phase(k)' = Phase(k) /\ Plan(k)' = Plan(k)
    BY <1>0, <2>4, SeenDependsOn DEF Staged
  <2>6. j \in entries /\ Phase(j) = IF op[j].failed THEN "doomed" ELSE "open"
    BY <2>1, <2>2, OpenPhase
  <2>7. Plan(j)' \in Plans
    BY <1>00, <2>1 DEF IInv, TypeOK, Plan, Plans, PendingOperation
  <2>8. Phase(j)' \in IF op[j].failed \/ st # "halted" THEN {"doomed", "rejected"}
                                                       ELSE {"open", "sealed"}
    <3>1. op'[j].participants \in Nat /\ Staged(j)' /\ j \in entries'
      BY <1>00, <2>1, <2>6 DEF IInv, TypeOK, PendingOperation, Staged
    <3>2. CASE op'[j].participants > 0
      BY <2>4, <3>1, <3>2 DEF Phase
    <3>3. CASE op'[j].participants = 0
      BY <2>4, <3>1, <3>3 DEF Phase
    <3> QED
      BY <3>1, <3>2, <3>3
  <2>9. Staging!Move(j, Phase(j)') /\ Staging!Replan(j)
    BY <2>1, <2>5, <2>7, OneMoves
  <2>10. CASE op[j].failed \/ st # "halted"
    BY <2>1, <2>6, <2>8, <2>9, <2>10 DEF Staging!Next, Staging!Doom
  <2>11. CASE ~op[j].failed /\ st = "halted"
    <3>1. Plan(j)' = Plan(j)
      BY <2>1, <2>4, <2>11 DEF Plan
    <3>2. Staging!Keep
      BY <2>1, <2>5, <2>7, <3>1, OneMoves
    <3>3. Staging!Move(j, "open") => Staging!Amend(j)
      BY <2>1, <2>6, <2>9, <2>11 DEF Staging!Amend
    <3> QED
      BY <2>1, <2>6, <2>8, <2>9, <2>11, <3>2, <3>3 DEF Staging!Next, Staging!Seal
  <2> QED
    BY <2>10, <2>11
<1> QED
  BY <1>1, <1>2

\* STAGE is Stage.
LEMMA StageRefines ==
  ASSUME IInv, NEW f \in Frames, NEW i \in Instructions,
         NEW R \in SUBSET Registrations, Stage(f, i, R)
  PROVE  [Staging!Next]_(Staging!vars)
<1>0. PICK n \in Ids : n = next
  BY DEF Stage, IdLeft, IInv, TypeOK
<1>1. /\ ~Staged(n) /\ next' = n + 1 /\ entries' = entries \cup {n}
      /\ op' = [op EXCEPT ![n] = NewOperation(i, R)]
      /\ applied' = applied
  BY <1>0 DEF Stage, IInv, TypeOK, Staged
<1>2. IInv'
  BY StageIInv
<1>3. \A k \in Ids \ {n} : Phase(k)' = Phase(k) /\ Plan(k)' = Plan(k)
  <2> SUFFICES ASSUME NEW k \in Ids \ {n}
               PROVE  Phase(k)' = Phase(k) /\ Plan(k)' = Plan(k)
    OBVIOUS
  <2>1. (Staged(k)' <=> Staged(k)) /\ (k \in entries' <=> k \in entries) /\ op'[k] = op[k]
    BY <1>0, <1>1 DEF Staged, IInv, TypeOK
  <2> QED
    BY <1>1, <2>1, SeenDependsOn
<1>4. Phase(n) = "absent"
  BY <1>1 DEF Phase
<1>5. op'[n] = NewOperation(i, R) /\ op'[n] \in PendingOperation /\ Staged(n)' /\ n \in entries'
  BY <1>1, <1>2 DEF IInv, TypeOK, Staged
<1>6. Phase(n)' \in {"open", "sealed"}
  <2>1. CASE op'[n].participants > 0
    BY <1>5, <2>1 DEF Phase, NewOperation
  <2>2. CASE op'[n].participants = 0
    BY <1>5, <2>2 DEF Phase, NewOperation
  <2> QED
    BY <1>5, <2>1, <2>2 DEF PendingOperation
<1>7. Plan(n)' \in Plans
  BY <1>5 DEF Plan, Plans, PendingOperation
<1>8. Staging!Move(n, Phase(n)') /\ Staging!Replan(n)
  BY <1>1, <1>3, <1>7, OneMoves
<1> QED
  BY <1>1, <1>4, <1>6, <1>8 DEF Staging!Next, Staging!Stage

\* A write to the pending cells is Amend.
LEMMA AmendRefines ==
  ASSUME IInv, NEW f \in Frames, CanStep(f), PendingCell(f),
         NEW o, Writes(o), op' = o, IInv',
         UNCHANGED <<next, entries, applied>>,
         \A id \in Ids \ {f[1]} : o[id].instruction = op[id].instruction
                                /\ o[id].cancelled = op[id].cancelled
  PROVE  [Staging!Next]_(Staging!vars)
<1> DEFINE j == f[1]
<1>1. f \in Handlers /\ j \in Ids /\ Staged(j) /\ op[j].participants > 0
  BY OutstandingKeepsOpen DEF CanStep, PendingCell, IInv, FutureIsBlank
<1>2. Phase(j) = IF op[j].failed THEN "doomed" ELSE "open"
  BY <1>1, OpenPhase
<1>3. \A k \in Ids \ {j} : Phase(k)' = Phase(k) /\ Plan(k)' = Plan(k)
  BY SeenDependsOn DEF Writes, Staged
<1>4. Phase(j)' = Phase(j)
  BY <1>1 DEF Phase, Staged, Writes
<1>5. Plan(j)' \in Plans
  BY <1>1 DEF IInv, TypeOK, Plan, Plans, PendingOperation
<1>6. Staging!Move(j, Phase(j)) /\ Staging!Replan(j)
  BY <1>1, <1>3, <1>4, <1>5, OneMoves
<1> QED
  BY <1>1, <1>2, <1>6 DEF Staging!Next, Staging!Amend

\* COMMIT is Apply, Cancel, a report of the committing frame, or nothing.
LEMMA CommitRefines ==
  ASSUME IInv, NEW f \in Frames, NEW id \in Ids, Commit(f, id)
  PROVE  [Staging!Next]_(Staging!vars)
<1> USE ReplacementsAssumption
<1> DEFINE executing == [op EXCEPT ![id].execution = Execution(id)]
<1>1. /\ [at EXCEPT ![f] = id] \in [Frames -> 0..MaxId]
      /\ [at EXCEPT ![f] = 0] \in [Frames -> 0..MaxId]
      /\ op \in [Ids -> PendingOperation]
  BY DEF IInv, TypeOK
<1>2. CASE CommitWaiting(f, id)
  BY <1>2, NoneMoves, SeenDependsOn DEF CommitWaiting, Staged
<1>3. CASE CommitRejected(f, id)
  <2>1. status[f] = "live" /\ Return(op, f, "faulted")
    BY <1>3 DEF CommitRejected, AtCommit
  <2> QED
    BY <1>1, <1>3, <2>1, NothingWrites, ReturnRefines DEF CommitRejected
<1>4. ASSUME UNCHANGED <<next, op>>
      PROVE  \A k \in Ids \ {id} : (k \in entries' <=> k \in entries) /\ applied'[k] = applied[k]
               => Phase(k)' = Phase(k) /\ Plan(k)' = Plan(k)
  BY <1>4, SeenDependsOn DEF Staged
<1>5. CASE CommitCancelled(f, id)
  <2>1. /\ Settled(id) /\ op[id].cancelled = "yes" /\ entries' = entries \ {id}
        /\ UNCHANGED <<next, op, applied>>
    BY <1>5 DEF CommitCancelled, Erase
  <2>2. \A k \in Ids \ {id} : Phase(k)' = Phase(k) /\ Plan(k)' = Plan(k)
    BY <1>4, <2>1
  <2>3. Staged(id) /\ Phase(id) = "sealed" /\ applied[id] = << >>
    BY <2>1, SettledPhase DEF IInv, AppliedIsErased, Settled
  <2>4. Phase(id)' = "cancelled" /\ Plan(id)' = Plan(id)
    BY <2>1, <2>3 DEF Phase, Plan, Staged
  <2>5. Plan(id) \in Plans
    BY <1>1 DEF Plan, Plans, PendingOperation
  <2>6. Staging!Move(id, "cancelled") /\ Staging!Keep
    BY <2>2, <2>4, <2>5, OneMoves
  <2> QED
    BY <2>1, <2>3, <2>5, <2>6 DEF Staging!Next, Staging!Cancel, Plan
<1>6. CASE CommitStarved(f, id)
  <2>1. Writes(executing) /\ op' = executing /\ UNCHANGED <<next, entries, applied>>
    BY <1>6, ExecutionWrites DEF CommitStarved
  <2>2. \A k \in Ids : Phase(k)' = Phase(k) /\ Plan(k)' = Plan(k)
    <3> SUFFICES ASSUME NEW k \in Ids
                 PROVE  Phase(k)' = Phase(k) /\ Plan(k)' = Plan(k)
      OBVIOUS
    <3>1. /\ op'[k].participants = op[k].participants
          /\ op'[k].failed = op[k].failed
          /\ op'[k].instruction = op[k].instruction
          /\ op'[k].cancelled = op[k].cancelled
      BY <1>1, <2>1 DEF PendingOperation
    <3>2. Staged(k)' <=> Staged(k)
      BY <2>1 DEF Staged
    <3> QED
      BY <2>1, <3>1, <3>2, SeenDependsOn
  <2> QED
    BY <2>2, NoneMoves
<1>7. CASE CommitFaulted(f, id)
  <2>1. /\ Writes(executing) /\ status[f] = "live" /\ Return(executing, f, "faulted")
        /\ UNCHANGED <<next, entries, applied>> /\ at' = [at EXCEPT ![f] = 0]
    BY <1>7, ExecutionWrites DEF CommitFaulted, AtCommit
  <2>2. \A k \in Ids : /\ executing[k].instruction = op[k].instruction
                       /\ executing[k].cancelled = op[k].cancelled
    BY <1>1 DEF PendingOperation
  <2> QED
    BY <1>1, <2>1, <2>2, ReturnRefines
<1>8. CASE CommitApplied(f, id)
  <2>1. /\ Accepted(id) /\ op' = executing /\ entries' = entries \ {id} /\ next' = next
        /\ applied' = [applied EXCEPT ![id] = Append(@, Execution(id))]
        /\ Execution(id).operands \in WellFormed
    BY <1>8 DEF CommitApplied, Erase
  <2>2. Execution(id) = op[id].instruction /\ Execution(id) \in Instructions
    BY <2>1, ExecutionWrites
  <2>3. Settled(id) /\ Staged(id) /\ Phase(id) = "sealed" /\ applied[id] = << >>
    BY <2>1, SettledPhase DEF IInv, AppliedIsErased, Accepted, Settled
  <2>4. applied'[id] # << >> /\ \A k \in Ids \ {id} : applied'[k] = applied[k]
    BY <2>1, <2>2, <2>3 DEF IInv, TypeOK
  <2>5. \A k \in Ids : /\ op'[k].participants = op[k].participants
                       /\ op'[k].failed = op[k].failed
                       /\ op'[k].instruction = op[k].instruction
                       /\ op'[k].cancelled = op[k].cancelled
    BY <1>1, <2>1 DEF PendingOperation
  <2>6. \A k \in Ids \ {id} : Phase(k)' = Phase(k) /\ Plan(k)' = Plan(k)
    BY <2>1, <2>4, <2>5, SeenDependsOn DEF Staged
  <2>7. Phase(id)' = "applied" /\ Plan(id)' = Plan(id)
    BY <2>1, <2>3, <2>4, <2>5 DEF Phase, Plan, Staged
  <2>8. Plan(id) \in Plans
    BY <1>1 DEF Plan, Plans, PendingOperation
  <2>9. Staging!Move(id, "applied") /\ Staging!Keep
    BY <2>6, <2>7, <2>8, OneMoves
  <2> QED
    BY <2>1, <2>2, <2>3, <2>8, <2>9 DEF Staging!Next, Staging!Apply, Plan, Accepted
<1> QED
  BY <1>2, <1>3, <1>5, <1>6, <1>7, <1>8 DEF Commit

\* NEGATE of the pending SUMMON is Amend, or Amend and Doom in one step.
LEMMA NegateSummonRefines ==
  ASSUME IInv, NEW f \in Frames, NegateSummon(f)
  PROVE  [Staging!Next]_(Staging!vars)
<1> DEFINE negated == [op EXCEPT ![f[1]].cancelled = "yes"]
<1>1. /\ CanStep(f) /\ PendingCell(f) /\ UNCHANGED <<next, entries, at, applied>>
      /\ f \in Handlers /\ f[1] \in Ids /\ status[f] = "live" /\ ~completed[f]
  BY DEF NegateSummon, CanStep, PendingCell
<1>2. Writes(negated) /\ IInv' /\ at' \in [Frames -> 0..MaxId]
  BY <1>1, AmendWrites, NegateSummonIInv DEF IInv, TypeOK
<1>3. \A id \in Ids \ {f[1]} : /\ negated[id].instruction = op[id].instruction
                              /\ negated[id].cancelled = op[id].cancelled
  BY <1>1 DEF IInv, TypeOK, PendingOperation
<1>4. CASE op' = negated
  BY <1>1, <1>2, <1>3, <1>4, AmendRefines
<1>5. CASE Return(negated, f, "faulted")
  BY <1>1, <1>2, <1>3, <1>5, ReturnRefines
<1> QED
  BY <1>4, <1>5 DEF NegateSummon

\* Every step is a step of StagedOperation, or changes nothing it sees.
LEMMA NextRefines == IInv /\ [Next]_vars => [Staging!Next]_(Staging!vars)
<1> SUFFICES ASSUME IInv, [Next]_vars PROVE [Staging!Next]_(Staging!vars)
  OBVIOUS
<1> USE ReplacementsAssumption
<1>0. op \in [Ids -> PendingOperation] /\ at \in [Frames -> 0..MaxId] /\ IInv'
  BY NextIInv DEF IInv, TypeOK
<1>1. UNCHANGED <<next, entries, op, applied>> => [Staging!Next]_(Staging!vars)
  BY NoneMoves, SeenDependsOn DEF Staged
<1>2. ASSUME NEW f \in Frames, Execute(f)
      PROVE  [Staging!Next]_(Staging!vars)
  <2>1. ASSUME NEW i \in Instructions, NEW R \in SUBSET Registrations, Stage(f, i, R)
        PROVE  [Staging!Next]_(Staging!vars)
    BY <2>1, StageRefines
  <2>2. ASSUME NEW w \in Operands, AmendOperands(f, w)
        PROVE  [Staging!Next]_(Staging!vars)
    <3> DEFINE amended == [op EXCEPT ![f[1]].instruction.operands = w]
    <3>1. CanStep(f) /\ PendingCell(f) /\ f \in Handlers /\ op' = amended /\ Writes(amended)
      BY <2>2, AmendWrites DEF AmendOperands, PendingCell
    <3>2. \A id \in Ids \ {f[1]} : amended[id] = op[id]
      BY <1>0, <3>1
    <3> QED
      BY <1>0, <2>2, <3>1, <3>2, AmendRefines DEF AmendOperands
  <2>3. ASSUME NEW c \in {"no", "yes", "bad"}, AmendCancelled(f, c)
        PROVE  [Staging!Next]_(Staging!vars)
    <3> DEFINE amended == [op EXCEPT ![f[1]].cancelled = c]
    <3>1. CanStep(f) /\ PendingCell(f) /\ f \in Handlers /\ op' = amended /\ Writes(amended)
      BY <2>3, AmendWrites DEF AmendCancelled, PendingCell
    <3>2. \A id \in Ids \ {f[1]} : amended[id] = op[id]
      BY <1>0, <3>1
    <3> QED
      BY <1>0, <2>3, <3>1, <3>2, AmendRefines DEF AmendCancelled
  <2>4. CASE NegateSummon(f)
    BY <2>4, NegateSummonRefines
  <2>5. ASSUME NEW id \in Ids, Commit(f, id)
        PROVE  [Staging!Next]_(Staging!vars)
    BY <2>5, CommitRefines
  <2>6. CASE Halt(f)
    BY <1>0, <2>6, NothingWrites, ReturnRefines DEF Halt, CanStep
  <2>7. CASE Fault(f)
    BY <1>0, <2>7, NothingWrites, ReturnRefines DEF Fault, CanStep
  <2> QED
    BY <1>2, <2>1, <2>2, <2>3, <2>4, <2>5, <2>6, <2>7 DEF Execute
<1>3. CASE UNCHANGED vars
  BY <1>1, <1>3 DEF vars
<1>4. ASSUME NEW f \in Frames, Retry(f)
      PROVE  [Staging!Next]_(Staging!vars)
  BY <1>1, <1>4 DEF Retry
<1>5. CASE TakeReady
  BY <1>1, <1>5 DEF TakeReady
<1> QED
  BY <1>2, <1>3, <1>4, <1>5 DEF Next

\* Initially every operation is absent.
LEMMA InitRefines == Init => Staging!Init
<1> SUFFICES ASSUME Init PROVE Staging!Init
  OBVIOUS
<1> USE ReplacementsAssumption
<1>1. \A k \in Ids : Phase(k) = "absent"
  BY DEF Init, Phase, Staged
<1>2. \A k \in Ids : Plan(k) \in Plans
  BY InitIInv DEF IInv, TypeOK, Plan, Plans, PendingOperation
<1> QED
  BY <1>1, <1>2 DEF Staging!Init

\* The whole mechanism implements StagedOperation: plans are amended only while
\* handlers run, frozen when the last one reports, and then applied or cancelled
\* once, or never when a handler failed.
THEOREM Implementation == Spec => ImplementsStaging
BY InitRefines, NextRefines, Invariance, PTL DEF Spec, ImplementsStaging, Staging!Spec

\* No step changes the plan or the verdict of an operation whose handlers have
\* all reported.
THEOREM SealedOperationsAreFrozen == Spec => SealedIsFrozen
<1> USE ReplacementsAssumption
<1> DEFINE Frozen == \A id \in Ids : Staged(id) /\ op[id].participants = 0 =>
       /\ op'[id].instruction = op[id].instruction
       /\ op'[id].cancelled = op[id].cancelled
       /\ op'[id].failed = op[id].failed
<1>1. IInv /\ [Next]_vars => Frozen
  <2> SUFFICES ASSUME IInv, [Next]_vars PROVE Frozen
    OBVIOUS
  <2>0. op \in [Ids -> PendingOperation]
    BY DEF IInv, TypeOK
  <2>1. ASSUME NEW o, Writes(o), op' = o
        PROVE  Frozen
    BY <2>1 DEF Writes
  <2>2. ASSUME NEW o, Writes(o), NEW f \in Frames, status[f] \in {"live", "halted"},
               NEW st \in {"halted", "faulted"}, Return(o, f, st), next' = next
        PROVE  Frozen
    BY <2>2, ReturnPreserves DEF IInv, Writes
  <2>3. op' = op => Frozen
    OBVIOUS
  <2>4. ASSUME NEW f \in Frames, Execute(f)
        PROVE  Frozen
    <3>1. ASSUME NEW i \in Instructions, NEW R \in SUBSET Registrations, Stage(f, i, R)
          PROVE  Frozen
      BY <2>0, <3>1 DEF Stage, Staged
    <3>2. ASSUME NEW w \in Operands, AmendOperands(f, w)
          PROVE  Frozen
      BY <2>1, <3>2, AmendWrites DEF AmendOperands
    <3>3. ASSUME NEW c \in {"no", "yes", "bad"}, AmendCancelled(f, c)
          PROVE  Frozen
      BY <2>1, <3>3, AmendWrites DEF AmendCancelled
    <3>4. CASE NegateSummon(f)
      BY <2>1, <2>2, <3>4, AmendWrites DEF NegateSummon, CanStep
    <3>5. ASSUME NEW id \in Ids, Commit(f, id)
          PROVE  Frozen
      BY <2>1, <2>2, <2>3, <3>5, NothingWrites, ExecutionWrites
         DEF Commit, CommitWaiting, CommitRejected, CommitCancelled, CommitStarved,
             CommitFaulted, CommitApplied, AtCommit
    <3>6. CASE Halt(f) \/ Fault(f)
      BY <2>2, <3>6, NothingWrites DEF Halt, Fault, CanStep
    <3> QED
      BY <2>4, <3>1, <3>2, <3>3, <3>4, <3>5, <3>6 DEF Execute
  <2> QED
    BY <2>3, <2>4 DEF Next, Retry, TakeReady, vars
<1> QED
  BY <1>1, Invariance, PTL DEF Spec, SealedIsFrozen
-----------------------------------------------------------------------------
(* Nobody waits for nobody.                                                *)

\* A handler that ended has reported, and under Nested one that is held at a COMMIT
\* is held at an operation staged after its own.
HeldByLater ==
  \A h \in Handlers :
    /\ status[h] \in {"halted", "faulted"} => completed[h]
    /\ Nested /\ at[h] # 0 => at[h] > h[1]

\* What returns has reported.
LEMMA ReturnHeld ==
  ASSUME TypeOK, HeldByLater, NEW o, NEW f \in Frames, NEW st, Return(o, f, st),
         NEW a, at' = [at EXCEPT ![f] = a], Nested /\ a # 0 /\ f \in Handlers => a > f[1]
  PROVE  HeldByLater'
<1>1. /\ status' = [status EXCEPT ![f] = st]
      /\ completed' = IF f \in Handlers THEN [completed EXCEPT ![f] = TRUE] ELSE completed
  BY DEF Return, Reports, MarkCompleted
<1> SUFFICES ASSUME NEW h \in Handlers
             PROVE  /\ status'[h] \in {"halted", "faulted"} => completed'[h]
                    /\ Nested /\ at'[h] # 0 => at'[h] > h[1]
  BY DEF HeldByLater
<1>2. CASE h = f
  BY <1>1, <1>2 DEF TypeOK, HeldByLater
<1>3. CASE h # f
  BY <1>1, <1>3 DEF TypeOK, HeldByLater
<1> QED
  BY <1>2, <1>3

\* A step that ends no frame, and holds at most one.
LEMMA GoingHeld ==
  ASSUME TypeOK, HeldByLater, completed' = completed, NEW f \in Frames,
         \A h \in Frames : status'[h] \in {"halted", "faulted"} => status'[h] = status[h],
         NEW a, at' = [at EXCEPT ![f] = a], Nested /\ a # 0 /\ f \in Handlers => a > f[1]
  PROVE  HeldByLater'
<1> SUFFICES ASSUME NEW h \in Handlers
             PROVE  /\ status'[h] \in {"halted", "faulted"} => completed'[h]
                    /\ Nested /\ at'[h] # 0 => at'[h] > h[1]
  BY DEF HeldByLater
<1>1. CASE h = f
  BY <1>1 DEF TypeOK, HeldByLater
<1>2. CASE h # f
  BY <1>2 DEF TypeOK, HeldByLater
<1> QED
  BY <1>1, <1>2

\* Every step keeps it.
LEMMA NextHeld == TypeOK /\ HeldByLater /\ [Next]_vars => HeldByLater'
<1> SUFFICES ASSUME TypeOK, HeldByLater, [Next]_vars PROVE HeldByLater'
  OBVIOUS
<1>0. at \in [Frames -> 0..MaxId] /\ status \in [Frames -> {"absent", "ready", "live", "halted", "faulted"}]
  BY DEF TypeOK
<1>1. CASE UNCHANGED vars
  BY <1>1 DEF vars, HeldByLater
<1>2. ASSUME NEW f \in Frames, Execute(f)
      PROVE  HeldByLater'
  <2>0. at = [at EXCEPT ![f] = at[f]] /\ (Nested /\ at[f] # 0 /\ f \in Handlers => at[f] > f[1])
    BY <1>0 DEF HeldByLater
  <2>1. ASSUME NEW i \in Instructions, NEW R \in SUBSET Registrations, Stage(f, i, R)
        PROVE  HeldByLater'
    <3>1. \A h \in Frames : status'[h] \in {"halted", "faulted"} => status'[h] = status[h]
      BY <2>1 DEF Stage
    <3> QED
      BY <2>0, <2>1, <3>1, GoingHeld DEF Stage
  <2>2. ASSUME NEW w \in Operands, AmendOperands(f, w)
        PROVE  HeldByLater'
    BY <2>0, <2>2, GoingHeld DEF AmendOperands
  <2>3. ASSUME NEW c \in {"no", "yes", "bad"}, AmendCancelled(f, c)
        PROVE  HeldByLater'
    BY <2>0, <2>3, GoingHeld DEF AmendCancelled
  <2>4. CASE NegateSummon(f)
    <3> DEFINE negated == [op EXCEPT ![f[1]].cancelled = "yes"]
    <3>1. CASE UNCHANGED <<completed, status, at>>
      BY <3>1 DEF HeldByLater
    <3>2. CASE Return(negated, f, "faulted") /\ at' = at
      BY <2>0, <3>2, ReturnHeld
    <3> QED
      BY <2>4, <3>1, <3>2 DEF NegateSummon
  <2>5. ASSUME NEW id \in Ids, Commit(f, id)
        PROVE  HeldByLater'
    <3>1. AtCommit(f, id) => (Nested /\ id # 0 /\ f \in Handlers => id > f[1])
      BY DEF AtCommit
    <3>2. CASE CommitWaiting(f, id)
      BY <3>1, <3>2, GoingHeld DEF CommitWaiting
    <3>3. CASE CommitRejected(f, id)
      BY <3>3, ReturnHeld DEF CommitRejected
    <3>4. CASE CommitCancelled(f, id)
      BY <3>4, GoingHeld DEF CommitCancelled
    <3>5. CASE CommitStarved(f, id)
      BY <3>1, <3>5, GoingHeld DEF CommitStarved
    <3>6. CASE CommitFaulted(f, id)
      BY <3>6, ReturnHeld DEF CommitFaulted
    <3>7. CASE CommitApplied(f, id)
      BY <3>7, GoingHeld DEF CommitApplied
    <3> QED
      BY <2>5, <3>2, <3>3, <3>4, <3>5, <3>6, <3>7 DEF Commit
  <2>6. CASE Halt(f)
    BY <2>0, <2>6, ReturnHeld DEF Halt
  <2>7. CASE Fault(f)
    BY <2>0, <2>7, ReturnHeld DEF Fault
  <2> QED
    BY <1>2, <2>1, <2>2, <2>3, <2>4, <2>5, <2>6, <2>7 DEF Execute
<1>3. ASSUME NEW f \in Frames, Retry(f)
      PROVE  HeldByLater'
  BY <1>0, <1>3 DEF Retry, HeldByLater
<1>4. CASE TakeReady
  BY <1>0, <1>4 DEF TakeReady, HeldByLater
<1> QED
  BY <1>1, <1>2, <1>3, <1>4 DEF Next

\* It holds at the start.
LEMMA InitHeld == Init => HeldByLater
BY ReplacementsAssumption DEF Init, HeldByLater

\* The last operation that is still waiting has a handler that can go on: what holds
\* that handler was staged later, so it waits no more.
LEMMA LastHasARunner ==
  ASSUME IInv, HeldByLater, Nested
  PROVE  WaitHasARunner
<1> USE ReplacementsAssumption
<1> DEFINE Waiting == {id \in Ids : op[id].participants > 0}
           Distances == {MaxId - id : id \in Waiting}
<1> SUFFICES ASSUME Waiting # {}
             PROVE  \E h \in Handlers : ~completed[h] /\ CanProgress(h)
  BY DEF WaitHasARunner
<1>1. PICK m \in Waiting : \A id \in Waiting : id <= m
  <2>1. Distances \in SUBSET Nat /\ Distances # {}
    OBVIOUS
  <2>2. PICK d \in Distances : \A e \in Distances : d <= e
    BY <2>1, Least
  <2>3. PICK m \in Waiting : d = MaxId - m
    BY <2>2
  <2>4. \A id \in Waiting : d <= MaxId - id
    BY <2>2
  <2>5. \A id \in Waiting : id <= m
    BY <2>3, <2>4
  <2> QED
    BY <2>5
<1>2. PICK h \in Outstanding(m) : TRUE
  <2>1. Cardinality(Outstanding(m)) # 0
    BY <1>1 DEF IInv, ParticipantsExact
  <2> QED
    BY <2>1, FS_EmptySet
<1>3. h \in Handlers /\ h[1] = m /\ status[h] # "absent" /\ ~completed[h]
  BY <1>1, <1>2 DEF Outstanding
<1>4. status[h] \in {"ready", "live"}
  BY <1>3 DEF HeldByLater, IInv, TypeOK
<1>5. at[h] # 0 => op[at[h]].participants = 0
  <2> SUFFICES ASSUME at[h] # 0
               PROVE  op[at[h]].participants = 0
    OBVIOUS
  <2>1. at[h] > m /\ at[h] \in Ids
    BY <1>3 DEF HeldByLater, IInv, TypeOK
  <2>2. at[h] \notin Waiting
    BY <1>1, <2>1
  <2>3. op[at[h]].participants \in Nat
    BY <2>1 DEF IInv, TypeOK, PendingOperation
  <2> QED
    BY <2>1, <2>2, <2>3
<1> QED
  BY <1>3, <1>4, <1>5 DEF CanProgress

\* While an operation waits for handlers, one of them, or of another operation, can
\* go on, if handlers COMMIT only what was staged after their own operation.
THEOREM SomebodyRuns ==
  ASSUME Nested
  PROVE  Spec => []WaitHasARunner
<1>1. Init => HeldByLater
  BY InitHeld
<1>2. IInv /\ HeldByLater /\ [Next]_vars => HeldByLater'
  BY NextHeld DEF IInv
<1>3. IInv /\ HeldByLater => WaitHasARunner
  BY LastHasARunner
<1> QED
  BY <1>1, <1>2, <1>3, Invariance, PTL DEF Spec
=============================================================================

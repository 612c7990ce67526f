# A TLA+ development for Lacooda64

Lacooda64 is an instruction set for card-duel effects with a C++ runtime. A
program is a trace of four-word instructions, a *frame* is a trace with a program
counter, value registers and a decision, and `Runtime::Run(frame, budget)`
executes a frame until it ends, faults, waits for a choice, or has used its budget.
Everything runs on one thread. What makes the code hard is that the host holds
many frames at once and may run them in any order, with any budget, and again
after they failed, while the frames share one runtime: the pending operations, the
chain, the registrations and queue, the modifiers, and the card storage of the host.

The modules here model that shared state, and the way from a text to the frames that
work on it: words, instructions, validation, the assembler, the lowered queries and the
interpreter. They are checked with TLC on small instances. The safety properties of the two protocols that
carry most of the risk (replacement handlers and the chain), of the scheduler, the numeric and
the card operations, the soundness of the interpreter after validation, and what the assembler,
the disassembler and the binary form do to a text or a trace of any length, are proved with
TLAPS for every value of the constants.

Paths below are relative to the repository.

## 1. Inventory

| Component (source) | State | Operations | Modelled in |
|---|---|---|---|
| Staged operations and replacement handlers (`src/runtime/Replacements.cpp`, `Runtime.cpp`, `References.cpp`) | pending operations: instruction, cancellation flag, participants, failed flag, cached execution; the participant of each handler frame | STAGE, COMMIT, writes to `CONTROL.PENDING_*`, NEGATE of a pending summon, the end of a handler frame | `Replacements`, `StagedOperation` |
| Chain (`src/runtime/Chain.cpp`, `Frame.cpp`) | stack of links with body frames, active and resolving flags, pass count | CHAIN (eight operations), NEGATE of a link, `Frame::Answer` | `Chain`, `LinkStack` |
| Scheduler, delivery, time (`src/runtime/Scheduler.cpp`, `Runtime.cpp`) | registrations by id, the ready queue, the event history | SUBSCRIBE, SCHEDULE, CANCEL, `Deliver`, `Advance`, `TakeReady` | `Scheduler` |
| Attributes, modifiers, counters (`src/runtime/Modifiers.cpp`, `Numeric.cpp`, `Operations.cpp`, `Runtime.cpp`) | base values in storage, modifiers by id | MODIFY, UNMODIFY, DAMAGE, GAIN_LP, PAY_LP, COUNTER, RESTRICT, STORE | `Attributes` |
| Card operations (`src/runtime/Operations.cpp`, `Runtime.cpp`) | the fields of each card in storage | SUMMON, POSITION, EQUIP, CONTROL, MOVE | `CardOperations` (partly) |
| Interpreter loop (`src/runtime/Runtime.cpp`) | pc, registers, status, budget | fetch, NOP, HALT, SET, COPY, SWAP, LOAD, STORE, SELECT, ATTRIBUTE, ALU, COMPARE, JUMP, JUMPIF, MOVE, EVENT, HISTORY, SUBSCRIBE, SCHEDULE, CANCEL, faults | `Interpreter`; STAGE, COMMIT, CHAIN, MODIFY and the card operations in the modules above |
| Decisions, collections, random (`src/runtime/Collections.cpp`, `Runtime.cpp`) | collections of a frame, its decision and answer, the seeded generator | CHOOSE, ENUMERATE, AT, APPEND, LENGTH, COUNT, RANDOM | `Interpreter` (CHOOSE forwarded by a driver: `Chain`) |
| Lowering helpers (`src/assembly/Lowering.cpp`) | traces under construction | OnceOnEvent, Filter, DrawToSize, RandomMove, PatchJump | `Lowering` (two copies of a OnceOnEvent: `Scheduler`) |
| Words and validation (`include/lacooda/`, `src/lacooda/Validate.cpp`) | none | packing, the immediate codec, ValidInstruction, ValidateTrace | `Words`, `Instructions` |
| Assembler, disassembler (`src/assembly/`) | labels, diagnostics, modules | two passes over lines | `Assembler` |
| Machine image, binary form (`src/lacooda/Machine.cpp`) | a register file | Encode, Decode, EncodeBytes | `Instructions` (partly) |
| Builder, command line tool | none | constructors, file I/O | the constructors in `Instructions` |
| Storage of the host (`include/runtime/StateAccess.hpp`) | the host's | read, write, relocate, exchange, create, enumerate | external, by its contract |
| Effect compiler (`tools/`) | none at run time | offline translation of card text | left out |

How they interact:

- An instruction that mutates emits an event. Delivery copies the frames that
  subscribed to its kind to the ready queue; the host takes the queue and runs
  them whenever it likes. Nothing runs synchronously inside an instruction except
  two things: RESOLVE_LINK runs the body of the top link, and COMMIT runs the
  instruction that was staged.
- STAGE does the same with the handlers of the corresponding *would* event. The
  handler frames share the pending operation, and COMMIT waits for them.
- A body's status becomes the status of the frame that resolves it: a decision of
  the body shows up in the driver's frame, and an answer to it travels back with the
  next RESOLVE_LINK.
- Numeric instructions read attributes through the modifiers and write bases to
  storage. Card operations are series of storage calls without rollback.

What is hard, with the property of each that answers it, is the `hazards` list of
`PROJECT.json`. In short: frames run again after they ended; several frames that
commit, resolve or negate the same thing; a body that is suspended while the chain
changes around it; answers that arrive after the state they were meant for is gone;
waiting that depends on other frames; budgets too small for a nested call; one-shot
handlers queued twice; reads with modifiers that become writes without; and series of
storage calls that break off.

What makes each component correct:

- *Replacements*: COMMIT trusts a counter, so the counter must be exact; the plan must
  be final when the counter is zero; it must be applied once, as amended.
- *Chain*: the link whose body executes must stay where it is; links are reported once
  and last in, first out; outcomes are final; a driver gets on.
- *Scheduler*: the queue holds what the history of calls prescribes, no more and no
  less, in the documented order; a one-shot registration is gone when its body begins.
- *Attributes*: no stored number leaves the immediate range; modifiers are contributions
  that leave the base alone; a read that works keeps working.
- *Words, validation, interpreter*: a trace that passed validation never leads its frame
  outside it, no register ever holds a word that its bank excludes, a question is answered
  where it was asked, and a registration is known to who made it.
- *Assembler*: what is accepted means what was written, wherever labels, blanks and symbols
  stand; one bad line publishes nothing; a trace survives its own listing.
- *Lowering*: the emitted loops end, and do what the query is for.
- *Card operations*: fields that are derived from one another agree, and a listener who
  follows the events knows the state.

## 2. Plan

The order is that of importance: what a defect would corrupt, and how far tests are
from reaching it.

1. `StagedOperation`, `Replacements`, `ReplacementsProofs` - done, proved.
2. `LinkStack`, `Chain`, `ChainProofs` - done, proved.
3. `Scheduler`, `Attributes`, `CardOperations` and a proof module for each - done, checked and
   proved.
4. `Words`, `Instructions`, `Interpreter`, `InterpreterProofs` - done, checked and proved.
5. `Lowering`, `Assembler`, and `Programs`, which composes them with the interpreter - done,
   checked; `AssemblerProofs`, and the theorems about `Programs` in `InterpreterProofs` - done,
   proved, except for what lowered queries compute (section 5).
6. Still to write: an interpreter whose programs also STAGE, COMMIT and
   CHAIN, which would make one state of what is now separate modules.

`Replacements`, `Chain`, `Scheduler`, `Attributes` and `CardOperations` share no variable: in
the code they are separate members of `Runtime`, and meet only where one
instruction touches two of them (STAGE and the subscriptions it finds, COMMIT inside a
link body, NEGATE of a link or of a pending operation, an instruction and the events it
emits). Each module takes the other side of such a meeting as arbitrary: STAGE finds
any set of registrations, a body's COMMIT waits or not, an event is delivered or
not. That covers more than the composition, and keeps the instances small. `Programs`
is a composition: the assembler and the builder make traces of words, validation admits
them, and frames of these traces share the storage, the history and the scheduler.

## 3. Modules

### Replacements

A step is one instruction of one frame. Programs are arbitrary: a frame that is live may
stage any instruction, write any of its pending cells, negate, commit any id, halt
or fault. `Drivers` are frames without a pending context, `Handlers` the copies that a
STAGE queued (one for each id and registration).

| Definition | Code |
|---|---|
| `next`, `entries`, `op` | `Replacements::next_`, `entries_`, the shared `PendingOperation` (it outlives its entry, as handlers keep a pointer) |
| `completed`, `Complete`, `Return` | `PendingParticipant::completed` and `Complete`, called by `Runtime::Run` for every terminal status |
| `at[f]` | the pc of a frame resting on a COMMIT, with the id it reads |
| `Stage`, `AmendOperands`, `AmendCancelled`, `NegateSummon` | STAGE; writes through `Cell` in `References.cpp`; NEGATE of the pending summon |
| `CommitWaiting`, `CommitRejected`, `CommitCancelled`, `CommitStarved`, `CommitFaulted`, `CommitApplied` | the six ways `COMMIT` returns |
| `TakeReady`, `Retry` | the host: it takes the queue, and may run a faulted frame again |

Instructions are abstracted to an opcode (STORE has a rule of its own, SUMMON is what
NEGATE can cancel and stands for the others) and an operand that is well formed or not and
names an attribute or not.

`StagedOperation` is what staging promises, with no frames, participants or caches:
*absent, open or doomed, sealed or rejected, applied or cancelled*. `ImplementsStaging`
is the refinement.

### Chain

The stack of links, one `running` body at most, and the drivers' frames. A body is a
sequence over `plain`, `choose`, `negate`, `commit`, `await`, `chain`: the
instructions a link's frame executes, by what they do to the chain, the decision and
the budget. Any of them may fault.

| Definition | Code |
|---|---|
| `active`, `resolving`, `passes`, `links` | the members of `ChainState` and `ChainLink` |
| `Begin`, `Push`, `Pass`, `BeginResolve`, `Pop`, `EndResolve`, `End` | the operations of `Runtime::RunChain` |
| `ResolveSkip`, `ResolveEnter`, `ResolveFault`, `Finish` | RESOLVE_LINK up to the nested `Run`, and its completion with RESOLVE_END |
| `BodyPlain` ... `BodyEnds` | one instruction of the nested `Run`, with its remaining `budget - steps` |
| `decision`, `answer`, `Answer` | `Frame::decision`, `Frame::answer` and `Frame::Answer` |
| `Negate`, `BodyNegates`, `Marked` | the case NEGATE of `Runtime::ApplyStateOperation`: the topmost unresolved match |

While `running # {}` no other frame acts: the nested `Run` is a C++ call. Between two
calls everything may happen. `LinkStack` is the abstract stack: links are pushed while
it is open, settled at the top (as executed or negated), popped when settled.

### Scheduler

Ids, registrations and the queue, with a history of the calls. `Register`, `Cancel`,
`Deliver`, `Advance`, `TakeReady` are the operations; `StartOneShot` is the CANCEL that
`Lowering::OnceOnEvent` puts at the head of a one-shot body. `since` and `until` record
when an id was registered and cancelled, for the properties only.

### Attributes

`base` is storage, `entries` the modifiers. `Fold` is `Modifiers::Read`: the modifiers of the field
in the order of their ids, any overflow or division by zero is a failed read.
`Lo..Hi` is the immediate range, `NoNumber` any word that is not an immediate. `Update` is
the write that DAMAGE, GAIN_LP, PAY_LP, COUNTER and RESTRICT end in. `TransferBreaks` is a
transfer whose second storage write fails. `ledger` is what the changes add up to,
independent of what was read.

### CardOperations

`object` is the storage of cards. Each instruction is a sequence of storage calls
(`SummonCalls`, `PositionCalls`, ...); `Complete` applies them all, `Break` a proper prefix,
with no event. `seen` and `worn` are what a listener concludes from the events. `torn`
marks the parts of a card that an instruction left half-written or, after a FLIP by a stale address,
wrote for where the card was. FLIP and SWAP look at
the coordinates encoded in their operands, so they take an address, which may be stale;
for FLIP the manual asks for a current one, SWAP refuses a stale one after the exchange.

### Words and Instructions

`Words` is `include/lacooda/`: a word is a natural number below `2^WordBits`, its tag and
fields are cut out with `\div` and `%`, and every width is a constant (`WordBits` is 64 in the
code). Immediates are two's complement in the payload. `Instructions` has the opcodes with
their subcodes, operand shapes and numbers (`Opcodes`, the table of `Opcode.hpp`),
`ValidInstruction`, `ValidTrace` (`ValidateTrace`), the constructors of `Builder.hpp`, and
`Encode`/`Decode` of the machine image. A branch whose target has no immediate becomes the
word that the builder chooses, which validation refuses.

### Interpreter

A step is one instruction of one frame, so that frames interleave at every instruction:
the budgets of the host are any.

| Definition | Code |
|---|---|
| `frames`, `ready`, `history`, `entries`, `next` | the frames of the host, `Runtime::ready_`, `history`, `Scheduler::entries_`, `next_` |
| `zones`, `fields` | the storage, by its contract; it may refuse `MaxRefusals` requests at any call |
| `Resolve`, `Read`, `Write`, `Fits` | `References.cpp` |
| `On`, `Fr`, `Goto`, `Stop`, `Yield` | the loop of `Execute`: fetch, PROGRAM_COUNTER, `next`, `valid` |
| one action per opcode group | the cases of the switch in `Execute` |
| `MoveAll`, `Deliver` | the loop of MOVE with `Relocate` and its event; `Runtime::Deliver` and `Scheduler::Event` |
| `AnswerWith`, `TakeReady`, `Post` | the host |

A frame that faulted stays at its pc and may be run again, as in the code. `Samples` are
all numbers of `RandomBits` bits: the seeded generator may return any of them, and
`Accepted` are those that the rejection loop of `Bounded` lets pass. `moves` is a history
variable that counts the cards a frame has moved.

### Lowering, Assembler and Programs

`Lowering` is the class of that name: each call appends instructions to a builder
`[code, ...]` and allocates scratch registers; the operators emit the same instructions in
the same order, branches are patched as in the code.

`Assembler` is `Assemble`, `AssembleModule`, `Disassemble`. A line is a record: its kind
(blank, the header of a listing, label, symbol, code, `.program`, `.end`, another directive,
malformed), its optional pc, its name, its argument tokens and its annotations. The characters of a line are left
out, what a line *is* for both passes and for the module around them is kept: `Assemble` skips a header,
`AssembleModule` knows none, and takes it for a line outside of a program unless one is open. Diagnostics are the numbers of the lines that are
blamed.

`Programs` is the composition. Either an author types a text line by line and the
assembler answers to every version; or a host follows a plan: it builds programs from texts
or queries, hands them over in memory, as a listing or in binary form, runs the frames in
any order, answers their questions, posts events and takes ready frames.

Definitions named `Mut...` are slips a programmer could make in the definition that
follows (a dropped guard, a missing reset, a wrong order). No specification uses them:
each, put in the place of the definition it varies, makes TLC find the violation of the
property that is paired with it in `PROJECT.json`, which shows that the property
depends on that code.

## 4. Runs

| Run | Instance | What it shows |
|---|---|---|
| `MCReplacements` | 2 ids, 2 registrations, 1 host frame, 2 handler frames, 2 operand values, nested commits allowed | counts exact, plan frozen when sealed, applied once as amended, cached execution fresh; implements `StagedOperation` |
| `MCReplacementsDrain` | the same with one operand and `Nested` | handlers drain, COMMITs return, and somebody can always run while an operation waits |
| `MCChain` | 2 drivers, 2 subjects, 3 pushes, 4 bodies, budgets 0..2 | the link under execution is held, reports once and in order, negated first never runs; implements `LinkStack` |
| `MCChainAnswers` | 1 driver, bodies with up to two questions, budgets 2..3 | each answer meets its CHOOSE; RESOLVE_LINK gets past its link or faults |
| `MCScheduler` | 3 ids, 1 kind, times 1..2, 3 deliveries or ticks | the queue is what the history prescribes; timers fire in the order of their times for any tick size; one-shots unregister first |
| `MCAttributes` | 2 fields, range -3..2, 2 modifiers of all four kinds | no stored number out of range; bases are what the changes add up to; MODIFY keeps readable what was |
| `MCCardOperations` | 1 card, 1 token, 1 equipment, 2 players, one failure or misled FLIP anywhere | derived fields agree and the events tell the truth wherever no failure came between |
| `MCPrograms` | words of 30 bits, texts of up to 4 lines from three alphabets, 40 plans, up to 3 frames, one refused request | validated traces keep their pc, registers and questions sound; texts mean what is written; listings and binary form lose nothing; lowered queries end and do what they are for, alone and against one another; MOVE reports what it moved; registrations are known to their owner; draws are uniform |
| `MCChainOneStep`, `MCChainNegated`, `MCSchedulerOneShot`, `MCAttributesDamage` | the smallest instance that shows it | the disagreements of section 7 |

### Bounds and why they are enough

- *Replacements*: two operations are what it takes for a handler to stage and commit
  another one and for two handlers to wait for one another; two handlers of one
  operation are what it takes for a first and a last report. The counters have no other
  use of the number. `MaxHandlers` bounds the copies of a run.
- *Chain*: three links give a bottom, a middle and a top, so that "every link above" and
  "the topmost match" differ from "the other link"; two drivers race for every step;
  the budgets 0, 1 and 2 are "none", "not enough for a COMMIT" and "enough". `MaxPasses`
  is the largest immediate, made small.
- *Scheduler*: `MaxHistory` bounds the calls; three suffice for a timer to be registered,
  overtaken and cancelled around a tick. The last id is `MaxId`, the code's `kImmediateMax`, made
  small, so exhaustion occurs.
- *Attributes*: the range is asymmetric as in the code and small enough for each
  instruction to overflow at either end after two steps.
- *CardOperations*: `MaxFailures` is 1: after one failure every instruction still runs, and
  a second one only tears more. The operations are one that replaces the position and
  one that changes it; FLIP adds the third. The locations of a player are one zone: what the
  instructions tell apart is the player, and whether the address is current. The token
  and the card are operated, and the weapon is equipped: EQUIP touches no field the others read.

- *Programs*: the words are as narrow as they can be with every opcode, tag and field in use; an
  immediate still has more than a byte, so nothing overflows that would not in 64 bits, and the
  boundary of a branch target is reached by `Jump` to a number outside the trace. Four lines
  are a label, its definition, its use and one line between that must not count; each of
  the three alphabets holds the lines that can confuse one another (pcs and names; annotations,
  reserved bits and malformed lines; modules, with blank lines and listing headers in and around
  the programs). The plans take each query alone on zones with more, as many and fewer cards than asked, two queries that draw from one another's zones,
  a one-shot that undoes a draw, and one text per instruction group; one per way to fault.
  Three frames are two that compete and the copy of a handler. Four-bit samples give
  bounds that divide their number and bounds that do not.

Deadlock is not checked: a duel may end, and a bounded instance runs out of ids,
pushes or calls.

### Fairness

Safety runs use `Spec`, which assumes nothing.

`Replacements!FairSpec`: the host drains the queue (`WF TakeReady`); a program that is not
resting on a COMMIT ends (`WF End(f)`); a frame resting on a COMMIT is run again
(`WF Resume(f)`). The manual asks this of the host: "`kWaiting` without a decision" is
answered by "Run queued replacement participants before retrying COMMIT". `WF Resume(f)` also
assumes that these calls have enough budget for the instruction that a COMMIT executes: COMMIT
takes one step and gives the nested `Run` what is left (`Runtime.cpp:322`), so a COMMIT
that is only ever run with one step changes nothing and stays where it is. `CommitReturns` rests
on that; `MCChainOneStep` shows what happens to a link body without it. Nothing is assumed of a faulted
frame, which has reported already. `Nested` is a condition on programs and is stated as a
constant: without it, a handler that commits its own operation waits for itself, and
neither `WaitHasARunner` nor the liveness properties hold.

`Programs!Spec` is fair to each frame (`WF Run(f)`): "frames run again and again" is all that
`QueriesEnd` needs, since a loop that a query emits ends by itself. Answers, posts and the
ready queue are left to the host without any assumption; a handler that is never taken never runs.

`Chain!FairSpec`: a suspended driver is run again (`WF` of its RESOLVE_LINK), a body that
is running takes its steps (`WF Body`: it is a C++ loop), a decision that is shown again
and again is answered (`SF Answer`: it is withdrawn and shown again around each call),
and a COMMIT in a body does not wait for its handlers for ever (`SF BodyCommits`: the
drain property of `Replacements`, and the budget of a call is large enough again and
again; the run gives each call at least two steps for the body).

## 5. Proofs

`ReplacementsProofs` proves, from `ReplacementsAssumption` only (sets of any size, any
number of ids, handlers unbounded or not, `Nested` either way):

- `TypeCorrect`, `CountsAreExact`, `ExecutionIsFresh`, `AppliedOnce`: the invariants of the run;
- `SomebodyRuns`: if programs are `Nested`, an operation that waits has a participant that can
  run, so nobody waits for nobody (below);
- `SealedOperationsAreFrozen`: the action property;
- `Implementation`: `Spec => ImplementsStaging`.

The inductive invariant is `IInv`. `ParticipantsExact` alone is not inductive: a report
decrements the count of *its* operation, so ids not staged yet must have no
frames (`FutureIsBlank`), and the cardinality lemmas need `Registrations` finite.
`AppliedOnceAsAmended` needs that an erased entry had been settled when it was erased and
has stayed so (`ErasedIsClosed`, `AppliedIsErased`), and `ExecutionFresh` needs that a
cached execution exists only once the operation is sealed, so that no amendment can
come after it (`VerdictStands`). The step lemmas are grouped by what an instruction can
disturb: the ones that only write pending cells (`WriteIInv`), the ones that end a frame
(`ReturnIInv`), STAGE and COMMIT. The refinement has one lemma for each such group: each
step moves at most one operation to another phase (`OneMoves`) or none (`NoneMoves`).
`SomebodyRuns` is an argument about an order: a participant that rests on a COMMIT waits for an
operation staged later than its own, so among the operations that wait the last one has a
participant that does not rest.

`ChainProofs` proves, from `ChainAssumption` only (any drivers, subjects, bodies, budgets
and bounds):

- `TypeCorrect`, `StackStaysHeld`, `EveryLinkIsReportedOnce`, `NegatedLinksNeverBegin`: the
  invariants of the run;
- `ReportsAreLastInFirst`: the action property;
- `AnswersMeetTheirDecisions`: if there is one driver (`Alone`), an answer meets the CHOOSE that the host saw;
- `Implementation`: `Spec => ImplementsStack`.

`AnswerMeetsItsDecision` is false of two drivers, and the theorem says so by its hypothesis:
with two, a driver can carry the answer
of a question that the other has already had answered, and it meets the next question of that
body. `Frame::Answer` and CHOOSE check its index against the number of candidates, and
nothing else. For one driver, `AInv` says where the question that the host saw, the decision of the driver and the
CHOOSE of the body are the same one, whatever is starved, negated or faults in between.

`IInv` adds to them that only the top link is ever resolved, and only in a resolving
chain (`Shape`); that ids on the stack increase and are at most `pushes` (`InOrder`), from
which last in, first out follows; and that a report names a pushed link, and each pushed link
is either unresolved on the stack or reported once (`ReportsArePushed`, `Accounted`). The
body's steps all write fields of the top link and keep its id, its `resolved` flag and the
rest of the stack (`TopWrites`), so one lemma covers them; PUSH, POP and the completion
(`FinishIInv`) are the steps with content.

`InterpreterProofs` proves, from `WidthsAssumption`, `PowersAssumption`, `OpcodesAssumption`, `EventsAssumption`,
`InterpreterAssumption` and `ProgramsAssumption` (any widths, any texts and plans, places, number
of frames and refusals):

- `TypeCorrect`: address registers hold valid addresses, flag registers 0 or 1;
- `StaysInTrace`: no frame of a validated trace leaves it;
- `QuestionsMatch`: a question is open only at the CHOOSE that asked it, and never in a
  captured or ready frame;
- `RegistrationReported`: a registration never faults after it registered;
- `PublishedStaysIntact`, `TextsMeanWhatTheySay`, `ModulesStayScoped`: what an author was told of
  a text, and what was published from it, stays true of it and of every frame that runs it;
- `WordsStayWords`: frames, storage, history, queue and captures hold words only, so that no step
  reads a cell, an element or an event that is not there;
- `MovesAreReported`: what MOVE reports, and announces, is what it did to the storage;
- `RandomMovesKeepToTheirCount`: a lowered random move never moves more cards than it was asked to,
  while the host follows a plan that is `Ruled`: its queries are lowered, each one random move of an
  immediate count or none at all, or it has any recipes without a random move;
- `DrawsAreUniform`: every result of a draw has equally many accepted samples, and at least one, for
  every bound an immediate can hold, provided that the samples are wide enough to count up to it
  (`ImmediateMax < 2^RandomBits`: 64 bits against 60 in the code).

`PowersAssumption` (the powers of two up to the width of a word are positive) and
`OpcodesAssumption` and `EventsAssumption` (the fields of a word for the opcode and for the subcode
have room for their tables, as the static assertions of `Operation.hpp` say of the bits) are
facts; they are stated since the provers do not compute them, and TLC evaluates them.

The inductive invariant `IInv` says that the frames of the host, the ready queue and the
captures are `Sound`: banks hold what they may, the trace is valid, the pc is in it, and a question
belongs to the CHOOSE at the pc. `PcInTrace` alone is not inductive: a jump stays in the
trace because `ValidTrace` checked its target, and a frame is only ever captured at a target that
was checked in the same way, of the same program. `RegisteredIsReported` is about a write after the
registration: it cannot fail since `ValidInstruction` asks for a value register. The proof has one
lemma for each instruction, on top of two about what a write keeps (`Keeps`, `Moves`).

`PublishedIntact` holds since no step makes a trace: `RunsIn` says that the frames, the queue and
the captures run traces that were built, and each instruction changes a frame's registers, never
its program. `TextInv` says of `result` that it is what `Assemble` or `AssembleModule` returns for
the text as it was typed, from which the theorems of `AssemblerProofs` conclude. `ReportedMoves` is a statement about
a loop that may be refused at any card: `Relocations` is the table of what the storage holds after
the moves of any of its cards, `AllArrive` says where they are then (`Moved`), and `RanMove` relates RESULT_COUNT, RESULT_SUCCESS and the events to it.

`MovesWithinRequest` is about a loop that 15 instructions make. `RandomMoveDraws` runs `RandomMove` of the builder and shows
that what it emits has the form `Draws(code, n)`, whatever it moves: opcodes, methods, registers and
branch targets are read back from the words that they were put into (`InstructionBack`, `TargetBack`).
`Drawing(fr, n, m)` is the invariant of the loop, one line for each region of it: with `m` cards
moved, `m + V(0)` is at most `n` at its head; between MOVE and SUBTRACT what was just moved is counted
twice, and is in RESULT_COUNT and then in `V(1)`; the body is entered with `V(0)` at least 1, by the flag
that JUMPIF reads. `DrawingSteps` shows it of each step, one that faults or is
run again included. `LInv` says it of the frames that the host started, which keep their places at the
head of `frames` (`OneMoves`, `TakeLInv`), and `OwnProgram` that each of them runs the program of its own
recipe: a query makes one program at most, so when there are as many programs as recipes, each makes one.

`WInv` is the second half of the type of a frame: every cell, field, event and element of a
collection is a word, the candidates of an open question too. No part of it is inductive alone, since
LOAD, HISTORY, AT, CHOOSE and MOVE carry words between registers, storage, history, queries and
events, and what computes a word (`Arithmetic`, an index, a drawn number, an address put together)
is masked to its width. The host contributes what `ProgramsAssumption` says of a plan: stored fields
are words, cards and posted kinds are numbers. `DrawIsUniform` needs `WInv`, as the bound is read from
a cell; beyond that it is about numbers: `ThresholdIsRest` shows that the unsigned
`(2^64 - bound) % bound` of the code is what is left when the samples are dealt out to the results, and
`DealtEvenly` counts the others by a bijection with the rounds of dealing.

`AssemblerProofs` proves, from `WidthsAssumption`, `PowersAssumption` and `OpcodesAssumption` (any
widths), of the operators of `Assembler` and `Instructions`:

- `AssembledIsValid`, `ModuleIsValid`: what is published is a valid trace, for any text;
- `AssembledIsWritten`: either lines of the text are blamed, or each line of code is translated at
  its program counter, labels and symbols wherever they stand;
- `ModuleIsWhole`, `ModuleIsScoped`: a module publishes its programs or blames lines of the text,
  never both; each program of a regular module is translated, and blamed, as if it stood alone;
- `ModuleIsPrograms`: a text with a `.program` is published only when it is programs and blank lines;
- `ListingRestores`, `WordsRestore`: the disassembler and `Encode` lose nothing of a valid trace.

The two passes, the collection of a module and the listing are folds over lines. The provers cannot
take the folded operator as a parameter, so a fold is a record that names what it folds (`Apply`), and `FoldGoes` says once, for
all of them, that it exists and goes line by line. On top of it, one invariant for each pass: `Scanned` (every
label stands for the number of code lines before it; a symbol is known from its definition on),
`Instructs` and `Reflects` (the trace so far is what the lines so far say), `Divided`, `Scoped` and `Enclosed` (a
module so far is its finished programs, with the diagnostics brought home to the lines of the text, and
the one that is open; as long as nothing is blamed, every other line is blank). `ModuleIsScoped` is about
*regular* modules, in which every `.program` has a name of its own, the one before is closed, and only blank
lines come before the first: after anything else, the header of a listing too, the first `.program` is refused and
the lines that follow are blamed, whatever they are; a nested `.program` restarts the open program, and the later diagnostics
count their lines from there. The words are arithmetic: what a field of a word is after the
fields above it were added (`OperandWords`), so that an opcode, a subcode and an operand are found
where they were put (`OpcodeBack`, `NameBack`, `Masked`).

`SchedulerProofs` proves, from `SchedulerAssumption` only (any number of ids, kinds, times, calls):

- `TypeCorrect`, `OneShotsUnregister`: the invariants of those names;
- `DeliveryIsExact`: each call queued one frame for each registration it is for, and no other;
- `TicksDoNotMatter`: the timers of one queue are in the order of their times, whatever the
  ticks.

`IInv` adds who is in `entries_` and why (`LiveOK`: a registration stays until it is cancelled or,
as a timer, due), so that what `Deliver` and `Advance` find there is what the history prescribes;
the order of the queue (`Ordered`: by call, then by id or by time and id); and
`CalledExactly`, the set of ids that each call has queued. `DeliveredExactly` counts frames:
since the order is strict, no id is queued twice by one call, and the count is the number of ids.
`CallAppends` says what a sorted batch appends, `CallKeepsIInv` is shared by `Deliver` and
`Advance`; `QuietIInv` covers the steps that call nothing.

`AttributesProofs` proves, from `AttributesAssumption` only (any fields, widths, numbers of
modifiers):

- `TypeCorrect`, `ModifiersLeaveNoTrace`: the invariants of the run;
- `NoReadIsBlocked`: the action property.

`IInv` is the conjunction of the two invariants. What a read computes is a fold over the modifiers,
of which three things are proved for any number of them: without a modifier of the field it is
the base (`FoldOfNone`), it depends on the base and on the modifiers *of that field* only
(`FoldAlike`), and a number it answers fits (`FoldFits`). The first relates bases to the
ledger, the second is why a MODIFY of another field changes no read, and the last is why a
TRANSFER stores no wide number.

`CardOperationsProofs` proves, from `CardOperationsAssumption` only (any cards, players, zones,
operations and number of failures): `TypeCorrect`, `FieldsStayInAgreement`,
`EventsTellLocations` and `EventsTellEquipment`, the four invariants of the run.

An instruction is a series of storage calls of which any but the first may fail. About a series
of any length: a field that no call writes is as before, the last call that writes a field decides it
(`AfterLast`), and a series that is cut short has settled all that the rest does not write
(`AfterPrefix`). `Proper` says of a whole series that it leaves the parts it touches in
agreement, or that it is lost (a FLIP by a stale address); from that alone, `CompleteIInv` and `BreakIInv` show that the instruction keeps
the invariant when it finishes and when it fails anywhere. For each instruction it remains to prove
that its calls are proper (`PositionIInv`, `SummonIInv`, `ControlIInv`, `SwapIInv`). `IInv` adds
`Unattached`: a card that is not there yet is attached to nothing, without which the creation of
a token, which writes every field, could detach something unannounced.

These folds, and those of `AssemblerProofs`, are recursive functions. `FiniteInduction` has the one lemma they rest on: a set that
holds 0 and with each number the next holds every number up to a bound, from the least element of what
it would miss. With it each fold is shown to exist, and what it computes, step by step.

### Only model-checked

- Liveness (`HandlersDrain`, `CommitReturns`, `ResolveReturns`, `QueriesEnd`): fairness and
  ENABLED are out of the prover's reach.
- `QueriesExact`: it says what the queries of the run's plans compute. It is not true of any plan: a text
  may end in the middle of a query, or write the registers of one, so there is nothing to prove for
  every value of the constants but the plans themselves.
- `MovesWithinRequest` for plans that are not `Ruled`, of which the run has one: a draw with a handler
  that undoes it, where the number of cards comes from the register that the creator counted in.
- `DrawIsUniform` on the widths of the run, whose samples (4 bits) are narrower than an immediate, so that the
  hypothesis of `DrawsAreUniform` does not hold there: the run draws with bounds that fit.

## 6. Not modelled

- Register write-back: the code updates the register operand of a card after it moved. The
  modules take operands as values, current or stale.
- STAGE, COMMIT, CHAIN, MODIFY and the card operations inside `Interpreter`: they have modules of
  their own, in which the rest of a program is arbitrary. The `CONTROL.PENDING_*` cells of
  `Interpreter` are absent, as they are outside a handler.
- Budgets inside `Interpreter`: a run of any number of steps is a sequence of its steps.
- The spelling of lines and tokens: trimming, quoting, upper and lower case, number formats.
- The seeds and the state of the generator: any sample may come next.
- The NEGATE flags of an attack, an activation or an effect and `last_summoned`: attributes
  that the runtime writes and never reads.
- `EncodeBytes`, a loop over the bytes of each word that nothing in the repository decodes, and
  the command line tool, which is file input and output.
- The effect compiler: an offline Python translator without state between cards; what it emits
  is a text for the assembler.
- Storage adapters: the host's. What the modules assume of them is the documented contract:
  objects are found by identity, a failing call changes nothing, `Exchange` is one call, and
  `Relocate` to the current location succeeds without effect (the in-memory storage of the tests
  answers false there).
- The order and content of recorded events beyond what the properties use.

## 7. Disagreements found

Four runs end in a counterexample to something the repository says of itself. The
details, with the quoted lines, are the `findings` of `PROJECT.json`.

1. `MCAttributesDamage`: DAMAGE, PAY_LP, GAIN_LP, COUNTER and RESTRICT compute a new *base*
   from the value *with* modifiers, so the contribution of a modifier stays after it is
   removed. In the run a modifier makes a field of base 0 read 1, DAMAGE of 1 stores base 0,
   and the field still reads 0 when the modifier is gone. The header and the manual say that removing a modifier removes its contribution.
2. `MCChainOneStep`: a body that gets one step per call never gets past a COMMIT, whose
   nested instruction needs a step of its own. The manual says that two steps per call
   (one for RESOLVE_LINK, one for the body) make progress.
3. `MCChainNegated`: a link that is negated while its body is under way is reported as
   negated although its body ran. The manual says that a negated link skips its body and
   that RESOLVE_END tells negation from execution.
4. `MCSchedulerOneShot`: two events that are delivered before the queue is run execute the
   body of a one-shot subscription twice, since the body ignores the result of the
   CANCEL it begins with.

## 8. Running it

    tlc -config MCChain.cfg MCChain        (and so on, one .cfg per run)
    tlapm ReplacementsProofs.tla
    tlapm ChainProofs.tla
    tlapm AssemblerProofs.tla
    tlapm InterpreterProofs.tla
    tlapm SchedulerProofs.tla
    tlapm FiniteInduction.tla
    tlapm AttributesProofs.tla
    tlapm CardOperationsProofs.tla

`PROJECT.json` lists the runs with their properties, the source lines of every
definition, the hazards, the findings and the theorems.

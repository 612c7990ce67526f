------------------------- MODULE InterpreterProofs -------------------------
(***************************************************************************)
(* Programs, for every width of the words, every set of texts and plans    *)
(* and every number of frames: the inductive invariant of the interpreter, *)
(* and from it the safety properties of its frames.                        *)
(***************************************************************************)
EXTENDS Programs, AssemblerProofs, FiniteSetTheorems

FrameFields ==
  {"program", "pc", "value", "address", "flag", "control", "collections", "decision",
   "answer", "status"}

\* A word that an address register, or a flag register, may hold.
AddressWord(w) == w = None \/ ValidAddress(w)
FlagWord(w) == w = None \/ (IsImmediate(w) /\ ImmediateValue(w) \in {0, 1})

BanksOK(fr) ==
  /\ DOMAIN fr = FrameFields
  /\ DOMAIN fr.value = Indices /\ DOMAIN fr.address = Indices /\ DOMAIN fr.flag = Indices
  /\ DOMAIN fr.control = ControlCells
  /\ \A n \in Indices : AddressWord(fr.address[n]) /\ FlagWord(fr.flag[n])

\* A frame that passed validation is somewhere in a valid trace.
PlaceOK(fr) ==
  fr.status # "invalid" => ValidTrace(fr.program) /\ fr.pc \in 0 .. Len(fr.program)

\* A question is open at a CHOOSE only, the one that asked it.
QuestionOK(fr) ==
  IF fr.decision = <<>> THEN fr.answer = <<>>
  ELSE /\ fr.decision[1].pc = fr.pc
       /\ \A n \in DOMAIN fr.answer : fr.answer[n] < fr.decision[1].count
       /\ fr.pc < Len(fr.program) /\ OpcodeOf(fr.program[fr.pc + 1]) = "CHOOSE"

Sound(fr) == BanksOK(fr) /\ PlaceOK(fr) /\ QuestionOK(fr)
\* What the scheduler holds, and what it hands back.
Captive(fr) == Sound(fr) /\ fr.decision = <<>> /\ fr.answer = <<>>

FramesOK == frames \in Seq(ToSet(frames)) /\ \A fr \in ToSet(frames) : Sound(fr)
ReadyOK == ready \in Seq(ToSet(ready)) /\ \A fr \in ToSet(ready) : Captive(fr)
EntriesOK ==
  /\ next \in Nat \ {0}
  /\ DOMAIN entries \subseteq 1 .. next - 1
  /\ \A id \in DOMAIN entries : Captive(entries[id].frame)

IInv == FramesOK /\ ReadyOK /\ EntriesOK

-----------------------------------------------------------------------------
(* Words and sequences.                                                    *)

\* The powers of two that the fields of a word are cut with.
LEMMA Powers ==
  /\ WordBits \in Nat /\ TagBits \in 0 .. WordBits /\ PayloadBits \in 0 .. WordBits
  /\ 2^WordBits \in Nat \ {0} /\ 2^TagBits \in Nat \ {0} /\ 2^PayloadBits \in Nat \ {0}
  /\ 2^BankBits \in Nat \ {0} /\ 2^IndexBits \in Nat \ {0}
<1>1. TagBits \in 3 .. WordBits - 1 /\ BankBits \in Nat /\ IndexBits \in Nat
  BY WidthsAssumption
<1>2. WordBits \in Int
  BY WidthsAssumption
<1>3. BankBits + IndexBits <= WordBits - TagBits
  BY WidthsAssumption DEF PayloadBits
<1>4. {WordBits, TagBits, PayloadBits, BankBits, IndexBits} \subseteq 0 .. WordBits
  BY <1>1, <1>2, <1>3 DEF PayloadBits
<1> QED
  BY <1>1, <1>2, <1>4, PowersAssumption

\* The empty operand is one that IsNone recognizes.
LEMMA NoneIsNone == IsNone(None)
<1>1. Mask(0, PayloadBits) = 0 /\ Mask(0, TagBits) = 0
  BY Powers DEF Mask
<1>2. 0 * 2^TagBits + 0 = 0
  BY Powers
<1> QED
  BY <1>1, <1>2 DEF IsNone, None, MakeTagged, TagOf, NoneTag

\* The index of a register operand is one of its bank.
LEMMA IndexInBank ==
  ASSUME NEW w \in Word
  PROVE  IndexOf(w) \in Indices
<1>1. w \in Nat
  BY Powers DEF Word
<1>2. PayloadOf(w) \in Nat
  BY <1>1, Powers DEF PayloadOf
<1>3. PayloadOf(w) \div 2^BankBits \in Nat
  BY <1>2, Powers
<1> QED
  BY <1>3, Powers DEF IndexOf, Bits, Indices, RegisterCount

\* An operand is a control cell, a register of one bank, or neither.
LEMMA KindsDiffer ==
  ASSUME NEW o
  PROVE  /\ IsControl(o) => ~IsRegister(o) /\ ~IsAddress(o)
         /\ IsRegister(o) => ~IsAddress(o)
         /\ IsValueRegister(o) => ~IsControl(o) /\ ~IsAddressRegister(o) /\ ~IsFlagRegister(o)
         /\ IsAddressRegister(o) => ~IsControl(o) /\ ~IsValueRegister(o) /\ ~IsFlagRegister(o)
         /\ IsFlagRegister(o) => ~IsControl(o) /\ ~IsValueRegister(o) /\ ~IsAddressRegister(o)
         /\ IsControl(o) => ~IsValueRegister(o) /\ ~IsAddressRegister(o) /\ ~IsFlagRegister(o)
BY DEF IsControl, IsRegister, IsAddress, IsValueRegister, IsAddressRegister, IsFlagRegister,
       IsBank, ControlTag, RegisterTag, AddressTag, ValueBank, AddressBank, FlagBank

-----------------------------------------------------------------------------
(* What an instruction may do to its frame.                                *)

\* fr2 is fr after writes to its registers, control cells and collections.
Keeps(fr, fr2) ==
  /\ BanksOK(fr2)
  /\ fr2.program = fr.program /\ fr2.pc = fr.pc /\ fr2.status = fr.status
  /\ fr2.decision = fr.decision /\ fr2.answer = fr.answer
Machine(fr, m) == DOMAIN m = {"frame", "fields"} /\ Keeps(fr, m.frame)

\* A control cell takes any word.
LEMMA KeepsControl ==
  ASSUME NEW fr, NEW fr2, Keeps(fr, fr2), NEW r, NEW w
  PROVE  Keeps(fr, [fr2 EXCEPT !.control[r] = w])
BY DEF Keeps, BanksOK, FrameFields

\* A cell takes a word that fits it.
LEMMA KeepsCell ==
  ASSUME NEW fr, NEW fr2, Keeps(fr, fr2), NEW o, NEW w, IsCell(o), Fits(o, w)
  PROVE  Keeps(fr, SetCell(fr2, o, w))
<1>1. CASE IsControl(o)
  <2>1. SetCell(fr2, o, w) = [fr2 EXCEPT !.control[ControlRegOf(o)] = w]
    BY <1>1, KindsDiffer DEF SetCell
  <2> QED
    BY <2>1, KeepsControl
<1>2. CASE IsValueRegister(o)
  <2>1. SetCell(fr2, o, w) = [fr2 EXCEPT !.value[IndexOf(o)] = w]
    BY <1>2, KindsDiffer DEF SetCell
  <2> QED
    BY <2>1 DEF Keeps, BanksOK, FrameFields
<1>3. CASE IsAddressRegister(o)
  <2>1. SetCell(fr2, o, w) = [fr2 EXCEPT !.address[IndexOf(o)] = w]
    BY <1>3, KindsDiffer DEF SetCell
  <2>2. AddressWord(w)
    BY <1>3 DEF Fits, AddressWord
  <2> QED
    BY <2>1, <2>2 DEF Keeps, BanksOK, FrameFields
<1>4. CASE IsFlagRegister(o)
  <2>1. SetCell(fr2, o, w) = [fr2 EXCEPT !.flag[IndexOf(o)] = w]
    BY <1>4, KindsDiffer DEF SetCell
  <2>2. FlagWord(w)
    BY <1>4 DEF Fits, FlagWord
  <2> QED
    BY <2>1, <2>2 DEF Keeps, BanksOK, FrameFields
<1> QED
  BY <1>1, <1>2, <1>3, <1>4 DEF IsCell

\* A reference takes a word that fits it, in the frame or in the storage.
LEMMA MachineWrite ==
  ASSUME NEW fr, NEW m, Machine(fr, m), NEW o, NEW w, Fits(o, w)
  PROVE  Machine(fr, Write(m, o, w))
<1>1. CASE IsCell(o)
  <2>1. Write(m, o, w) = [m EXCEPT !.frame = SetCell(m.frame, o, w)]
    BY <1>1 DEF Write
  <2>2. Keeps(fr, SetCell(m.frame, o, w))
    BY <1>1, KeepsCell DEF Machine
  <2> QED
    BY <2>1, <2>2 DEF Machine
<1>2. CASE ~IsCell(o)
  BY <1>2 DEF Write, Machine
<1> QED
  BY <1>1, <1>2

\* An instruction starts by writing PROGRAM_COUNTER.
LEMMA MachineStart ==
  ASSUME NEW f, BanksOK(frames[f])
  PROVE  Keeps(frames[f], Fr(f)) /\ Machine(frames[f], M(f))
<1>1. Keeps(frames[f], frames[f])
  BY DEF Keeps
<1>2. Keeps(frames[f], Fr(f))
  BY <1>1, KeepsControl DEF Fr
<1> QED
  BY <1>2 DEF M, Machine

\* RESULT_COUNT and RESULT_SUCCESS are control cells.
LEMMA KeepsWith ==
  ASSUME NEW fr, NEW fr2, Keeps(fr, fr2), NEW r, NEW n
  PROVE  Keeps(fr, With(fr2, r, n))
BY KeepsControl DEF With

\* The frames and the storage change, nothing else that is known of the frames does.
Moves(f) ==
  \E fr : /\ Sound(fr) /\ fr.program = frames[f].program
          /\ frames' = [frames EXCEPT ![f] = fr]

\* A frame that becomes a sound one leaves all frames sound.
LEMMA MovesSound ==
  ASSUME FramesOK, NEW f \in DOMAIN frames, Moves(f)
  PROVE  FramesOK'
<1>1. PICK fr : Sound(fr) /\ frames' = [frames EXCEPT ![f] = fr]
  BY DEF Moves
<1> DEFINE Elements == ToSet(frames) \cup {fr}
<1>2. frames \in Seq(Elements) /\ f \in 1 .. Len(frames)
  BY SeqMonotonic, LenProperties DEF FramesOK
<1>3. frames' \in Seq(Elements)
  BY <1>1, <1>2, ExceptSeq
<1>4. frames' \in Seq(ToSet(frames')) /\ ToSet(frames') \subseteq Elements
  BY <1>3, OwnElements
<1>5. (ToSet(frames))' = ToSet(frames')
  BY DEF ToSet
<1> QED
  BY <1>1, <1>4, <1>5 DEF FramesOK

\* What holds of a frame in the middle of its trace that has no question open.
Going(f) ==
  /\ f \in DOMAIN frames /\ Sound(frames[f])
  /\ Runnable(f) /\ frames[f].pc < Len(frames[f].program)
  /\ frames[f].decision = <<>>

\* An instruction that goes on at a pc of the trace.
LEMMA GotoMoves ==
  ASSUME NEW f, Sound(frames[f]), frames[f].status # "invalid",
         NEW m, BanksOK(m.frame), m.frame.program = frames[f].program,
         m.frame.decision = <<>>, m.frame.answer = <<>>,
         NEW pc \in 0 .. Len(frames[f].program), Goto(f, m, pc)
  PROVE  Moves(f)
<1> DEFINE fr == [m.frame EXCEPT !.pc = pc, !.status = "running"]
<1>1. frames' = [frames EXCEPT ![f] = fr]
  BY DEF Goto
<1>2. /\ BanksOK(fr) /\ fr.pc = pc /\ fr.program = m.frame.program
      /\ fr.decision = <<>> /\ fr.answer = <<>>
  BY DEF BanksOK, FrameFields
<1>3. PlaceOK(fr)
  BY <1>2 DEF Sound, PlaceOK
<1>4. Sound(fr)
  BY <1>2, <1>3 DEF Sound, QuestionOK
<1> QED
  BY <1>1, <1>2, <1>4 DEF Moves

\* An instruction that ends the Run.
LEMMA StopMoves ==
  ASSUME NEW f, Sound(frames[f]), frames[f].status # "invalid",
         NEW fr2, Keeps(frames[f], fr2), NEW status, Stop(f, fr2, status)
  PROVE  Moves(f)
<1> DEFINE fr == [fr2 EXCEPT !.status = status]
<1>1. frames' = [frames EXCEPT ![f] = fr]
  BY DEF Stop
<1>2. /\ BanksOK(fr) /\ fr.pc = frames[f].pc /\ fr.program = frames[f].program
      /\ fr.decision = frames[f].decision /\ fr.answer = frames[f].answer
  BY DEF BanksOK, FrameFields, Keeps
<1>3. PlaceOK(fr) /\ QuestionOK(fr)
  BY <1>2 DEF Sound, PlaceOK, QuestionOK
<1> QED
  BY <1>1, <1>2, <1>3 DEF Moves, Sound

\* An instruction that goes on to the next one.
LEMMA ContinueMoves ==
  ASSUME NEW f, Going(f), NEW m, Machine(frames[f], m), Continue(f, m)
  PROVE  Moves(f)
<1>1. frames[f].status # "invalid" /\ Sound(frames[f]) /\ frames[f].decision = <<>>
  BY DEF Going, Runnable
<1>2. frames[f].program \in Traces /\ frames[f].pc \in 0 .. Len(frames[f].program)
  BY <1>1 DEF Sound, PlaceOK, ValidTrace
<1>3. frames[f].pc + 1 \in 0 .. Len(frames[f].program)
  BY <1>2, LenProperties DEF Going, Traces
<1>4. /\ BanksOK(m.frame) /\ m.frame.program = frames[f].program
      /\ m.frame.decision = <<>> /\ m.frame.answer = <<>>
  BY <1>1 DEF Machine, Keeps, Sound, QuestionOK
<1> QED
  BY <1>1, <1>3, <1>4, GotoMoves DEF Continue

\* An instruction that writes one word to its destination.
LEMMA YieldMoves ==
  ASSUME NEW f, Going(f), NEW valid, NEW w, Yield(f, valid, w)
  PROVE  Moves(f)
<1>1. Keeps(frames[f], Fr(f)) /\ Machine(frames[f], M(f))
  BY MachineStart DEF Going, Sound
<1>2. CASE valid /\ CanWrite(D(f), w)
  <2>1. Machine(frames[f], Write(M(f), D(f), w))
    BY <1>1, <1>2, MachineWrite DEF CanWrite
  <2> QED
    BY <1>2, <2>1, ContinueMoves DEF Yield
<1>3. CASE ~(valid /\ CanWrite(D(f), w))
  BY <1>1, <1>3, StopMoves DEF Yield, Going, Runnable
<1> QED
  BY <1>2, <1>3

-----------------------------------------------------------------------------
(* One instruction.                                                        *)

\* A frame that runs an instruction runs a validated one.
LEMMA Fetched ==
  ASSUME FramesOK, NEW f \in DOMAIN frames, Runnable(f),
         frames[f].pc < Len(frames[f].program)
  PROVE  /\ Sound(frames[f]) /\ frames[f].status # "invalid"
         /\ ValidInstruction(I(f))
         /\ Targets(I(f)) \subseteq 0 .. Len(frames[f].program) - 1
         /\ D(f) \in Word /\ S(f) \in Word /\ T(f) \in Word
         /\ Len(frames[f].program) \in Nat
<1>1. Sound(frames[f]) /\ frames[f].status # "invalid"
  BY DEF FramesOK, ToSet, Runnable
<1> DEFINE trace == frames[f].program
           n == frames[f].pc + 1
<1>2. trace \in Traces /\ Faulty(trace) = {} /\ frames[f].pc \in 0 .. Len(trace)
  BY <1>1 DEF Sound, PlaceOK, ValidTrace
<1>3. Len(trace) \in Nat /\ n \in 1 .. Len(trace) /\ n \in DOMAIN trace
  BY <1>2, LenProperties DEF Traces
<1>4. ValidInstruction(trace[n]) /\ Targets(trace[n]) \subseteq 0 .. Len(trace) - 1
  BY <1>2, <1>3 DEF Faulty
<1>5. trace[n] \in Word \X Word \X Word \X Word
  BY <1>2, <1>3, ElementOfSeq DEF Traces
<1>6. I(f) = trace[n]
  BY DEF I
<1>7. D(f) \in Word /\ S(f) \in Word /\ T(f) \in Word
  BY <1>5, <1>6 DEF D, S, T, Dst, Src0, Src1
<1> QED
  BY <1>1, <1>3, <1>4, <1>6, <1>7

\* Only a CHOOSE has a question open.
LEMMA OnGoing ==
  ASSUME FramesOK, NEW f \in DOMAIN frames, NEW opcodes, On(f, opcodes), "CHOOSE" \notin opcodes
  PROVE  /\ Going(f)
         /\ Keeps(frames[f], Fr(f)) /\ Machine(frames[f], M(f))
<1>1. Runnable(f) /\ frames[f].pc < Len(frames[f].program) /\ OpcodeOf(I(f)) # "CHOOSE"
  BY DEF On
<1>2. Sound(frames[f])
  BY <1>1, Fetched
<1>3. frames[f].decision = <<>>
  BY <1>1, <1>2 DEF Sound, QuestionOK, I
<1> QED
  BY <1>1, <1>2, <1>3, MachineStart DEF Going, Sound

\* The instructions that yield one word.
LEMMA YieldingMoves ==
  ASSUME FramesOK, NEW f \in DOMAIN frames,
         \/ Set(f) \/ Select(f) \/ Load(f) \/ Attribute(f) \/ Compute(f) \/ Compare(f)
         \/ At(f) \/ Length(f) \/ Random(f) \/ Recall(f)
  PROVE  Moves(f)
<1>1. On(f, {OpcodeOf(I(f))}) /\ OpcodeOf(I(f)) # "CHOOSE"
  BY DEF On, Set, Select, Load, Attribute, Compute, Compare, At, Length, Random, Recall
<1>2. Going(f)
  BY <1>1, OnGoing
<1>3. \E valid, w : Yield(f, valid, w)
  <2>1. CASE Set(f)
    BY <2>1 DEF Set
  <2>2. CASE Select(f)
    BY <2>2 DEF Select
  <2>3. CASE Load(f)
    BY <2>3 DEF Load
  <2>4. CASE Attribute(f)
    BY <2>4 DEF Attribute
  <2>5. CASE Compute(f)
    BY <2>5 DEF Compute
  <2>6. CASE Compare(f)
    BY <2>6 DEF Compare
  <2>7. CASE At(f)
    BY <2>7 DEF At
  <2>8. CASE Length(f)
    BY <2>8 DEF Length
  <2>9. CASE Random(f)
    BY <2>9 DEF Random
  <2>10. CASE Recall(f)
    BY <2>10 DEF Recall
  <2> QED
    BY <2>1, <2>2, <2>3, <2>4, <2>5, <2>6, <2>7, <2>8, <2>9, <2>10
<1> QED
  BY <1>2, <1>3, YieldMoves

\* NOP, HALT and the end of the trace.
LEMMA PlainMoves ==
  ASSUME FramesOK, NEW f \in DOMAIN frames, Nop(f) \/ Finished(f)
  PROVE  Moves(f)
<1>1. CASE Nop(f)
  <2>1. On(f, {"NOP"}) /\ Continue(f, M(f))
    BY <1>1 DEF Nop
  <2> QED
    BY <2>1, OnGoing, ContinueMoves
<1>2. CASE Finished(f)
  <2>1. Sound(frames[f]) /\ frames[f].status # "invalid"
    BY <1>2 DEF FramesOK, ToSet, Finished, On, Runnable
  <2>2. Keeps(frames[f], Fr(f)) /\ Keeps(frames[f], frames[f])
    BY <2>1, MachineStart DEF Sound, Keeps
  <2>3. \E fr : Keeps(frames[f], fr) /\ Stop(f, fr, "halted")
    BY <1>2, <2>2 DEF Finished
  <2> QED
    BY <2>1, <2>3, StopMoves
<1> QED
  BY <1>1, <1>2

\* STORE writes to the field that its address register points to, or to its destination.
LEMMA StoreMoves ==
  ASSUME FramesOK, NEW f \in DOMAIN frames, Store(f)
  PROVE  Moves(f)
<1> DEFINE w == Read(Fr(f), S(f))
           to == Resolve(Fr(f), D(f))
           valid == /\ CanRead(Fr(f), S(f))
                    /\ IF IsAddressRegister(D(f))
                       THEN ValidAddress(to) /\ IsAttribute(to) /\ HasField(to)
                       ELSE CanWrite(D(f), w)
           m == IF valid THEN Write(M(f), to, w) ELSE M(f)
           done == IF D(f) = Control(ResultSuccess) THEN m
                   ELSE [m EXCEPT !.frame = With(@, ResultSuccess, Bit(valid))]
<1>1. On(f, {"STORE"}) /\ IF valid THEN Continue(f, done) ELSE Stop(f, done.frame, "fault")
  BY Zenon DEF Store
<1>2. Going(f) /\ Machine(frames[f], M(f))
  BY <1>1, OnGoing
<1>3. Machine(frames[f], m)
  <2>1. CASE valid
    <3>1. Fits(to, w)
      <4>1. CASE IsAddressRegister(D(f))
        BY <2>1, <4>1, KindsDiffer DEF Fits, IsAttribute, IsAddressRegister, IsFlagRegister, IsBank
      <4>2. CASE ~IsAddressRegister(D(f))
        BY <2>1, <4>2 DEF CanWrite, Resolve
      <4> QED
        BY <4>1, <4>2
    <3> QED
      BY <1>2, <2>1, <3>1, MachineWrite
  <2>2. CASE ~valid
    BY <1>2, <2>2
  <2> QED
    BY <2>1, <2>2
<1>4. Machine(frames[f], done)
  <2> HIDE DEF m, valid
  <2>1. Keeps(frames[f], With(m.frame, ResultSuccess, Bit(valid)))
    BY <1>3, KeepsWith DEF Machine
  <2> QED
    BY <1>3, <2>1 DEF Machine
<1> HIDE DEF done, valid
<1>5. CASE valid
  BY <1>1, <1>2, <1>4, <1>5, ContinueMoves
<1>6. CASE ~valid
  BY <1>1, <1>2, <1>4, <1>6, StopMoves DEF Machine, Going, Runnable
<1> QED
  BY <1>5, <1>6

\* SWAP exchanges two cells of one bank, so each word fits where it goes.
LEMMA SwapMoves ==
  ASSUME FramesOK, NEW f \in DOMAIN frames, Swap(f)
  PROVE  Moves(f)
<1> DEFINE d == D(f)
           s == S(f)
           fr == Fr(f)
<1>1. On(f, {"SWAP"})
  BY DEF Swap
<1>2. Going(f) /\ Keeps(frames[f], fr) /\ Machine(frames[f], M(f))
  BY <1>1, OnGoing
<1>3. d \in Word /\ s \in Word
  BY <1>1, Fetched DEF On
<1>4. CASE /\ IsRegister(d) /\ IsRegister(s) /\ BankOf(d) = BankOf(s)
           /\ CanRead(fr, d) /\ CanRead(fr, s)
  <2>1. Continue(f, Write(Write(M(f), d, Cell(fr, s)), s, Cell(fr, d)))
    BY <1>4, Zenon DEF Swap
  <2>2. IndexOf(d) \in Indices /\ IndexOf(s) \in Indices
    BY <1>3, IndexInBank
  <2>3. ASSUME NEW o, NEW o2, IsRegister(o), IsRegister(o2), BankOf(o) = BankOf(o2),
               CanRead(fr, o2), IndexOf(o2) \in Indices
        PROVE  Fits(o, Cell(fr, o2))
    <3>1. BanksOK(fr)
      BY <1>2 DEF Keeps
    <3>2. CASE IsAddressRegister(o)
      <4>1. IsAddressRegister(o2)
        BY <2>3, <3>2 DEF IsAddressRegister, IsBank
      <4>2. Cell(fr, o2) = fr.address[IndexOf(o2)]
        BY <4>1, KindsDiffer DEF Cell
      <4>3. ~IsNone(Cell(fr, o2))
        BY <2>3, <4>1 DEF CanRead, IsCell
      <4>4. ValidAddress(Cell(fr, o2))
        BY <2>3, <3>1, <4>2, <4>3, NoneIsNone DEF BanksOK, AddressWord
      <4> QED
        BY <3>2, <4>4, KindsDiffer DEF Fits
    <3>3. CASE IsFlagRegister(o)
      <4>1. IsFlagRegister(o2)
        BY <2>3, <3>3 DEF IsFlagRegister, IsBank
      <4>2. Cell(fr, o2) = fr.flag[IndexOf(o2)]
        BY <4>1, KindsDiffer DEF Cell
      <4>3. ~IsNone(Cell(fr, o2))
        BY <2>3, <4>1 DEF CanRead, IsCell
      <4>4. FlagWord(Cell(fr, o2)) /\ Cell(fr, o2) # None
        BY <2>3, <3>1, <4>2, <4>3, NoneIsNone DEF BanksOK
      <4> QED
        BY <3>3, <4>4, KindsDiffer DEF Fits, FlagWord
    <3> QED
      BY <3>2, <3>3 DEF Fits
  <2>4. Machine(frames[f], Write(M(f), d, Cell(fr, s)))
    BY <1>2, <1>4, <2>2, <2>3, MachineWrite
  <2>5. Machine(frames[f], Write(Write(M(f), d, Cell(fr, s)), s, Cell(fr, d)))
    BY <1>4, <2>2, <2>3, <2>4, MachineWrite
  <2> QED
    BY <1>2, <2>1, <2>5, ContinueMoves
<1>5. CASE \E status : Stop(f, fr, status)
  BY <1>2, <1>5, StopMoves DEF Going, Runnable
<1> QED
  BY <1>4, <1>5 DEF Swap

\* The target of a branch, a registration or a handler is in the trace.
LEMMA TargetInTrace ==
  ASSUME FramesOK, NEW f \in DOMAIN frames, Runnable(f),
         frames[f].pc < Len(frames[f].program)
  PROVE  /\ OpcodeOf(I(f)) \in {"JUMP", "SCHEDULE", "SUBSCRIBE"} =>
              ImmediateValue(S(f)) \in 0 .. Len(frames[f].program)
         /\ OpcodeOf(I(f)) = "JUMPIF" =>
              ImmediateValue(T(f)) \in 0 .. Len(frames[f].program)
<1>1. /\ Targets(I(f)) \subseteq 0 .. Len(frames[f].program) - 1
      /\ Len(frames[f].program) \in Nat
  BY Fetched
<1>2. ASSUME OpcodeOf(I(f)) \in {"JUMP", "SCHEDULE", "SUBSCRIBE"}
      PROVE  ImmediateValue(S(f)) \in Targets(I(f))
  BY <1>2 DEF Targets, S
<1>3. ASSUME OpcodeOf(I(f)) = "JUMPIF"
      PROVE  ImmediateValue(T(f)) \in Targets(I(f))
  BY <1>3 DEF Targets, T
<1> QED
  BY <1>1, <1>2, <1>3

\* JUMP and JUMPIF.
LEMMA BranchMoves ==
  ASSUME FramesOK, NEW f \in DOMAIN frames, Branch(f)
  PROVE  Moves(f)
<1>1. On(f, {"JUMP", "JUMPIF"})
  BY DEF Branch
<1>2. Going(f) /\ Keeps(frames[f], Fr(f)) /\ Machine(frames[f], M(f))
  BY <1>1, OnGoing
<1>3. Sound(frames[f]) /\ frames[f].status # "invalid" /\ frames[f].decision = <<>>
  BY <1>2 DEF Going, Runnable
<1>4. /\ BanksOK(M(f).frame) /\ M(f).frame.program = frames[f].program
      /\ M(f).frame.decision = <<>> /\ M(f).frame.answer = <<>>
  BY <1>2, <1>3 DEF Machine, Keeps, Sound, QuestionOK
<1>5. \/ \E pc \in 0 .. Len(frames[f].program) : Goto(f, M(f), pc)
      \/ Continue(f, M(f))
      \/ \E status : Stop(f, Fr(f), status)
  <2>1. CASE OpcodeOf(I(f)) = "JUMP"
    BY <1>1, <2>1, TargetInTrace DEF Branch, On
  <2>2. CASE OpcodeOf(I(f)) = "JUMPIF"
    BY <1>1, <2>2, TargetInTrace DEF Branch, On
  <2> QED
    BY <1>1, <2>1, <2>2 DEF On
<1> QED
  BY <1>2, <1>3, <1>4, <1>5, GotoMoves, ContinueMoves, StopMoves

\* COUNT and ENUMERATE: the handle of the new collection goes to a value register.
LEMMA QueryMoves ==
  ASSUME FramesOK, NEW f \in DOMAIN frames, Query(f)
  PROVE  Moves(f)
<1>1. On(f, {"COUNT", "ENUMERATE"})
  BY DEF Query
<1>2. Going(f) /\ Keeps(frames[f], Fr(f)) /\ Machine(frames[f], M(f))
  BY <1>1, OnGoing
<1>3. CASE \E status : Stop(f, Fr(f), status)
  BY <1>2, <1>3, StopMoves DEF Going, Runnable
<1>4. CASE \E w : Yield(f, TRUE, w)
  BY <1>2, <1>4, YieldMoves
<1>5. CASE /\ OpcodeOf(I(f)) = "ENUMERATE"
           /\ \E members, handle :
                Continue(f, Write([M(f) EXCEPT !.frame.collections = Append(@, members)],
                                  D(f), handle))
  <2>1. PICK members, handle :
          Continue(f, Write([M(f) EXCEPT !.frame.collections = Append(@, members)], D(f), handle))
    BY <1>5
  <2> DEFINE added == [M(f) EXCEPT !.frame.collections = Append(@, members)]
  <2>2. Machine(frames[f], added)
    BY <1>2 DEF Machine, Keeps, BanksOK, FrameFields
  <2>3. ValidForm("ENUMERATE", Sub(I(f)), D(f), S(f), T(f))
    BY <1>1, <1>5, Fetched DEF On, ValidInstruction, D, S, T
  <2>4. IsValueRegister(D(f))
    BY <2>3 DEF ValidForm
  <2>5. Fits(D(f), handle)
    BY <2>4, KindsDiffer DEF Fits
  <2> QED
    BY <1>2, <2>1, <2>2, <2>5, MachineWrite, ContinueMoves
<1> QED
  BY <1>1, <1>3, <1>4, <1>5, Zenon DEF Query, On

\* APPEND changes a collection only.
LEMMA AppendMoves ==
  ASSUME FramesOK, NEW f \in DOMAIN frames, AppendTo(f)
  PROVE  Moves(f)
<1>1. On(f, {"APPEND"})
  BY DEF AppendTo
<1>2. Going(f) /\ Keeps(frames[f], Fr(f)) /\ Machine(frames[f], M(f))
  BY <1>1, OnGoing
<1>3. CASE Stop(f, Fr(f), "fault")
  BY <1>2, <1>3, StopMoves DEF Going, Runnable
<1>4. CASE \E at, object :
             Continue(f, [M(f) EXCEPT !.frame.collections[at] = Append(@, object)])
  <2>1. PICK at, object : Continue(f, [M(f) EXCEPT !.frame.collections[at] = Append(@, object)])
    BY <1>4
  <2>2. Machine(frames[f], [M(f) EXCEPT !.frame.collections[at] = Append(@, object)])
    BY <1>2 DEF Machine, Keeps, BanksOK, FrameFields
  <2> QED
    BY <1>2, <2>1, <2>2, ContinueMoves
<1> QED
  BY <1>3, <1>4, Zenon DEF AppendTo

\* CHOOSE asks: the question carries the pc of its instruction.
LEMMA AskMoves ==
  ASSUME FramesOK, NEW f \in DOMAIN frames, Ask(f)
  PROVE  Moves(f)
<1>1. On(f, {"CHOOSE"}) /\ frames[f].decision = <<>>
  BY DEF Ask
<1>2. Sound(frames[f]) /\ frames[f].status # "invalid"
  BY <1>1, Fetched DEF On
<1>3. Keeps(frames[f], Fr(f))
  BY <1>2, MachineStart DEF Sound
<1>4. CASE Stop(f, Fr(f), "fault")
  BY <1>2, <1>3, <1>4, StopMoves
<1>5. CASE \E decision : /\ decision.pc = Fr(f).pc
                         /\ Stop(f, [Fr(f) EXCEPT !.decision = <<decision>>], "waiting")
  <2>1. PICK decision : /\ decision.pc = Fr(f).pc
                        /\ Stop(f, [Fr(f) EXCEPT !.decision = <<decision>>], "waiting")
    BY <1>5
  <2> DEFINE fr == [[Fr(f) EXCEPT !.decision = <<decision>>] EXCEPT !.status = "waiting"]
  <2>2. frames' = [frames EXCEPT ![f] = fr]
    BY <2>1 DEF Stop
  <2>3. /\ BanksOK(fr) /\ fr.pc = frames[f].pc /\ fr.program = frames[f].program
        /\ fr.decision = <<decision>> /\ fr.answer = frames[f].answer
    BY <1>3 DEF Keeps, BanksOK, FrameFields
  <2>4. PlaceOK(fr)
    BY <1>2, <2>3 DEF Sound, PlaceOK
  <2>5. frames[f].answer = <<>>
    BY <1>1, <1>2 DEF Sound, QuestionOK
  <2>6. fr.decision # <<>> /\ fr.decision[1].pc = fr.pc
    BY <1>3, <2>1, <2>3 DEF Keeps
  <2>7. frames[f].pc < Len(frames[f].program) /\ OpcodeOf(frames[f].program[frames[f].pc + 1]) = "CHOOSE"
    BY <1>1 DEF On, I
  <2>8. QuestionOK(fr)
    BY <2>3, <2>5, <2>6, <2>7 DEF QuestionOK
  <2> QED
    BY <2>2, <2>3, <2>4, <2>8 DEF Moves, Sound
<1> QED
  <2> DEFINE decision == [pc |-> Fr(f).pc, player |-> Number(Fr(f), T(f)),
        count |-> IF IsAddressRegister(D(f)) THEN Len(Collection(Fr(f), S(f)))
                  ELSE Number(Fr(f), S(f)),
        candidates |-> IF IsAddressRegister(D(f)) THEN Collection(Fr(f), S(f)) ELSE <<>>]
  <2>1. decision.pc = Fr(f).pc
    OBVIOUS
  <2> QED
    BY <1>4, <1>5, <2>1 DEF Ask

\* CHOOSE resumes: it forgets the question when it goes on, and keeps it otherwise.
LEMMA ResumeMoves ==
  ASSUME FramesOK, NEW f \in DOMAIN frames, Resume(f)
  PROVE  Moves(f)
<1>1. On(f, {"CHOOSE"})
  BY DEF Resume
<1>2. Sound(frames[f]) /\ frames[f].status # "invalid"
  BY <1>1, Fetched DEF On
<1>3. Keeps(frames[f], Fr(f)) /\ Machine(frames[f], M(f))
  BY <1>2, MachineStart DEF Sound
<1>4. CASE \E status : Stop(f, Fr(f), status)
  BY <1>2, <1>3, <1>4, StopMoves
<1>5. CASE \E w : /\ CanWrite(D(f), w)
                  /\ Continue(f, [Write(M(f), D(f), w) EXCEPT !.frame = Forget(@)])
  <2>1. PICK w : /\ CanWrite(D(f), w)
                 /\ Continue(f, [Write(M(f), D(f), w) EXCEPT !.frame = Forget(@)])
    BY <1>5
  <2> DEFINE m == Write(M(f), D(f), w)
             m2 == [m EXCEPT !.frame = Forget(@)]
  <2>2. Machine(frames[f], m)
    BY <1>3, <2>1, MachineWrite DEF CanWrite
  <2> HIDE DEF m
  <2>3. m2.frame = Forget(m.frame)
    BY <2>2 DEF Machine
  <2>4. /\ BanksOK(m2.frame) /\ m2.frame.program = frames[f].program
        /\ m2.frame.decision = <<>> /\ m2.frame.answer = <<>>
    BY <2>2, <2>3 DEF Machine, Keeps, Forget, BanksOK, FrameFields
  <2>5. Goto(f, m2, frames[f].pc + 1)
    BY <2>1 DEF Continue, m
  <2>6. frames[f].pc + 1 \in 0 .. Len(frames[f].program)
    BY <1>1, <1>2, Fetched DEF On, Sound, PlaceOK
  <2> HIDE DEF m2
  <2> QED
    BY <1>2, <2>4, <2>5, <2>6, GotoMoves
<1> QED
  BY <1>4, <1>5, Zenon DEF Resume

\* Frame::Answer gives an answer that the question offers.
LEMMA AnswerMoves ==
  ASSUME FramesOK, NEW f \in DOMAIN frames, NEW index, AnswerWith(f, index)
  PROVE  Moves(f)
<1> DEFINE fr == [frames[f] EXCEPT !.answer = <<index>>]
<1>1. frames' = [frames EXCEPT ![f] = fr]
  BY DEF AnswerWith
<1>2. Sound(frames[f])
  BY DEF FramesOK, ToSet
<1>3. /\ BanksOK(fr) /\ fr.pc = frames[f].pc /\ fr.program = frames[f].program
      /\ fr.decision = frames[f].decision /\ fr.status = frames[f].status
      /\ fr.answer = <<index>>
  BY <1>2 DEF Sound, BanksOK, FrameFields
<1>4. frames[f].decision # <<>> /\ index < frames[f].decision[1].count
  BY DEF AnswerWith
<1>5. \A n \in DOMAIN <<index>> : <<index>>[n] = index
  OBVIOUS
<1>6. QuestionOK(fr)
  BY <1>2, <1>3, <1>4, <1>5 DEF Sound, QuestionOK
<1> QED
  BY <1>1, <1>2, <1>3, <1>6 DEF Moves, Sound, PlaceOK

-----------------------------------------------------------------------------
(* Events, registrations and movement.                                     *)

\* What a MOVE writes about itself.
LEMMA ResultsKept ==
  ASSUME NEW fr, NEW fr2, Keeps(fr, fr2), NEW count, NEW success
  PROVE  Keeps(fr, With(With(fr2, ResultCount, count), ResultSuccess, success))
BY KeepsWith

\* MOVE goes on, or faults with what has moved.
LEMMA MoveMoves ==
  ASSUME FramesOK, NEW f \in DOMAIN frames, Move(f)
  PROVE  Moves(f)
<1>1. On(f, {"MOVE"}) /\ \E to, wanted, valid : MoveAll(f, to, wanted, valid)
  BY Zenon DEF Move
<1>2. Going(f) /\ Keeps(frames[f], Fr(f))
  BY <1>1, OnGoing
<1>3. PICK to, wanted, valid : MoveAll(f, to, wanted, valid)
  BY <1>1
<1>4. \E count, success :
        LET after == With(With(Fr(f), ResultCount, count), ResultSuccess, success)
        IN  \/ Continue(f, [frame |-> after, fields |-> fields])
            \/ Stop(f, after, "fault")
  BY <1>3, Zenon DEF MoveAll
<1>5. PICK count, success :
        LET after == With(With(Fr(f), ResultCount, count), ResultSuccess, success)
        IN  \/ Continue(f, [frame |-> after, fields |-> fields])
            \/ Stop(f, after, "fault")
  BY <1>4
<1> DEFINE after == With(With(Fr(f), ResultCount, count), ResultSuccess, success)
<1>6. Keeps(frames[f], after)
  BY <1>2, ResultsKept
<1> HIDE DEF after
<1>7. Machine(frames[f], [frame |-> after, fields |-> fields])
  BY <1>6 DEF Machine
<1>8. \/ Continue(f, [frame |-> after, fields |-> fields])
      \/ Stop(f, after, "fault")
  BY <1>5 DEF after
<1> QED
  BY <1>2, <1>6, <1>7, <1>8, ContinueMoves, StopMoves DEF Going, Runnable

\* SUBSCRIBE and SCHEDULE yield the new id.
LEMMA RegisterMoves ==
  ASSUME FramesOK, NEW f \in DOMAIN frames, Register(f)
  PROVE  Moves(f)
<1>1. On(f, {"SCHEDULE", "SUBSCRIBE"}) /\ \E valid : Yield(f, valid, Imm(next))
  BY DEF Register
<1> QED
  BY <1>1, OnGoing, YieldMoves

\* CANCEL writes RESULT_SUCCESS.
LEMMA CancelMoves ==
  ASSUME FramesOK, NEW f \in DOMAIN frames, Cancel(f)
  PROVE  Moves(f)
<1>1. On(f, {"CANCEL"})
  BY DEF Cancel
<1>2. Going(f) /\ Keeps(frames[f], Fr(f)) /\ Machine(frames[f], M(f))
  BY <1>1, OnGoing
<1>3. CASE Stop(f, Fr(f), "fault")
  BY <1>2, <1>3, StopMoves DEF Going, Runnable
<1>4. CASE \E bit : Continue(f, [M(f) EXCEPT !.frame = With(@, ResultSuccess, bit)])
  <2>1. PICK bit : Continue(f, [M(f) EXCEPT !.frame = With(@, ResultSuccess, bit)])
    BY <1>4
  <2>2. Machine(frames[f], [M(f) EXCEPT !.frame = With(@, ResultSuccess, bit)])
    BY <1>2, KeepsWith DEF Machine
  <2> QED
    BY <1>2, <2>1, <2>2, ContinueMoves
<1> QED
  BY <1>3, <1>4, Zenon DEF Cancel

\* EVENT goes on or faults.
LEMMA AnnounceMoves ==
  ASSUME FramesOK, NEW f \in DOMAIN frames, Announce(f)
  PROVE  Moves(f)
<1>1. On(f, {"EVENT"}) /\ (Continue(f, M(f)) \/ Stop(f, Fr(f), "fault"))
  BY Zenon DEF Announce
<1>2. Going(f) /\ Keeps(frames[f], Fr(f)) /\ Machine(frames[f], M(f))
  BY <1>1, OnGoing
<1> QED
  BY <1>1, <1>2, ContinueMoves, StopMoves DEF Going, Runnable

\* Every instruction moves its frame from sound to sound.
LEMMA StepMoves ==
  ASSUME FramesOK, NEW f \in DOMAIN frames, Step(f)
  PROVE  Moves(f)
BY YieldingMoves, PlainMoves, StoreMoves, SwapMoves, BranchMoves, QueryMoves, AppendMoves,
   AskMoves, ResumeMoves, MoveMoves, RegisterMoves, CancelMoves, AnnounceMoves DEF Step

\* There are finitely many subscribers.
LEMMA SubscribersFinite ==
  ASSUME EntriesOK, NEW kind
  PROVE  Cardinality(Subscribers(kind)) \in Nat /\ Subscribers(kind) \subseteq DOMAIN entries
<1>1. Subscribers(kind) \subseteq DOMAIN entries
  BY DEF Subscribers
<1>2. IsFiniteSet(1 .. next - 1)
  BY FS_Interval DEF EntriesOK
<1>3. IsFiniteSet(Subscribers(kind))
  BY <1>1, <1>2, FS_Subset DEF EntriesOK
<1> QED
  BY <1>1, <1>3, FS_CardinalityType

\* A captured frame that an event queues differs in its event cells only.
LEMMA CopyKeeps ==
  ASSUME NEW id, Captive(entries[id].frame), NEW e
  PROVE  Captive(Copy(id, e)) /\ Copy(id, e).program = entries[id].frame.program
<1> DEFINE old == entries[id].frame
           fr == Copy(id, e)
<1>1. /\ BanksOK(fr) /\ fr.pc = old.pc /\ fr.program = old.program /\ fr.status = old.status
      /\ fr.decision = old.decision /\ fr.answer = old.answer
  BY DEF Copy, Captive, Sound, BanksOK, FrameFields
<1> QED
  BY <1>1 DEF Captive, Sound, PlaceOK, QuestionOK

\* A quotient stays below the count that it is a part of.
LEMMA QuotientBelow ==
  ASSUME NEW k \in Nat \ {0}, NEW count \in Nat, NEW x \in 0 .. count * k - 1
  PROVE  x \div k \in 0 .. count - 1
<1> DEFINE q == x \div k
           r == x % k
<1>1. r \in 0 .. k - 1 /\ q \in Int /\ x = k * q + r
  OBVIOUS
<1> HIDE DEF q, r
<1>2. CASE q <= -1
  <2>1. k * q <= -k
    BY <1>1, <1>2
  <2> QED
    BY <1>1, <2>1
<1>3. CASE q >= count
  <2>1. k * q >= count * k
    BY <1>1, <1>3
  <2> QED
    BY <1>1, <2>1
<1> QED
  BY <1>1, <1>2, <1>3 DEF q

\* Events queue copies of captured frames.
LEMMA Delivered ==
  ASSUME EntriesOK, NEW kind, NEW events, Len(events) \in Nat, Deliver(kind, events)
  PROVE  \E copies : /\ ready' = ready \o copies /\ copies \in Seq(ToSet(copies))
                     /\ \A fr \in ToSet(copies) :
                          \E id \in DOMAIN entries, n \in 1 .. Len(events) : fr = Copy(id, events[n])
<1> DEFINE ids0 == Subscribers(kind)
<1>1. PICK ids \in InOrder(ids0) : ready' = ready \o Copies(ids, events)
  BY DEF Deliver
<1> DEFINE k == Cardinality(ids0)
           copies == Copies(ids, events)
           Elements == {Copy(id, e) : id \in ids0, e \in {events[n] : n \in 1 .. Len(events)}}
<1>2. k \in Nat /\ ids0 \subseteq DOMAIN entries
  BY SubscribersFinite
<1>3. ids \in [1 .. k -> ids0]
  BY <1>1 DEF InOrder
<1>4. Len(ids) = k
  BY <1>2, <1>3
<1>5. Len(events) * k \in Nat
  BY <1>2
<1>6. ASSUME NEW n \in 1 .. Len(events) * k
      PROVE  Copy(ids[((n - 1) % k) + 1], events[(n - 1) \div k + 1]) \in Elements
  <2>1. k # 0
    BY <1>2, <1>6
  <2>2. ((n - 1) % k) + 1 \in 1 .. k
    BY <1>2, <2>1
  <2>3. (n - 1) \div k + 1 \in 1 .. Len(events)
    <3>1. PICK l \in Nat \ {0} : l = k
      BY <1>2, <2>1
    <3>2. PICK count \in Nat : count = Len(events)
      OBVIOUS
    <3>3. PICK x \in 0 .. count * l - 1 : x = n - 1
      BY <1>6, <3>1, <3>2
    <3>4. x \div l \in 0 .. count - 1
      BY QuotientBelow
    <3> QED
      BY <3>1, <3>2, <3>3, <3>4
  <2> QED
    BY <1>3, <2>2, <2>3
<1>7. copies \in [1 .. Len(events) * k -> Elements]
  BY <1>4, <1>6 DEF Copies
<1>8. copies \in Seq(Elements)
  BY <1>5, <1>7, SeqDef
<1>9. \A fr \in Elements : \E id \in DOMAIN entries, n \in 1 .. Len(events) : fr = Copy(id, events[n])
  BY <1>2
<1>10. ready' = ready \o copies
  BY <1>1
<1> HIDE DEF copies, Elements
<1>11. copies \in Seq(ToSet(copies)) /\ ToSet(copies) \subseteq Elements
  BY <1>8, OwnElements
<1> QED
  BY <1>9, <1>10, <1>11

\* So what is queued is captive.
LEMMA DeliverReady ==
  ASSUME ReadyOK, EntriesOK, NEW kind, NEW events, Len(events) \in Nat, Deliver(kind, events)
  PROVE  ReadyOK'
<1>1. PICK copies : /\ ready' = ready \o copies /\ copies \in Seq(ToSet(copies))
                    /\ \A fr \in ToSet(copies) :
                         \E id \in DOMAIN entries, n \in 1 .. Len(events) : fr = Copy(id, events[n])
  BY Delivered
<1>2. \A fr \in ToSet(copies) : Captive(fr)
  BY <1>1, CopyKeeps DEF EntriesOK
<1>3. ready' \in Seq(ToSet(ready')) /\ ToSet(ready') \subseteq ToSet(ready) \cup ToSet(copies)
  BY <1>1, ConcatElements DEF ReadyOK
<1>4. (ToSet(ready))' = ToSet(ready')
  BY DEF ToSet
<1> QED
  BY <1>2, <1>3, <1>4 DEF ReadyOK

\* A frame that registers is captured at its target, without a question.
LEMMA CapturedIsCaptive ==
  ASSUME FramesOK, NEW f \in DOMAIN frames, On(f, {"SCHEDULE", "SUBSCRIBE"})
  PROVE  Captive(Captured(f)) /\ Captured(f).program = frames[f].program
<1>1. Going(f) /\ Keeps(frames[f], Fr(f))
  BY OnGoing
<1> DEFINE held == IF IsValueRegister(D(f)) THEN SetCell(Fr(f), D(f), Imm(next)) ELSE Fr(f)
<1>2. Keeps(frames[f], held)
  <2>1. ASSUME IsValueRegister(D(f)) PROVE IsCell(D(f)) /\ Fits(D(f), Imm(next))
    BY <2>1, KindsDiffer DEF IsCell, Fits
  <2> QED
    BY <1>1, <2>1, KeepsCell
<1>3. ImmediateValue(S(f)) \in 0 .. Len(frames[f].program)
  BY <1>1, TargetInTrace DEF On, Going
<1>4. Captured(f) = [Forget(held) EXCEPT !.pc = ImmediateValue(S(f)), !.status = "running"]
  BY DEF Captured
<1> HIDE DEF held
<1> DEFINE fr == [Forget(held) EXCEPT !.pc = ImmediateValue(S(f)), !.status = "running"]
<1>5. /\ BanksOK(fr) /\ fr.pc = ImmediateValue(S(f)) /\ fr.program = frames[f].program
      /\ fr.decision = <<>> /\ fr.answer = <<>>
  BY <1>2 DEF Keeps, BanksOK, FrameFields, Forget
<1>6. ValidTrace(frames[f].program)
  BY <1>1 DEF Going, Runnable, Sound, PlaceOK
<1> QED
  BY <1>3, <1>4, <1>5, <1>6 DEF Captive, Sound, PlaceOK, QuestionOK

\* What an instruction does to the queue and to the registry.
Queues == ready' = ready \/ \E kind, events : Len(events) \in Nat /\ Deliver(kind, events)
Drops ==
  /\ next' = next /\ DOMAIN entries' \subseteq DOMAIN entries
  /\ \A id \in DOMAIN entries' : entries'[id] = entries[id]
Adds(f) ==
  /\ On(f, {"SCHEDULE", "SUBSCRIBE"}) /\ next' = next + 1
  /\ DOMAIN entries' = {next} \cup DOMAIN entries
  /\ entries'[next].frame = Captured(f)
  /\ \A id \in DOMAIN entries \ {next} : entries'[id] = entries[id]

\* SUBSCRIBE and SCHEDULE add an entry under the next id.
LEMMA RegisterAdds ==
  ASSUME NEW f \in DOMAIN frames, Register(f)
  PROVE  Queues /\ (Drops \/ Adds(f))
<1>1. On(f, {"SCHEDULE", "SUBSCRIBE"}) /\ ready' = ready
  BY DEF Register
<1> DEFINE valid == IsNumber(Fr(f), T(f)) /\ Number(Fr(f), T(f)) >= 0
           kind == IF OpcodeOf(I(f)) = "SCHEDULE" THEN "time" ELSE "event"
           entry == [kind |-> kind, key |-> Number(Fr(f), T(f)), frame |-> Captured(f)]
<1>2. /\ entries' = IF valid THEN [id \in {next} \cup DOMAIN entries |->
                                     IF id = next THEN entry ELSE entries[id]] ELSE entries
      /\ next' = IF valid THEN next + 1 ELSE next
  BY Zenon DEF Register
<1> HIDE DEF valid, kind
<1>3. CASE ~valid
  BY <1>1, <1>2, <1>3 DEF Queues, Drops
<1>4. CASE valid
  <2>1. entry.frame = Captured(f)
    OBVIOUS
  <2> HIDE DEF entry
  <2>2. entries' = [id \in {next} \cup DOMAIN entries |->
                      IF id = next THEN entry ELSE entries[id]]
    BY <1>2, <1>4
  <2>3. next' = next + 1
    BY <1>2, <1>4
  <2> QED
    BY <1>1, <2>1, <2>2, <2>3 DEF Queues, Adds
<1> QED
  BY <1>3, <1>4

\* An instruction queues copies, drops entries or adds one.
LEMMA StepEffects ==
  ASSUME NEW f \in DOMAIN frames, Step(f)
  PROVE  Queues /\ (Drops \/ Adds(f))
<1>1. CASE UNCHANGED shared
  BY <1>1 DEF shared, Queues, Drops
<1>2. CASE Move(f)
  <2>1. UNCHANGED <<entries, next>> /\ \E to, wanted, valid : MoveAll(f, to, wanted, valid)
    BY <1>2, Zenon DEF Move
  <2>2. PICK to, wanted, valid : MoveAll(f, to, wanted, valid)
    BY <2>1
  <2> DEFINE kind == Enum(EventKinds, "MOVED")
             events(done) ==
               [n \in 1 .. done |->
                  [kind |-> kind, subject |-> wanted[n],
                   object |-> AddressIn(to, CardOf(wanted[n])), context |-> Operation(I(f))]]
  <2>3. PICK done \in 0 .. Len(wanted) : Deliver(kind, events(done))
    BY <2>2, Zenon DEF MoveAll
  <2>4. Len(events(done)) \in Nat
    OBVIOUS
  <2> HIDE DEF kind, events
  <2> QED
    BY <2>1, <2>3, <2>4 DEF Queues, Drops
<1>3. CASE Register(f)
  BY <1>3, RegisterAdds
<1>4. CASE Cancel(f)
  <2>1. ready' = ready /\ next' = next /\ \E id : \/ entries' = [k \in DOMAIN entries \ {id} |-> entries[k]]
                                                  \/ entries' = entries
    BY <1>4 DEF Cancel
  <2> QED
    BY <2>1 DEF Queues, Drops
<1>5. CASE Announce(f)
  <2>1. /\ UNCHANGED <<entries, next>>
        /\ ready' = ready \/ \E kind, event : Deliver(kind, <<event>>)
    BY <1>5, Zenon DEF Announce
  <2>2. ASSUME NEW event PROVE Len(<<event>>) \in Nat
    OBVIOUS
  <2> QED
    BY <2>1, <2>2 DEF Queues, Drops
<1>6. UNCHANGED shared \/ Move(f) \/ Register(f) \/ Cancel(f) \/ Announce(f)
  BY DEF Step, Nop, Finished, Set, Select, Load, Store, Swap, Attribute, Compute, Compare,
         Branch, Query, At, AppendTo, Length, Ask, Resume, Random, Recall
<1> QED
  BY <1>1, <1>2, <1>3, <1>4, <1>5, <1>6

\* What an instruction queues and registers is captive.
LEMMA StepShared ==
  ASSUME IInv, NEW f \in DOMAIN frames, Step(f)
  PROVE  ReadyOK' /\ EntriesOK'
<1>1. Queues /\ (Drops \/ Adds(f))
  BY StepEffects
<1>2. ReadyOK'
  BY <1>1, DeliverReady DEF Queues, IInv, ReadyOK
<1>3. CASE Drops
  BY <1>2, <1>3 DEF Drops, IInv, EntriesOK
<1>4. CASE Adds(f)
  <2>1. Captive(Captured(f))
    BY <1>4, CapturedIsCaptive DEF IInv, Adds
  <2>2. next \in Nat \ {0} /\ DOMAIN entries \subseteq 1 .. next - 1
    BY DEF IInv, EntriesOK
  <2>3. next' \in Nat \ {0} /\ DOMAIN entries' \subseteq 1 .. next' - 1
    BY <1>4, <2>2 DEF Adds
  <2>4. \A id \in DOMAIN entries' : Captive(entries'[id].frame)
    BY <1>4, <2>1 DEF Adds, IInv, EntriesOK
  <2> QED
    BY <1>2, <2>3, <2>4 DEF EntriesOK
<1> QED
  BY <1>1, <1>3, <1>4

-----------------------------------------------------------------------------
(* The inductive invariant.                                                *)

\* At first there are no frames.
LEMMA InitIInv == Init => IInv
<1> SUFFICES ASSUME Init PROVE IInv
  OBVIOUS
<1>1. frames = <<>> /\ ready = <<>> /\ entries = <<>> /\ next = 1
  BY DEF Init
<1>2. <<>> \in Seq(ToSet(<<>>)) /\ ToSet(<<>>) = {}
  BY DEF ToSet
<1>3. DOMAIN entries = {}
  BY <1>1
<1> QED
  BY <1>1, <1>2, <1>3 DEF IInv, FramesOK, ReadyOK, EntriesOK

\* The frames, the queue and the registry are all that the invariant is about.
LEMMA UnchangedIInv ==
  ASSUME IInv, frames' = frames, ready' = ready, entries' = entries, next' = next
  PROVE  IInv'
BY DEF IInv, FramesOK, ReadyOK, EntriesOK

\* A frame starts at pc 0 of a trace that was validated, or never runs.
LEMMA NewFrameSound ==
  ASSUME NEW trace
  PROVE  Sound(NewFrame(trace))
<1> DEFINE fr == NewFrame(trace)
<1>1. /\ DOMAIN fr = FrameFields /\ fr.program = trace /\ fr.pc = 0
      /\ fr.value = Bank /\ fr.address = Bank /\ fr.flag = Bank
      /\ fr.control = [r \in ControlCells |-> None]
      /\ fr.decision = <<>> /\ fr.answer = <<>>
      /\ fr.status # "invalid" => ValidTrace(trace)
  BY DEF NewFrame, FrameFields
<1>2. BanksOK(fr)
  BY <1>1 DEF BanksOK, Bank, Indices, AddressWord, FlagWord
<1>3. ASSUME ValidTrace(trace) PROVE 0 \in 0 .. Len(trace)
  BY <1>3, LenProperties DEF ValidTrace, Traces
<1> QED
  BY <1>1, <1>2, <1>3 DEF Sound, PlaceOK, QuestionOK

\* The host starts a frame for each program.
LEMMA LaunchIInv ==
  ASSUME IInv, NEW route, Launch(route)
  PROVE  IInv'
<1> DEFINE fr(n) == NewFrame(Carried(route, result.programs[n].trace))
           count == Len(result.programs)
           Elements == {fr(n) : n \in 1 .. count}
<1>1. frames' = [n \in 1 .. count |-> fr(n)] /\ count \in Nat
  BY InterpreterAssumption DEF Launch
<1>2. \A x \in Elements : Sound(x)
  BY NewFrameSound
<1> HIDE DEF fr
<1>3. frames' \in Seq(Elements)
  BY <1>1, SeqDef
<1> HIDE DEF Elements, count
<1>4. frames' \in Seq(ToSet(frames')) /\ ToSet(frames') \subseteq Elements
  BY <1>3, OwnElements
<1>5. (ToSet(frames))' = ToSet(frames')
  BY DEF ToSet
<1>6. FramesOK'
  BY <1>2, <1>4, <1>5 DEF FramesOK
<1>7. ready' = ready /\ entries' = entries /\ next' = next
  BY DEF Launch
<1> QED
  BY <1>6, <1>7 DEF IInv, ReadyOK, EntriesOK

\* The frames that the host takes are sound.
LEMMA TakeIInv ==
  ASSUME IInv, TakeReady
  PROVE  IInv'
<1>1. /\ frames' = frames \o ready /\ ready' = <<>>
      /\ entries' = entries /\ next' = next
  BY DEF TakeReady
<1>2. /\ frames' \in Seq(ToSet(frames'))
      /\ ToSet(frames') \subseteq ToSet(frames) \cup ToSet(ready)
  BY <1>1, ConcatElements DEF IInv, FramesOK, ReadyOK
<1>3. (ToSet(frames))' = ToSet(frames') /\ (ToSet(ready))' = ToSet(ready')
  BY DEF ToSet
<1>4. FramesOK'
  BY <1>2, <1>3 DEF IInv, FramesOK, ReadyOK, Captive
<1>5. <<>> \in Seq(ToSet(<<>>)) /\ ToSet(<<>>) = {}
  BY DEF ToSet
<1>6. ReadyOK'
  BY <1>1, <1>3, <1>5 DEF ReadyOK
<1> QED
  BY <1>1, <1>4, <1>6 DEF IInv, EntriesOK

\* Every step keeps the frames sound and what is queued and registered captive.
LEMMA NextIInv ==
  ASSUME IInv, [Next]_vars
  PROVE  IInv'
<1>1. CASE UNCHANGED vars
  BY <1>1, UnchangedIInv DEF vars, machine, shared
<1>2. CASE \E alphabet \in Alphabets : \E line \in alphabet :
             ToSet(source) \subseteq alphabet /\ Type(line)
  BY <1>2, UnchangedIInv DEF Type, machine, shared
<1>3. CASE \E p \in Plans : Build(p)
  BY <1>3, UnchangedIInv DEF Build
<1>4. CASE \E route \in Routes : Launch(route)
  BY <1>4, LaunchIInv
<1>5. CASE \E f \in DOMAIN frames : Run(f)
  <2>1. PICK f \in DOMAIN frames : Step(f)
    BY <1>5 DEF Run
  <2>2. FramesOK'
    BY <2>1, StepMoves, MovesSound DEF IInv
  <2> QED
    BY <2>1, <2>2, StepShared DEF IInv
<1>6. CASE \E f \in DOMAIN frames : \E index \in 0 .. Offered(f) - 1 : Answer(f, index)
  <2>1. PICK f \in DOMAIN frames : \E index \in 0 .. Offered(f) - 1 : AnswerWith(f, index)
    BY <1>6 DEF Answer
  <2>2. FramesOK'
    BY <2>1, AnswerMoves, MovesSound DEF IInv
  <2>3. ready' = ready /\ entries' = entries /\ next' = next
    BY <2>1 DEF AnswerWith, shared
  <2> QED
    BY <2>2, <2>3 DEF IInv, ReadyOK, EntriesOK
<1>7. CASE PostNext
  <2>1. PICK kind, event : Deliver(kind, <<event>>) /\ frames' = frames
                           /\ entries' = entries /\ next' = next
    BY <1>7 DEF PostNext, Post
  <2>2. Len(<<event>>) \in Nat
    OBVIOUS
  <2>3. ReadyOK'
    BY <2>1, <2>2, DeliverReady DEF IInv
  <2> QED
    BY <2>1, <2>3 DEF IInv, FramesOK, EntriesOK
<1>8. CASE Take
  BY <1>8, TakeIInv DEF Take
<1> QED
  BY <1>1, <1>2, <1>3, <1>4, <1>5, <1>6, <1>7, <1>8 DEF Next

\* The invariant holds in every reachable state.
THEOREM Inductive == Spec => []IInv
<1>1. IInv /\ [Next]_vars => IInv'
  BY NextIInv
<1> QED
  BY InitIInv, <1>1, PTL DEF Spec

-----------------------------------------------------------------------------
(* What follows from it.                                                   *)

\* Every frame that exists anywhere is sound.
LEMMA AllSound ==
  ASSUME IInv, NEW fr \in AllFrames
  PROVE  Sound(fr)
BY DEF IInv, AllFrames, Captures, FramesOK, ReadyOK, EntriesOK, Captive

\* Whatever an instruction, an event or an answer writes, the banks of every frame hold what
\* belongs in them (WriteOperand).
THEOREM TypeCorrect == Spec => []TypeOK
<1>1. IInv => TypeOK
  BY AllSound DEF TypeOK, Sound, BanksOK, AddressWord, FlagWord
<1> QED
  BY Inductive, <1>1, PTL

\* No frame that passed validation ever leaves its trace (ValidateTrace).
THEOREM StaysInTrace == Spec => []PcInTrace
<1>1. IInv => PcInTrace
  BY AllSound DEF PcInTrace, Sound, PlaceOK
<1> QED
  BY Inductive, <1>1, PTL

\* A question is open only at the instruction that asked it (CHOOSE, Register).
THEOREM QuestionsMatch == Spec => []DecisionMatchesPc
<1>1. ASSUME IInv PROVE DecisionMatchesPc
  <2>1. ASSUME NEW f \in DOMAIN frames PROVE QuestionOK(frames[f])
    BY <1>1, <2>1 DEF IInv, FramesOK, ToSet, Sound
  <2>2. ASSUME NEW fr \in ToSet(ready) \cup Captures
        PROVE  fr.decision = <<>> /\ fr.answer = <<>>
    BY <1>1, <2>2 DEF IInv, ReadyOK, EntriesOK, Captures, Captive
  <2> QED
    BY <2>1, <2>2 DEF DecisionMatchesPc, QuestionOK
<1> QED
  BY Inductive, <1>1, PTL

\* SUBSCRIBE and SCHEDULE never fault once they have registered, and leave the new id in
\* their destination and in the frame they captured (Execute, Scheduler::Register).
THEOREM RegistrationReported == Spec => RegisteredIsReported
<1> DEFINE Reported(f) ==
             /\ On(f, {"SCHEDULE", "SUBSCRIBE"}) /\ frames'[f].pc = frames[f].pc + 1
             /\ IsValueRegister(D(f))
             /\ Cell(frames'[f], D(f)) = Imm(next) /\ Cell(entries'[next].frame, D(f)) = Imm(next)
<1>1. ASSUME IInv, [Next]_vars, next' # next
      PROVE  \E f \in DOMAIN frames : Reported(f)
  <2>1. PICK f \in DOMAIN frames : Register(f)
    <3>1. ~UNCHANGED vars
      BY <1>1 DEF vars, machine, shared
    <3>2. PICK g \in DOMAIN frames : Step(g)
      BY <1>1, <3>1 DEF Next, Type, Build, Launch, Answer, AnswerWith, PostNext, Post, Take,
                        TakeReady, machine, shared, Run
    <3>3. UNCHANGED shared \/ Move(g) \/ Register(g) \/ Cancel(g) \/ Announce(g)
      BY <3>2 DEF Step, Nop, Finished, Set, Select, Load, Store, Swap, Attribute, Compute, Compare,
             Branch, Query, At, AppendTo, Length, Ask, Resume, Random, Recall
    <3>4. UNCHANGED shared \/ Move(g) \/ Cancel(g) \/ Announce(g) => next' = next
      BY DEF shared, Move, Cancel, Announce
    <3> QED
      BY <1>1, <3>3, <3>4
  <2>2. On(f, {"SCHEDULE", "SUBSCRIBE"})
    BY <2>1 DEF Register
  <2>3. Going(f) /\ Keeps(frames[f], Fr(f)) /\ ValidInstruction(I(f)) /\ D(f) \in Word
    BY <1>1, <2>2, OnGoing, Fetched DEF IInv, On
  <2>4. ValidForm(OpcodeOf(I(f)), Sub(I(f)), D(f), S(f), T(f))
    BY <2>3 DEF ValidInstruction, D, S, T
  <2>5. IsValueRegister(D(f))
    BY <2>2, <2>4 DEF ValidForm, Registers, On
  <2>6. IndexOf(D(f)) \in Indices
    BY <2>3, IndexInBank
  <2>7. CanWrite(D(f), Imm(next))
    BY <2>5, KindsDiffer DEF CanWrite, Fits, IsCell
  <2> DEFINE valid == IsNumber(Fr(f), T(f)) /\ Number(Fr(f), T(f)) >= 0
             kind == IF OpcodeOf(I(f)) = "SCHEDULE" THEN "time" ELSE "event"
             entry == [kind |-> kind, key |-> Number(Fr(f), T(f)), frame |-> Captured(f)]
  <2>8. /\ Yield(f, valid, Imm(next))
        /\ entries' = IF valid THEN [id \in {next} \cup DOMAIN entries |->
                                       IF id = next THEN entry ELSE entries[id]] ELSE entries
        /\ next' = IF valid THEN next + 1 ELSE next
    BY <2>1, Zenon DEF Register
  <2>9. valid
    BY <1>1, <2>8
  <2> HIDE DEF valid, kind
  <2>10. Continue(f, Write(M(f), D(f), Imm(next)))
    BY <2>7, <2>8, <2>9 DEF Yield
  <2> DEFINE held == SetCell(Fr(f), D(f), Imm(next))
  <2>11. Write(M(f), D(f), Imm(next)).frame = held
    BY <2>5 DEF Write, IsCell, M
  <2>12. held = [Fr(f) EXCEPT !.value[IndexOf(D(f))] = Imm(next)]
    BY <2>5, KindsDiffer DEF SetCell
  <2>13. BanksOK(held) /\ held.value[IndexOf(D(f))] = Imm(next)
    BY <2>3, <2>6, <2>12 DEF Keeps, BanksOK, FrameFields
  <2>14. ASSUME NEW fr, fr.value = held.value PROVE Cell(fr, D(f)) = Imm(next)
    BY <2>5, <2>13, <2>14, KindsDiffer DEF Cell
  <2> HIDE DEF held
  <2>15. frames'[f] = [held EXCEPT !.pc = frames[f].pc + 1, !.status = "running"]
    BY <2>10, <2>11 DEF Continue, Goto
  <2>16. frames'[f].pc = frames[f].pc + 1 /\ frames'[f].value = held.value
    BY <2>13, <2>15 DEF BanksOK, FrameFields
  <2>17. entries'[next].frame = Captured(f)
    <3>1. entries'[next] = entry
      BY <2>8, <2>9
    <3> QED
      BY <3>1
  <2>18. Captured(f) = [Forget(held) EXCEPT !.pc = ImmediateValue(S(f)), !.status = "running"]
    BY <2>5 DEF Captured, held
  <2>19. Captured(f).value = held.value
    BY <2>13, <2>18 DEF BanksOK, FrameFields, Forget
  <2> QED
    BY <2>2, <2>5, <2>14, <2>16, <2>17, <2>19
<1>2. ASSUME IInv, [Next]_vars
      PROVE  [next' # next => \E f \in DOMAIN frames : Reported(f)]_vars
  BY <1>1, <1>2
<1> QED
  BY Inductive, <1>2, PTL DEF Spec, RegisteredIsReported
-----------------------------------------------------------------------------
(* The programs that frames run: captured, queued and taken again, a frame *)
(* keeps the one that it was started with.                                 *)

FramesIn(traces) == \A fr \in ToSet(frames) : fr.program \in traces
ReadyIn(traces) == \A fr \in ToSet(ready) : fr.program \in traces
EntriesIn(traces) == \A id \in DOMAIN entries : entries[id].frame.program \in traces
RunsIn(traces) == FramesIn(traces) /\ ReadyIn(traces) /\ EntriesIn(traces)

\* An instruction and an answer keep the program of their frame.
LEMMA MovesRuns ==
  ASSUME FramesOK, NEW f \in DOMAIN frames, Moves(f), NEW traces, FramesIn(traces)
  PROVE  FramesIn(traces)'
<1>1. PICK fr : fr.program = frames[f].program /\ frames' = [frames EXCEPT ![f] = fr]
  BY DEF Moves
<1>2. \A g \in DOMAIN frames : frames[g].program \in traces
  BY DEF FramesIn, ToSet
<1>3. DOMAIN frames' = DOMAIN frames /\ \A g \in DOMAIN frames' : frames'[g].program \in traces
  BY <1>1, <1>2
<1> QED
  BY <1>3 DEF FramesIn, ToSet

\* What is queued was registered.
LEMMA QueueRuns ==
  ASSUME ReadyOK, EntriesOK, NEW traces, ReadyIn(traces), EntriesIn(traces), Queues
  PROVE  ReadyIn(traces)'
<1>1. CASE ready' = ready
  BY <1>1 DEF ReadyIn
<1>2. CASE \E kind, events : Len(events) \in Nat /\ Deliver(kind, events)
  <2>0. PICK kind, events : Len(events) \in Nat /\ Deliver(kind, events)
    BY <1>2
  <2>1. PICK copies : /\ ready' = ready \o copies /\ copies \in Seq(ToSet(copies))
                      /\ \A fr \in ToSet(copies) :
                           \E id \in DOMAIN entries, n \in 1 .. Len(events) : fr = Copy(id, events[n])
    BY <2>0, Delivered
  <2>2. ASSUME NEW fr \in ToSet(copies) PROVE fr.program \in traces
    <3>1. PICK id \in DOMAIN entries, n \in 1 .. Len(events) : fr = Copy(id, events[n])
      BY <2>1
    <3>2. Captive(entries[id].frame) /\ entries[id].frame.program \in traces
      BY DEF EntriesOK, EntriesIn
    <3> QED
      BY <3>1, <3>2, CopyKeeps
  <2>3. ToSet(ready') \subseteq ToSet(ready) \cup ToSet(copies)
    BY <2>1, ConcatElements DEF ReadyOK
  <2>4. (ToSet(ready))' = ToSet(ready')
    BY DEF ToSet
  <2> QED
    BY <2>2, <2>3, <2>4 DEF ReadyIn
<1> QED
  BY <1>1, <1>2 DEF Queues

\* An instruction runs, queues and registers no other program.
LEMMA StepRuns ==
  ASSUME IInv, NEW f \in DOMAIN frames, Step(f), NEW traces, RunsIn(traces)
  PROVE  RunsIn(traces)'
<1>1. FramesIn(traces)'
  BY StepMoves, MovesRuns DEF IInv, RunsIn
<1>2. Queues /\ (Drops \/ Adds(f))
  BY StepEffects
<1>3. ReadyIn(traces)'
  BY <1>2, QueueRuns DEF IInv, RunsIn
<1>4. CASE Drops
  BY <1>1, <1>3, <1>4 DEF RunsIn, EntriesIn, Drops
<1>5. CASE Adds(f)
  <2>1. Captured(f).program \in traces
    BY <1>5, CapturedIsCaptive DEF Adds, IInv, RunsIn, FramesIn, ToSet
  <2> QED
    BY <1>1, <1>3, <1>5, <2>1 DEF RunsIn, EntriesIn, Adds
<1> QED
  BY <1>2, <1>4, <1>5

\* Nor does anything else that happens after the programs were started.
LEMMA NextRuns ==
  ASSUME IInv, [Next]_vars, NEW traces, RunsIn(traces),
         \A route \in Routes : ~Launch(route)
  PROVE  RunsIn(traces)'
<1>1. CASE UNCHANGED <<frames, ready, entries>>
  BY <1>1 DEF RunsIn, FramesIn, ReadyIn, EntriesIn
<1>2. CASE \E f \in DOMAIN frames : Run(f)
  BY <1>2, StepRuns DEF Run
<1>3. CASE \E f \in DOMAIN frames : \E index \in 0 .. Offered(f) - 1 : Answer(f, index)
  <2>1. PICK f \in DOMAIN frames : \E index \in 0 .. Offered(f) - 1 : AnswerWith(f, index)
    BY <1>3 DEF Answer
  <2>2. FramesIn(traces)'
    BY <2>1, AnswerMoves, MovesRuns DEF IInv, RunsIn
  <2>3. ready' = ready /\ entries' = entries
    BY <2>1 DEF AnswerWith, shared
  <2> QED
    BY <2>2, <2>3 DEF RunsIn, ReadyIn, EntriesIn
<1>4. CASE PostNext
  <2>1. PICK kind, event : Deliver(kind, <<event>>) /\ frames' = frames /\ entries' = entries
    BY <1>4 DEF PostNext, Post
  <2>2. Len(<<event>>) \in Nat
    OBVIOUS
  <2>3. Queues
    BY <2>1, <2>2 DEF Queues
  <2>4. ReadyIn(traces)'
    BY <2>3, QueueRuns DEF IInv, RunsIn
  <2> QED
    BY <2>1, <2>4 DEF RunsIn, FramesIn, EntriesIn
<1>5. CASE Take
  <2>1. frames' = frames \o ready /\ ready' = <<>> /\ entries' = entries
    BY <1>5 DEF Take, TakeReady
  <2>2. ToSet(frames') \subseteq ToSet(frames) \cup ToSet(ready)
    BY <2>1, ConcatElements DEF IInv, FramesOK, ReadyOK
  <2>3. (ToSet(frames))' = ToSet(frames') /\ (ToSet(ready))' = {}
    BY <2>1 DEF ToSet
  <2> QED
    BY <2>1, <2>2, <2>3 DEF RunsIn, FramesIn, ReadyIn, EntriesIn
<1> QED
  BY <1>1, <1>2, <1>3, <1>4, <1>5 DEF Next, Type, Build, vars, machine, shared
-----------------------------------------------------------------------------
(* What was built is valid, and a valid trace survives every route.        *)

\* Programs in a row.
LEMMA FlattenPublishes ==
  ASSUME NEW s, s \in Seq(ToSet(s)), \A x \in ToSet(s) : Publishable(x)
  PROVE  Publishable(FlattenSeq(s))
<1>1. Len(s) \in Nat /\ \A n \in 1 .. Len(s) : Publishable(s[n])
  BY LenProperties DEF ToSet
<1>2. CASE s = <<>>
  <2>1. Len(s) = 0
    BY <1>2
  <2>2. FlattenSeq(s) = s
    BY <2>1, Zenon DEF FlattenSeq
  <2> QED
    BY <1>2, <2>2, EmptyTexts
<1>3. CASE s # <<>>
  <2>1. PICK f : /\ f[1] = s[1] /\ \A i \in 2 .. Len(s) : f[i] = f[i - 1] \o s[i]
                 /\ FlattenSeq(s) = f[Len(s)]
    BY <1>3, FlattenGoes
  <2>2. Len(s) # 0
    BY <1>3, EmptySeq
  <2> DEFINE P == {n \in 0 .. Len(s) : n = 0 \/ Publishable(f[n])}
  <2>3. 0 \in P
    BY <1>1
  <2>4. ASSUME NEW n \in 1 .. Len(s), n - 1 \in P PROVE n \in P
    <3>1. CASE n = 1
      BY <1>1, <2>1, <3>1
    <3>2. CASE n # 1
      <4>1. Publishable(f[n - 1]) /\ Publishable(s[n]) /\ f[n] = f[n - 1] \o s[n]
        <5>1. n \in 2 .. Len(s) /\ n - 1 # 0
          BY <1>1, <3>2
        <5> QED
          BY <1>1, <2>1, <2>4, <5>1
      <4>2. Publishable(f[n])
        BY <4>1, ConcatElements DEF Publishable
      <4> QED
        BY <1>1, <4>2
    <3> QED
      BY <3>1, <3>2
  <2>5. 0 .. Len(s) \subseteq P
    <3> HIDE DEF P
    <3> QED
      BY <1>1, <2>3, <2>4, Induction
  <2> QED
    BY <1>1, <2>1, <2>2, <2>5
<1> QED
  BY <1>2, <1>3

\* What a recipe makes is valid: the assembler and the builder validate it.
LEMMA RecipePublishes ==
  ASSUME NEW recipe, recipe.how = "assemble" => IsText(recipe.text)
  PROVE  Publishable(Built(recipe).programs)
<1>1. CASE recipe.how = "assemble"
  <2>1. WordsIn(<<>>)
    BY DEF WordsIn
  <2>2. Publishable(AssembleModule(recipe.text, <<>>).programs)
    BY <1>1, <2>1, ModuleIsValid
  <2> QED
    BY <1>1, <2>2 DEF Built
<1>2. CASE recipe.how # "assemble"
  <2> DEFINE lowered == FoldLeft(Lower, NewBuilder, recipe.calls)
  <2>1. Built(recipe) = Finally(Finish(lowered))
    BY <1>2 DEF Built
  <2> HIDE DEF lowered
  <2> DEFINE b == Finish(lowered)
             p == [name |-> <<>>, trace |-> b.code]
  <2>2. b.ok => ValidTrace(p.trace)
    BY DEF Finish
  <2>3. Finally(b).programs \in {<<>>, <<p>>} /\ (~b.ok => Finally(b).programs = <<>>)
    BY DEF Finally, All
  <2> HIDE DEF p, b
  <2>4. b.ok => Publishable(<<p>>)
    BY <2>2 DEF Publishable, ToSet
  <2> QED
    BY <2>1, <2>3, <2>4, EmptyTexts DEF b
<1> QED
  BY <1>1, <1>2

\* What a plan builds is valid.
LEMMA BuildPublishes ==
  ASSUME NEW p \in Plans, Build(p)
  PROVE  Publishable(result.programs)'
<1> DEFINE built == [n \in DOMAIN p.recipes |-> Built(p.recipes[n])]
           programs == [n \in DOMAIN built |-> built[n].programs]
           Elements == {built[n].programs : n \in DOMAIN built}
<1>1. result' = [programs |-> FlattenSeq(programs),
                 errors |-> FlattenSeq([n \in DOMAIN built |-> built[n].errors])]
  BY Zenon DEF Build
<1>2. p.recipes \in Seq(ToSet(p.recipes))
      /\ \A recipe \in ToSet(p.recipes) : recipe.how = "assemble" => IsText(recipe.text)
  BY ProgramsAssumption
<1>3. Len(p.recipes) \in Nat /\ DOMAIN p.recipes = 1 .. Len(p.recipes)
  BY <1>2, LenProperties
<1>4. \A n \in DOMAIN p.recipes : Publishable(Built(p.recipes[n]).programs)
  BY <1>2, RecipePublishes DEF ToSet
<1>5. DOMAIN built = 1 .. Len(p.recipes) /\ \A n \in DOMAIN built : Publishable(built[n].programs)
  BY <1>3, <1>4
<1> HIDE DEF built
<1>6. programs \in Seq(Elements)
  BY <1>3, <1>5, SeqDef
<1>7. \A x \in Elements : Publishable(x)
  BY <1>5
<1>8. result'.programs = FlattenSeq(programs)
  BY <1>1
<1> HIDE DEF programs, Elements
<1>9. programs \in Seq(ToSet(programs)) /\ ToSet(programs) \subseteq Elements
  BY <1>6, OwnElements
<1>10. Publishable(FlattenSeq(programs))
  BY <1>7, <1>9, FlattenPublishes
<1> QED
  BY <1>8, <1>10

\* A valid trace arrives as it was sent.
LEMMA CarriedIntact ==
  ASSUME NEW trace, ValidTrace(trace), NEW route \in Routes
  PROVE  Carried(route, trace) = trace
<1>1. Assemble(Disassemble(trace), <<>>).trace = trace
  <2>1. Assemble(Disassemble(trace), <<>>) = [trace |-> trace, errors |-> <<>>]
    BY ListingRestores
  <2> QED
    BY <2>1
<1>2. Decode(Encode(trace)).trace = trace
  <2>1. Decode(Encode(trace)) = [trace |-> trace, ok |-> TRUE]
    BY WordsRestore
  <2> QED
    BY <2>1
<1> QED
  BY <1>1, <1>2 DEF Carried, Routes

-----------------------------------------------------------------------------
(* The host's invariant.                                                   *)

TracesBuilt == {result.programs[n].trace : n \in DOMAIN result.programs}
\* Until a plan is built nothing runs; from then on what runs is what was built.
HInv ==
  /\ IsText(source) /\ Publishable(result.programs)
  /\ plan = <<>> => frames = <<>> /\ ready = <<>> /\ DOMAIN entries = {}
  /\ RunsIn(TracesBuilt)

\* Nothing runs nothing.
LEMMA IdleRuns ==
  ASSUME frames = <<>>, ready = <<>>, DOMAIN entries = {}, NEW traces
  PROVE  RunsIn(traces)
<1>1. ToSet(frames) = {} /\ ToSet(ready) = {}
  BY DEF ToSet
<1> QED
  BY <1>1 DEF RunsIn, FramesIn, ReadyIn, EntriesIn

\* At first there is no text and no program.
LEMMA InitHInv == Init => HInv
<1> SUFFICES ASSUME Init PROVE HInv
  OBVIOUS
<1>1. /\ source = <<>> /\ frames = <<>> /\ ready = <<>> /\ DOMAIN entries = {}
      /\ result.programs = <<>>
  BY DEF Init, Nothing
<1> QED
  BY <1>1, EmptyTexts, IdleRuns DEF HInv

\* A line that is typed, or a plan that is built, publishes valid programs, and nothing runs.
LEMMA PreparesHInv ==
  ASSUME HInv,
         \/ \E p \in Plans : Build(p)
         \/ \E alphabet \in Alphabets : \E line \in alphabet : Type(line)
  PROVE  HInv'
<1>1. /\ plan = <<>> /\ frames' = frames /\ ready' = ready /\ entries' = entries
  BY DEF Type, Build, machine, shared
<1>2. frames' = <<>> /\ ready' = <<>> /\ DOMAIN entries' = {}
  BY <1>1 DEF HInv
<1>3. RunsIn(TracesBuilt)'
  <2>1. (ToSet(frames))' = {} /\ (ToSet(ready))' = {}
    BY <1>2 DEF ToSet
  <2> QED
    BY <1>2, <2>1 DEF RunsIn, FramesIn, ReadyIn, EntriesIn
<1>4. CASE \E p \in Plans : Build(p)
  <2>1. source' = source /\ Publishable(result.programs)'
    BY <1>4, BuildPublishes DEF Build
  <2> QED
    BY <1>2, <1>3, <2>1 DEF HInv
<1>5. CASE \E alphabet \in Alphabets : \E line \in alphabet : Type(line)
  <2>1. PICK alphabet \in Alphabets : \E line \in alphabet : Type(line)
    BY <1>5
  <2>2. PICK line \in alphabet : Type(line)
    BY <2>1
  <2>3. IsLine(line) /\ IsText(source)
    BY ProgramsAssumption DEF HInv
  <2>4. IsText(Append(source, line)) /\ source' = Append(source, line)
    BY <2>2, <2>3, TextGrows DEF Type
  <2>5. WordsIn(<<>>)
    BY DEF WordsIn
  <2>6. Publishable(AssembleModule(Append(source, line), <<>>).programs)
    BY <2>4, <2>5, ModuleIsValid
  <2>7. result' = AssembleModule(Append(source, line), <<>>)
    BY <2>2, <2>4 DEF Type
  <2>8. Publishable(result.programs)'
    BY <2>6, <2>7
  <2> QED
    BY <1>2, <1>3, <2>4, <2>8 DEF HInv
<1> QED
  BY <1>4, <1>5

\* The frames that are started run what was built, by whatever route it came.
LEMMA LaunchHInv ==
  ASSUME HInv, NEW route \in Routes, Launch(route)
  PROVE  HInv'
<1> DEFINE count == Len(result.programs)
           carried(n) == Carried(route, result.programs[n].trace)
<1>1. /\ source' = source /\ plan' = plan /\ result' = result /\ plan # <<>>
      /\ ready' = ready /\ entries' = entries
  BY DEF Launch, host
<1>2. frames' = [n \in 1 .. count |-> NewFrame(carried(n))]
  BY DEF Launch
<1>3. result.programs \in Seq(ToSet(result.programs))
  BY DEF HInv, Publishable
<1>4. DOMAIN result.programs = 1 .. count
  BY <1>3, LenProperties
<1>5. ASSUME NEW n \in 1 .. count
      PROVE  carried(n) \in TracesBuilt /\ NewFrame(carried(n)).program \in TracesBuilt
  <2>1. ValidTrace(result.programs[n].trace)
    BY <1>4 DEF HInv, Publishable, ToSet
  <2>2. carried(n) = result.programs[n].trace
    BY <2>1, CarriedIntact
  <2> HIDE DEF carried
  <2>3. NewFrame(carried(n)).program = carried(n)
    BY DEF NewFrame
  <2> QED
    BY <1>4, <2>2, <2>3 DEF TracesBuilt
<1> HIDE DEF count, carried
<1>6. PICK traces : traces = TracesBuilt
  OBVIOUS
<1>7. TracesBuilt' = traces
  BY <1>1, <1>6 DEF TracesBuilt
<1>8. \A fr \in ToSet(frames') : fr.program \in traces
  BY <1>2, <1>5, <1>6 DEF ToSet
<1>9. FramesIn(traces)'
  BY <1>8 DEF FramesIn, ToSet
<1>10. RunsIn(traces)'
  BY <1>1, <1>6, <1>9 DEF HInv, RunsIn, ReadyIn, EntriesIn
<1>11. RunsIn(TracesBuilt)'
  BY <1>7, <1>10 DEF RunsIn, FramesIn, ReadyIn, EntriesIn
<1> QED
  BY <1>1, <1>11 DEF HInv
\* A step keeps the host's invariant.
LEMMA NextHInv ==
  ASSUME IInv, HInv, [Next]_vars
  PROVE  HInv'
<1>1. CASE \E route \in Routes : Launch(route)
  BY <1>1, LaunchHInv
<1>2. CASE \/ \E p \in Plans : Build(p)
           \/ \E alphabet \in Alphabets : \E line \in alphabet : Type(line)
  BY <1>2, PreparesHInv
<1>3. CASE /\ \A route \in Routes : ~Launch(route)
           /\ \A p \in Plans : ~Build(p)
           /\ \A alphabet \in Alphabets : \A line \in alphabet : ~Type(line)
  <2>1. /\ source' = source /\ plan' = plan /\ result' = result
        /\ frames = <<>> /\ ready = <<>> => UNCHANGED <<frames, ready, entries>>
    <3>1. CASE UNCHANGED vars
      BY <3>1 DEF vars, host, machine, shared
    <3>2. CASE \E f \in DOMAIN frames : Run(f)
      <4>1. frames # <<>>
        BY <3>2
      <4> QED
        BY <3>2, <4>1 DEF Run, host
    <3>3. CASE \E f \in DOMAIN frames : \E index \in 0 .. Offered(f) - 1 : Answer(f, index)
      <4>1. frames # <<>>
        BY <3>3
      <4> QED
        BY <3>3, <4>1 DEF Answer, host
    <3>4. CASE PostNext
      BY <3>4 DEF PostNext
    <3>5. CASE Take
      BY <3>5 DEF Take, TakeReady, host
    <3> QED
      BY <1>3, <3>1, <3>2, <3>3, <3>4, <3>5 DEF Next
  <2>2. PICK traces : traces = TracesBuilt
    OBVIOUS
  <2>3. TracesBuilt' = traces
    BY <2>1, <2>2 DEF TracesBuilt
  <2>4. RunsIn(traces)'
    BY <1>3, <2>2, NextRuns DEF HInv
  <2>5. RunsIn(TracesBuilt)'
    BY <2>3, <2>4 DEF RunsIn, FramesIn, ReadyIn, EntriesIn
  <2>6. plan' = <<>> => frames' = <<>> /\ ready' = <<>> /\ DOMAIN entries' = {}
    BY <2>1 DEF HInv
  <2> QED
    BY <2>1, <2>5, <2>6 DEF HInv
<1> QED
  BY <1>1, <1>2, <1>3

\* A program that was built survives every route, as a listing and in binary form, and a
\* frame, started, registered, queued or taken, runs one of the programs that were built
\* (Disassemble, Encode, Decode, Register, Deliver).
THEOREM PublishedStaysIntact == Spec => []PublishedIntact
<1>1. ASSUME HInv PROVE PublishedIntact
  <2>1. DOMAIN result.programs = 1 .. Len(result.programs)
    BY <1>1, LenProperties DEF HInv, Publishable
  <2>2. ASSUME NEW n \in DOMAIN result.programs, NEW route \in Routes
        PROVE  Carried(route, result.programs[n].trace) = result.programs[n].trace
    <3>1. ValidTrace(result.programs[n].trace)
      BY <1>1 DEF HInv, Publishable, ToSet
    <3> QED
      BY <3>1, CarriedIntact
  <2>3. ASSUME NEW f \in DOMAIN frames
        PROVE  \E n \in DOMAIN result.programs : frames[f].program = result.programs[n].trace
    BY <1>1 DEF HInv, RunsIn, FramesIn, ToSet, TracesBuilt
  <2> QED
    BY <2>2, <2>3 DEF PublishedIntact
<1>2. IInv /\ HInv /\ [Next]_vars => HInv'
  BY NextHInv
<1> QED
  BY InitHInv, Inductive, <1>1, <1>2, PTL DEF Spec

-----------------------------------------------------------------------------
(* What the author of a text is told.                                      *)

\* The last answer is about the text as it is.
TextInv ==
  /\ IsText(source)
  /\ source # <<>> => plan = <<>> /\ result = AssembleModule(source, <<>>)
  /\ source = <<>> /\ plan = <<>> => result = Nothing

\* A step keeps it.
LEMMA NextTextInv == TextInv /\ [Next]_vars => TextInv'
<1> SUFFICES ASSUME TextInv, [Next]_vars PROVE TextInv'
  OBVIOUS
<1>1. CASE UNCHANGED <<source, plan, result>>
  BY <1>1 DEF TextInv, Nothing
<1>2. ASSUME NEW p \in Plans, Build(p) PROVE TextInv'
  <2>1. source = <<>> /\ source' = source /\ plan' = <<p>>
    BY <1>2 DEF Build
  <2> QED
    BY <2>1, EmptyTexts DEF TextInv
<1>3. ASSUME NEW alphabet \in Alphabets, NEW line \in alphabet, Type(line) PROVE TextInv'
  <2>1. IsLine(line)
    BY ProgramsAssumption
  <2>2. source' = Append(source, line) /\ plan' = plan /\ plan = <<>>
    BY <1>3 DEF Type
  <2>3. result' = AssembleModule(Append(source, line), <<>>)
    BY <1>3, <2>2 DEF Type
  <2>4. PICK text : text = Append(source, line)
    OBVIOUS
  <2>5. IsText(text)
    BY <2>1, <2>4, TextGrows DEF TextInv
  <2>6. text # <<>>
    <3>1. source \in Seq(ToSet(source) \cup {line}) /\ line \in ToSet(source) \cup {line}
      BY SeqMonotonic DEF TextInv, IsText
    <3>2. PICK Lines : Lines = ToSet(source) \cup {line}
      OBVIOUS
    <3> QED
      BY <2>4, <3>1, <3>2, Appended
  <2> QED
    BY <2>2, <2>3, <2>4, <2>5, <2>6 DEF TextInv
<1>4. ASSUME NEW route \in Routes, Launch(route) PROVE TextInv'
  BY <1>1, <1>4 DEF Launch, host
<1>5. ASSUME NEW f, Run(f) PROVE TextInv'
  BY <1>1, <1>5 DEF Run, host
<1>6. ASSUME NEW f, NEW index, Answer(f, index) PROVE TextInv'
  BY <1>1, <1>6 DEF Answer, host
<1>7. CASE PostNext
  BY <1>1, <1>7 DEF PostNext
<1>8. CASE Take
  BY <1>1, <1>8 DEF Take, host
<1>9. CASE UNCHANGED vars
  BY <1>1, <1>9 DEF vars, host
<1> QED
  BY <1>2, <1>3, <1>4, <1>5, <1>6, <1>7, <1>8, <1>9 DEF Next

\* It holds at first.
LEMMA InitTextInv == Init => TextInv
BY EmptyTexts DEF Init, TextInv, Nothing

\* A text is refused whole, with a line of it to blame, or means what it says: program
\* counters, labels, symbols and opcodes (Assemble, AssembleModule).
THEOREM TextsMeanWhatTheySay == Spec => []AssembledAsWritten
<1>1. ASSUME TextInv PROVE AssembledAsWritten
  <2> SUFFICES ASSUME plan = <<>> PROVE AssembledAsWritten
    BY DEF AssembledAsWritten
  <2>1. CASE source = <<>>
    <3>1. result.errors = <<>> /\ result.programs = <<>> /\ ToSet(result.errors) = {}
      BY <1>1, <2>1 DEF TextInv, Nothing, ToSet
    <3> QED
      BY <2>1, <3>1 DEF AssembledAsWritten
  <2>2. CASE source # <<>>
    <3> DEFINE whole == Assemble(source, <<>>)
               trace == result.programs[1].trace
    <3>1. IsText(source) /\ result = AssembleModule(source, <<>>)
      BY <1>1, <2>2 DEF TextInv
    <3>2. DOMAIN source = 1 .. Len(source)
      BY <3>1, LenProperties DEF IsText
    <3>3. /\ result.errors \in Seq(1 .. Len(source))
          /\ result.errors = <<>> <=> result.programs # <<>>
          /\ LinesOf(source, Len(source), {"program"}) = {} => result = Only(whole)
      BY <3>1, ModuleIsWhole
    <3>4. ToSet(result.errors) \subseteq DOMAIN source
      BY <3>2, <3>3, OwnElements
    <3>5. /\ \A n : Codes(n) = CodesIn(source, n)
          /\ \A kind : Of(kind) = LinesOf(source, Len(source), {kind})
          /\ \A k : Literal(k) <=> Unnamed(source, k)
      BY <3>2 DEF Codes, CodesIn, Of, LinesOf, Literal, Unnamed
    <3>6. ASSUME Of("program") = {}, result.programs # <<>>
          PROVE  Reflects(source, trace)
      <4>1. result = Only(whole)
        BY <3>3, <3>5, <3>6
      <4>2. whole.errors = <<>> /\ trace = whole.trace
        BY <3>6, <4>1 DEF Only, All
      <4> QED
        BY <3>1, <4>2, AssembledIsWritten
    <3> HIDE DEF whole
    <3>7. ASSUME Of("program") = {}, result.programs # <<>>
          PROVE  LET Instr(n) == trace[Codes(n) + 1]
                 IN  /\ Len(trace) = Codes(Len(source) + 1)
                     /\ Of("malformed") = {} /\ Of("directive") = {}
                     /\ \A a, b \in Of("label") \cup Of("symbol") :
                          a # b => source[a].name # source[b].name
                     /\ \A n \in Of("code") :
                          /\ source[n].pc \in {NoPC, Codes(n)}
                          /\ source[n].name # "WORDS" => OpcodeOf(Instr(n)) = source[n].name
                          /\ \A k \in Of("label") :
                               source[n].name = "JUMP" /\ source[n].args = <<source[k].name>>
                                 => Src0(Instr(n)) = JumpTarget(Codes(k))
                          /\ \A k \in Of("symbol") :
                               (/\ source[n].name = "SET" /\ source[n].args[2] = source[k].name
                                /\ source[k].name # <<"NONE">> /\ Literal(k))
                                 => Src0(Instr(n)) = OperandOf(source[k].value, <<>>)
      <4> HIDE DEF trace
      <4>1. Of("malformed") = {} /\ Of("directive") = {}
        BY <3>2, <3>6, <3>7 DEF Reflects, Known, LinesOf, Of
      <4>2. Of("label") \cup Of("symbol") = LinesOf(source, Len(source), {"label", "symbol"})
        BY <3>2 DEF LinesOf, Of
      <4>3. /\ Of("code") = LinesOf(source, Len(source), {"code"})
            /\ Of("label") = LinesOf(source, Len(source), {"label"})
            /\ Of("symbol") = LinesOf(source, Len(source), {"symbol"})
        BY <3>5
      <4>4. \A a, b \in Of("label") \cup Of("symbol") : a # b => source[a].name # source[b].name
        BY <3>6, <3>7, <4>2 DEF Reflects, Distinct
      <4>5. Len(trace) = Codes(Len(source) + 1)
        BY <3>5, <3>6, <3>7 DEF Reflects
      <4>6. ASSUME NEW n \in Of("code")
            PROVE  /\ source[n].pc \in {NoPC, Codes(n)}
                   /\ source[n].name # "WORDS" => OpcodeOf(trace[Codes(n) + 1]) = source[n].name
        BY <3>5, <3>6, <3>7, <4>3, <4>6 DEF Reflects
      <4>7. ASSUME NEW n \in Of("code"), NEW k \in Of("label"),
                   source[n].name = "JUMP", source[n].args = <<source[k].name>>
            PROVE  Src0(trace[Codes(n) + 1]) = JumpTarget(Codes(k))
        BY <3>5, <3>6, <3>7, <4>3, <4>7 DEF Reflects
      <4>8. ASSUME NEW n \in Of("code"), NEW k \in Of("symbol"),
                   source[n].name = "SET", source[n].args[2] = source[k].name,
                   source[k].name # <<"NONE">>, Literal(k)
            PROVE  Src0(trace[Codes(n) + 1]) = OperandOf(source[k].value, <<>>)
        BY <3>5, <3>6, <3>7, <4>3, <4>8 DEF Reflects
      <4> QED
        BY <4>1, <4>4, <4>5, <4>6, <4>7, <4>8
    <3> QED
      BY <2>2, <3>3, <3>4, <3>7 DEF AssembledAsWritten
  <2> QED
    BY <2>1, <2>2
<1> QED
  BY InitTextInv, NextTextInv, <1>1, PTL DEF Spec

\* The programs of a module are what their lines are alone, are published together or not at
\* all, and not when the text has anything besides them (AssembleModule).
THEOREM ModulesStayScoped == Spec => []ModulesAreScoped
<1>1. ASSUME TextInv, Of("program") # {}, result.programs # <<>>, NEW k \in DOMAIN source
      PROVE  source[k].kind = "blank" \/ \E c \in Blocks : k \in c[1] .. c[2]
  <2>1. source # <<>>
    BY <1>1
  <2>2. IsText(source) /\ result = AssembleModule(source, <<>>)
    BY <1>1, <2>1 DEF TextInv
  <2>3. DOMAIN source = 1 .. Len(source) /\ Len(source) \in Nat
    BY <2>2, LenProperties DEF IsText
  <2>4. LinesOf(source, Len(source), {"program"}) # {}
    BY <1>1, <2>3 DEF Of, LinesOf
  <2>5. source[k].kind = "blank" \/ Inside(source, Len(source), k)
    BY <1>1, <2>2, <2>3, <2>4, ModuleIsPrograms
  <2>6. ASSUME Inside(source, Len(source), k) PROVE \E c \in Blocks : k \in c[1] .. c[2]
    <3>1. PICK a, b \in 1 .. Len(source) : IsBlock(source, a, b) /\ a <= k /\ k <= b
      BY <2>6 DEF Inside
    <3>2. <<a, b>> \in Blocks
      BY <2>3, <3>1 DEF Blocks, Of, IsBlock, Interior
    <3>3. k \in a .. b
      BY <1>1, <2>3, <3>1
    <3> QED
      BY <3>2, <3>3
  <2> QED
    BY <2>5, <2>6
<1>2. ASSUME TextInv, Regular, NEW c \in Blocks
      PROVE  LET alone == Assemble(SubSeq(source, c[1] + 1, c[2] - 1), <<>>)
             IN  /\ \A n \in 1 .. c[2] - c[1] - 1 :
                      c[1] + n \in ToSet(result.errors) <=> n \in ToSet(alone.errors)
                 /\ result.programs # <<>> =>
                      [name |-> source[c[1]].name, trace |-> alone.trace] \in ToSet(result.programs)
  <2>1. PICK a, b : a = c[1] /\ b = c[2]
    OBVIOUS
  <2>2. a \in Of("program") /\ b \in Of("end") /\ a < b
        /\ \A n \in a + 1 .. b - 1 : source[n].kind \notin {"program", "end"}
    BY <1>2, <2>1 DEF Blocks
  <2>3. source # <<>>
    BY <2>2 DEF Of
  <2>4. IsText(source) /\ result = AssembleModule(source, <<>>)
    BY <1>2, <2>3 DEF TextInv
  <2>5. DOMAIN source = 1 .. Len(source)
    BY <2>4, LenProperties DEF IsText
  <2>6. IsBlock(source, a, b) /\ a \in 1 .. Len(source) /\ b \in 1 .. Len(source)
    BY <2>2, <2>5 DEF Of, IsBlock, Interior
  <2>7. RegularText(source)
    BY <1>2, <2>5 DEF Regular, RegularText, Of, LinesOf
  <2> QED
    BY <2>1, <2>4, <2>6, <2>7, ModuleIsScoped DEF Alone
<1>3. TextInv => ModulesAreScoped
  BY <1>1, <1>2 DEF ModulesAreScoped
<1> QED
  BY InitTextInv, NextTextInv, <1>3, PTL DEF Spec

-----------------------------------------------------------------------------
(* Words.  Whatever a frame, the storage or the history holds is a word.   *)

\* A frame holds words only.
Wordy(fr) ==
  /\ \A n \in Indices : fr.value[n] \in Word /\ fr.address[n] \in Word /\ fr.flag[n] \in Word
  /\ \A r \in ControlCells : fr.control[r] \in Word
  /\ fr.collections \in Seq(Seq(Word))
\* A question offers words, one for each answer when an object is asked for.
Offers(fr) ==
  fr.decision = <<>> \/
    LET question == fr.decision[1]
    IN  /\ question.candidates \in Seq(Word)
        /\ IsAddressRegister(Dst(fr.program[fr.pc + 1])) => question.count = Len(question.candidates)
        /\ fr.answer \in Seq(Nat)
FrameWords(fr) == Wordy(fr) /\ Offers(fr)

Event == [kind : Int, subject : Word, object : Word, context : Word]
ZonesIn(zs) == \A p \in Places : zs[p] \in Seq(Nat)
FieldsIn(fs) == \A key \in DOMAIN fs : fs[key] \in Word
HistoryIn == history \in Seq(Event)
WInv ==
  /\ ZonesIn(zones) /\ FieldsIn(fields) /\ HistoryIn
  /\ \A fr \in ToSet(frames) : FrameWords(fr)
  /\ \A fr \in ToSet(ready) : Wordy(fr)
  /\ \A id \in DOMAIN entries : Wordy(entries[id].frame)

\* The parts of a word are numbers.
LEMMA PartsOfWord ==
  ASSUME NEW w \in Word
  PROVE  /\ PayloadOf(w) \in 0 .. 2^PayloadBits - 1
         /\ CardOf(w) \in Nat /\ PlayerOf(w) \in Nat /\ ZoneOf(w) \in Nat /\ AttributeOf(w) \in Nat
         /\ SubcodeOf(w) \in Nat
         /\ ImmediateValue(w) \in ImmediateMin .. ImmediateMax
<1> DEFINE a == 2^TagBits
           b == 2^PayloadBits
           q == w \div a
           r == w % a
<1>1. a \in Nat \ {0} /\ b \in Nat \ {0} /\ b * a = 2^WordBits
  BY TagsFit
<1>2. PayloadOf(w) = q
  BY DEF PayloadOf
<1>3. w \in 0 .. b * a - 1
  BY <1>1 DEF Word
<1> HIDE DEF a, b
<1>4. r \in 0 .. a - 1 /\ q \in Int /\ w = a * q + r
  BY <1>1, <1>3
<1> HIDE DEF q, r
<1>5. q >= 0
  <2>1. CASE q <= -1
    <3>1. a * q <= -a
      BY <1>1, <1>4, <2>1
    <3> QED
      BY <1>1, <1>3, <1>4, <3>1
  <2> QED
    BY <1>4, <2>1
<1>6. q < b
  <2>1. CASE q >= b
    <3>1. a * q >= b * a
      BY <1>1, <1>4, <2>1
    <3> QED
      BY <1>1, <1>3, <1>4, <3>1
  <2> QED
    BY <1>1, <1>4, <2>1
<1>7. PayloadOf(w) \in 0 .. b - 1
  BY <1>1, <1>2, <1>4, <1>5, <1>6
<1>8. ASSUME NEW shift, NEW width, 2^shift \in Nat \ {0}, 2^width \in Nat \ {0}
      PROVE  Bits(PayloadOf(w), shift, width) \in Nat
  <2>1. PayloadOf(w) \div 2^shift \in Int
    BY <1>1, <1>7, <1>8
  <2> QED
    BY <1>8, <2>1 DEF Bits
<1>9. /\ CardOf(w) \in Nat /\ PlayerOf(w) \in Nat /\ ZoneOf(w) \in Nat /\ AttributeOf(w) \in Nat
      /\ SubcodeOf(w) \in Nat
  BY <1>8, FieldsFit DEF CardOf, PlayerOf, ZoneOf, AttributeOf, SubcodeOf
<1>10. ImmediateValue(w) \in ImmediateMin .. ImmediateMax
  <2>1. PayloadBits \in 1 .. WordBits
    BY TagsFit
  <2>2. b = 2 * 2^(PayloadBits - 1)
    BY <2>1, PowersUpTo DEF b
  <2>3. PICK half \in Nat : half = 2^(PayloadBits - 1)
    <3>1. PayloadBits - 1 \in 0 .. WordBits
      BY <2>1, PowersUpTo
    <3> QED
      BY <3>1, PowersUpTo
  <2>4. ImmediateMin = -half /\ ImmediateMax = half - 1 /\ b = 2 * half
    BY <2>2, <2>3 DEF ImmediateMin, ImmediateMax
  <2>5. ImmediateValue(w) = IF PayloadOf(w) > ImmediateMax THEN PayloadOf(w) - b ELSE PayloadOf(w)
    BY DEF ImmediateValue, b
  <2> QED
    BY <1>1, <1>7, <2>4, <2>5
<1> QED
  BY <1>7, <1>9, <1>10 DEF b

\* Words made of numbers.
LEMMA MadeWords ==
  /\ \A n \in Nat : MakeTagged(CollectionTag, n) \in Word
  /\ \A w \in Word, n \in Nat : WithAttribute(w, n) \in Word
  /\ \A place \in Places, card \in Nat : AddressIn(place, card) \in Word
<1>1. CollectionTag \in 0 .. 7 /\ AddressTag \in 0 .. 7
  BY DEF CollectionTag, AddressTag
<1>2. \A n \in Nat : MakeTagged(CollectionTag, n) \in Word
  BY <1>1, Tagged
<1>3. ASSUME NEW w \in Word, NEW n \in Nat PROVE WithAttribute(w, n) \in Word
  <2>1. PayloadOf(w) \in Int /\ AttributeOf(w) \in Nat
    BY PartsOfWord, TagsFit
  <2>2. 2^AttributeShift \in Nat \ {0} /\ 2^AttributeBits \in Nat \ {0}
    BY FieldsFit
  <2>3. Mask(n, AttributeBits) \in Nat
    BY <2>2, Masked
  <2>4. ASSUME NEW p \in Int, NEW x \in Int, NEW y \in Int, NEW z \in Int PROVE p - x * y + z * y \in Int
    OBVIOUS
  <2>5. PayloadOf(w) - AttributeOf(w) * 2^AttributeShift + Mask(n, AttributeBits) * 2^AttributeShift \in Int
    BY <2>1, <2>2, <2>3, <2>4
  <2> QED
    BY <1>1, <2>5, Tagged DEF WithAttribute
<1>4. ASSUME NEW place \in Places, NEW card \in Nat PROVE AddressIn(place, card) \in Word
  <2>1. PlayerOf(place) \in Int /\ ZoneOf(place) \in Int /\ CardLevel \in Int /\ 0 \in Int /\ card \in Int
    BY InterpreterAssumption, PartsOfWord DEF CardLevel
  <2> QED
    BY <2>1, MadeAddress DEF AddressIn, Card
<1> QED
  BY <1>2, <1>3, <1>4

\* What an operand reads is a word.
LEMMA ReadsWord ==
  ASSUME NEW fr, Wordy(fr), FieldsIn(fields), NEW o \in Word
  PROVE  /\ CanRead(fr, o) => Read(fr, o) \in Word
         /\ IsCell(o) => Cell(fr, o) \in Word
         /\ Resolve(fr, o) \in Word
<1>1. IndexOf(o) \in Indices
  BY IndexInBank
<1>2. ASSUME IsCell(o) PROVE Cell(fr, o) \in Word
  <2>1. CASE IsControl(o)
    <3>1. ControlRegOf(o) \in ControlCells
      BY <1>2, <2>1, KindsDiffer DEF IsCell
    <3>2. Cell(fr, o) = fr.control[ControlRegOf(o)]
      BY <2>1, KindsDiffer DEF Cell
    <3> QED
      BY <3>1, <3>2 DEF Wordy
  <2>2. CASE IsValueRegister(o)
    <3>1. Cell(fr, o) = fr.value[IndexOf(o)]
      BY <2>2, KindsDiffer DEF Cell
    <3> QED
      BY <1>1, <3>1 DEF Wordy
  <2>3. CASE IsAddressRegister(o)
    <3>1. Cell(fr, o) = fr.address[IndexOf(o)]
      BY <2>3, KindsDiffer DEF Cell
    <3> QED
      BY <1>1, <3>1 DEF Wordy
  <2>4. CASE IsFlagRegister(o)
    <3>1. Cell(fr, o) = fr.flag[IndexOf(o)]
      BY <2>4, KindsDiffer DEF Cell
    <3> QED
      BY <1>1, <3>1 DEF Wordy
  <2> QED
    BY <1>2, <2>1, <2>2, <2>3, <2>4 DEF IsCell
<1>3. ASSUME CanRead(fr, o) PROVE Read(fr, o) \in Word
  BY <1>2, <1>3 DEF CanRead, Read, HasField, FieldsIn
<1>4. Resolve(fr, o) \in Word
  BY <1>1 DEF Resolve, Wordy
<1> QED
  BY <1>2, <1>3, <1>4

\* So a number that it reads is an immediate's, and a collection has words.
LEMMA ReadsNumber ==
  ASSUME NEW fr, Wordy(fr), FieldsIn(fields), NEW o \in Word
  PROVE  /\ IsNumber(fr, o) => Number(fr, o) \in ImmediateMin .. ImmediateMax
         /\ IsNumber(fr, o) => Number(fr, o) \in Int
         /\ IsCollection(fr, o) => /\ PayloadOf(Read(fr, o)) + 1 \in DOMAIN fr.collections
                                   /\ Collection(fr, o) \in Seq(Word)
<1>1. ASSUME IsNumber(fr, o) PROVE Number(fr, o) \in ImmediateMin .. ImmediateMax
  BY <1>1, ReadsWord, PartsOfWord DEF IsNumber, Number
<1>2. ASSUME IsCollection(fr, o)
      PROVE  PayloadOf(Read(fr, o)) + 1 \in DOMAIN fr.collections /\ Collection(fr, o) \in Seq(Word)
  <2>1. CanRead(fr, o) /\ PayloadOf(Read(fr, o)) < Len(fr.collections)
    BY <1>2 DEF IsCollection
  <2>2. Read(fr, o) \in Word
    BY <2>1, ReadsWord
  <2>3. PICK n \in Nat : n = PayloadOf(Read(fr, o))
    BY <2>2, PartsOfWord, TagsFit
  <2>4. fr.collections \in Seq(Seq(Word)) /\ Len(fr.collections) \in Nat
    BY LenProperties DEF Wordy
  <2>5. n + 1 \in 1 .. Len(fr.collections)
    BY <2>1, <2>3, <2>4
  <2> QED
    BY <2>3, <2>4, <2>5, LenProperties, ElementOfSeq DEF Collection
<1> QED
  BY <1>1, <1>2

\* A frame and the storage in the middle of an instruction.
WordMachine(f, m) == Machine(frames[f], m) /\ Wordy(m.frame) /\ FieldsIn(m.fields)

\* A control cell that takes a word holds a word,
LEMMA WritesControl ==
  ASSUME NEW fr, BanksOK(fr), Wordy(fr), NEW r, NEW w \in Word
  PROVE  Wordy([fr EXCEPT !.control[r] = w])
BY DEF Wordy, BanksOK, FrameFields

\* so does any cell,
LEMMA WritesCell ==
  ASSUME NEW fr, BanksOK(fr), Wordy(fr), NEW o, IsCell(o), NEW w \in Word
  PROVE  Wordy(SetCell(fr, o, w))
<1>1. CASE IsControl(o)
  <2>1. SetCell(fr, o, w) = [fr EXCEPT !.control[ControlRegOf(o)] = w]
    BY <1>1, KindsDiffer DEF SetCell
  <2> QED
    BY <2>1, WritesControl
<1>2. CASE IsValueRegister(o)
  <2>1. SetCell(fr, o, w) = [fr EXCEPT !.value[IndexOf(o)] = w]
    BY <1>2, KindsDiffer DEF SetCell
  <2> QED
    BY <2>1 DEF Wordy, BanksOK, FrameFields
<1>3. CASE IsAddressRegister(o)
  <2>1. SetCell(fr, o, w) = [fr EXCEPT !.address[IndexOf(o)] = w]
    BY <1>3, KindsDiffer DEF SetCell
  <2> QED
    BY <2>1 DEF Wordy, BanksOK, FrameFields
<1>4. CASE IsFlagRegister(o)
  <2>1. SetCell(fr, o, w) = [fr EXCEPT !.flag[IndexOf(o)] = w]
    BY <1>4, KindsDiffer DEF SetCell
  <2> QED
    BY <2>1 DEF Wordy, BanksOK, FrameFields
<1> QED
  BY <1>1, <1>2, <1>3, <1>4 DEF IsCell

\* and so does what an operand writes to.
LEMMA WritesWord ==
  ASSUME NEW f, NEW m, WordMachine(f, m), NEW o, NEW w \in Word, Fits(o, w)
  PROVE  WordMachine(f, Write(m, o, w))
<1>1. Machine(frames[f], Write(m, o, w))
  BY MachineWrite DEF WordMachine
<1>2. CASE IsCell(o)
  <2>1. Write(m, o, w) = [m EXCEPT !.frame = SetCell(m.frame, o, w)]
    BY <1>2 DEF Write
  <2>2. Wordy(SetCell(m.frame, o, w))
    BY <1>2, WritesCell DEF WordMachine, Machine, Keeps
  <2>3. DOMAIN m = {"frame", "fields"}
    BY DEF WordMachine, Machine
  <2>4. Write(m, o, w).frame = SetCell(m.frame, o, w) /\ Write(m, o, w).fields = m.fields
    BY <2>1, <2>3
  <2> QED
    BY <1>1, <2>2, <2>4 DEF WordMachine
<1>3. CASE ~IsCell(o)
  <2>1. Write(m, o, w) = [m EXCEPT !.fields[FieldKey(o)] = w]
    BY <1>3 DEF Write
  <2>2. DOMAIN m = {"frame", "fields"}
    BY DEF WordMachine, Machine
  <2>3. /\ Write(m, o, w).frame = m.frame
        /\ Write(m, o, w).fields = [m.fields EXCEPT ![FieldKey(o)] = w]
    BY <2>1, <2>2
  <2>4. FieldsIn([m.fields EXCEPT ![FieldKey(o)] = w])
    BY DEF FieldsIn, WordMachine
  <2> QED
    BY <1>1, <2>3, <2>4 DEF WordMachine
<1> QED
  BY <1>2, <1>3

\* The frame and the storage change, and still hold words.
WordMoves(f) ==
  \E fr : FrameWords(fr) /\ frames' = [frames EXCEPT ![f] = fr] /\ FieldsIn(fields')

\* What an instruction finds.
Poised(f) ==
  /\ FrameWords(frames[f]) /\ FieldsIn(fields)
  /\ Keeps(frames[f], Fr(f)) /\ Wordy(Fr(f)) /\ WordMachine(f, M(f))
  /\ Operation(I(f)) \in Word /\ D(f) \in Word /\ S(f) \in Word /\ T(f) \in Word
  /\ ValidInstruction(I(f))

Fetches(f) == Going(f) /\ Poised(f)

\* The pc of a frame that runs is a number, so PROGRAM_COUNTER holds a word.
LEMMA PoisedWords ==
  ASSUME FramesOK, WInv, NEW f \in DOMAIN frames, NEW opcodes, On(f, opcodes)
  PROVE  Poised(f)
<1>1. /\ Sound(frames[f]) /\ frames[f].status # "invalid" /\ ValidInstruction(I(f))
      /\ D(f) \in Word /\ S(f) \in Word /\ T(f) \in Word
  BY Fetched DEF On
<1>2. /\ Keeps(frames[f], Fr(f)) /\ Machine(frames[f], M(f)) /\ BanksOK(frames[f])
  BY <1>1, MachineStart DEF Sound
<1>3. FrameWords(frames[f]) /\ FieldsIn(fields)
  BY DEF WInv, ToSet
<1>4. frames[f].program \in Traces /\ frames[f].pc \in 0 .. Len(frames[f].program)
  BY <1>1 DEF Sound, PlaceOK, ValidTrace
<1>5. Imm(frames[f].pc) \in Word
  BY <1>4, OperandWords
<1>6. Wordy(Fr(f))
  BY <1>2, <1>3, <1>5, WritesControl DEF Fr, FrameWords
<1>7. M(f).frame = Fr(f) /\ M(f).fields = fields
  BY DEF M
<1>8. Operation(I(f)) \in Word
  <2>1. Len(frames[f].program) \in Nat /\ frames[f].pc + 1 \in DOMAIN frames[f].program
    BY <1>4, LenProperties DEF On, Traces
  <2>2. frames[f].program[frames[f].pc + 1] \in Word \X Word \X Word \X Word
    BY <1>4, <2>1, ElementOfSeq DEF Traces
  <2> QED
    BY <2>2 DEF I, Operation
<1> QED
  BY <1>1, <1>2, <1>3, <1>6, <1>7, <1>8 DEF Poised, WordMachine

\* An instruction other than CHOOSE finds no question.
LEMMA FetchesWords ==
  ASSUME FramesOK, WInv, NEW f \in DOMAIN frames, NEW opcodes, On(f, opcodes),
         "CHOOSE" \notin opcodes
  PROVE  Fetches(f)
BY OnGoing, PoisedWords DEF Fetches

\* An instruction that goes on.
LEMMA GotoWords ==
  ASSUME NEW f, Going(f), NEW m, WordMachine(f, m), NEW pc, Goto(f, m, pc)
  PROVE  WordMoves(f)
<1> DEFINE fr == [m.frame EXCEPT !.pc = pc, !.status = "running"]
<1>1. frames' = [frames EXCEPT ![f] = fr] /\ fields' = m.fields
  BY DEF Goto
<1>2. Wordy(m.frame) /\ FieldsIn(m.fields) /\ BanksOK(m.frame) /\ m.frame.decision = <<>>
  BY DEF WordMachine, Machine, Keeps, Going
<1>3. Wordy(fr) /\ fr.decision = <<>>
  BY <1>2 DEF Wordy, BanksOK, FrameFields
<1> QED
  BY <1>1, <1>2, <1>3 DEF WordMoves, FrameWords, Offers

\* An instruction that ends the Run.
LEMMA StopWords ==
  ASSUME NEW f, FrameWords(frames[f]), FieldsIn(fields), NEW fr2, Keeps(frames[f], fr2),
         Wordy(fr2), NEW status, Stop(f, fr2, status)
  PROVE  WordMoves(f)
<1> DEFINE fr == [fr2 EXCEPT !.status = status]
<1>1. frames' = [frames EXCEPT ![f] = fr] /\ fields' = fields
  BY DEF Stop
<1>2. /\ fr.pc = frames[f].pc /\ fr.program = frames[f].program
      /\ fr.decision = frames[f].decision /\ fr.answer = frames[f].answer /\ Wordy(fr)
  BY DEF BanksOK, FrameFields, Keeps, Wordy
<1>3. Offers(fr)
  BY <1>2 DEF Offers, FrameWords
<1> QED
  BY <1>1, <1>2, <1>3 DEF WordMoves, FrameWords

\* An instruction that writes one word to its destination.
LEMMA YieldWords ==
  ASSUME NEW f, Fetches(f), NEW valid, NEW w, valid => w \in Word, Yield(f, valid, w)
  PROVE  WordMoves(f)
<1>1. CASE valid /\ CanWrite(D(f), w)
  <2>1. WordMachine(f, Write(M(f), D(f), w))
    BY <1>1, WritesWord DEF CanWrite, Fetches, Poised
  <2> QED
    BY <1>1, <2>1, GotoWords DEF Yield, Continue, Fetches, Poised
<1>2. CASE ~(valid /\ CanWrite(D(f), w))
  BY <1>2, StopWords DEF Yield, Fetches, Poised
<1> QED
  BY <1>1, <1>2

\* The result cells take numbers.
LEMMA WithWords ==
  ASSUME NEW fr, NEW fr2, Keeps(fr, fr2), Wordy(fr2), NEW r, NEW n \in Int
  PROVE  Keeps(fr, With(fr2, r, n)) /\ Wordy(With(fr2, r, n))
<1>1. Imm(n) \in Word
  BY OperandWords
<1>2. BanksOK(fr2)
  BY DEF Keeps
<1>3. Wordy([fr2 EXCEPT !.control[r] = Imm(n)])
  BY <1>1, <1>2, WritesControl
<1> QED
  BY <1>3, KeepsWith DEF With

\* The instructions that write what they read.
LEMMA ReadingWords ==
  ASSUME NEW f, Fetches(f), Set(f) \/ Select(f) \/ Load(f) \/ Attribute(f) \/ Compute(f)
                            \/ Compare(f) \/ At(f) \/ Length(f)
  PROVE  WordMoves(f)
<1>0. /\ Wordy(Fr(f)) /\ FieldsIn(fields) /\ D(f) \in Word /\ S(f) \in Word /\ T(f) \in Word
  BY DEF Fetches, Poised
<1>1. CASE Set(f)
  <2>1. Yield(f, CanRead(Fr(f), S(f)), Read(Fr(f), S(f)))
    BY <1>1 DEF Set
  <2> QED
    BY <1>0, <2>1, ReadsWord, YieldWords
<1>2. CASE Select(f)
  <2>1. Yield(f, Resolves(Fr(f), S(f)), Resolve(Fr(f), S(f)))
    BY <1>2 DEF Select
  <2> QED
    BY <1>0, <2>1, ReadsWord, YieldWords
<1>3. CASE Load(f)
  <2> DEFINE a == Resolve(Fr(f), S(f))
             valid == ValidAddress(a) /\ IsAttribute(a) /\ HasField(a)
  <2>1. IF IsAddressSource(S(f)) THEN Yield(f, valid, fields[FieldKey(a)])
        ELSE Yield(f, CanRead(Fr(f), S(f)), Read(Fr(f), S(f)))
    BY <1>3, Zenon DEF Load
  <2>2. valid => fields[FieldKey(a)] \in Word
    BY <1>0 DEF HasField, FieldsIn
  <2> HIDE DEF valid, a
  <2> QED
    BY <1>0, <2>1, <2>2, ReadsWord, YieldWords
<1>4. CASE Attribute(f)
  <2> DEFINE valid == /\ Resolves(Fr(f), S(f)) /\ IsNumber(Fr(f), T(f))
                      /\ Number(Fr(f), T(f)) \in 0 .. Largest(AttributeBits)
  <2>1. Yield(f, valid, WithAttribute(Resolve(Fr(f), S(f)), Number(Fr(f), T(f))))
    BY <1>4, Zenon DEF Attribute
  <2>2. valid => Number(Fr(f), T(f)) \in Nat
    OBVIOUS
  <2>3. valid => WithAttribute(Resolve(Fr(f), S(f)), Number(Fr(f), T(f))) \in Word
    BY <1>0, <2>2, ReadsWord, MadeWords
  <2> HIDE DEF valid
  <2> QED
    BY <2>1, <2>3, YieldWords
<1>5. CASE Compute(f)
  <2> DEFINE a == Number(Fr(f), S(f))
             b == IF IsNone(T(f)) THEN 0 ELSE Number(Fr(f), T(f))
             valid == /\ IsNumber(Fr(f), S(f)) /\ (IsNone(T(f)) \/ IsNumber(Fr(f), T(f)))
                      /\ Computable(MethodOf(I(f)), a, b)
  <2>1. Yield(f, valid, Imm(Arithmetic(MethodOf(I(f)), a, b)))
    BY <1>5, Zenon DEF Compute
  <2>2. valid => Arithmetic(MethodOf(I(f)), a, b) \in Int
    BY DEF Computable
  <2>3. valid => Imm(Arithmetic(MethodOf(I(f)), a, b)) \in Word
    BY <2>2, OperandWords
  <2> HIDE DEF valid, a, b
  <2> QED
    BY <2>1, <2>3, YieldWords
<1>6. CASE Compare(f)
  <2>1. \E valid, holds : Yield(f, valid, Imm(Bit(holds)))
    BY <1>6, Zenon DEF Compare
  <2>2. PICK valid, holds : Yield(f, valid, Imm(Bit(holds)))
    BY <2>1
  <2>3. Imm(Bit(holds)) \in Word
    BY OperandWords DEF Bit
  <2> QED
    BY <2>2, <2>3, YieldWords
<1>7. CASE At(f)
  <2> DEFINE n == Number(Fr(f), T(f))
             valid == /\ IsCollection(Fr(f), S(f)) /\ IsNumber(Fr(f), T(f))
                      /\ n \in 0 .. Len(Collection(Fr(f), S(f))) - 1
  <2>1. Yield(f, valid, Collection(Fr(f), S(f))[n + 1])
    BY <1>7, Zenon DEF At
  <2>2. ASSUME valid PROVE Collection(Fr(f), S(f))[n + 1] \in Word
    <3>1. PICK c \in Seq(Word) : c = Collection(Fr(f), S(f))
      BY <1>0, <2>2, ReadsNumber
    <3>2. Len(c) \in Nat /\ n + 1 \in 1 .. Len(c)
      BY <2>2, <3>1, LenProperties
    <3> QED
      BY <3>1, <3>2, ElementOfSeq
  <2> HIDE DEF valid, n
  <2> QED
    BY <2>1, <2>2, YieldWords
<1>8. CASE Length(f)
  <2>1. Yield(f, IsCollection(Fr(f), S(f)), Imm(Len(Collection(Fr(f), S(f)))))
    BY <1>8 DEF Length
  <2>2. IsCollection(Fr(f), S(f)) => Imm(Len(Collection(Fr(f), S(f)))) \in Word
    BY <1>0, ReadsNumber, LenProperties, OperandWords
  <2> QED
    BY <2>1, <2>2, YieldWords
<1> QED
  BY <1>1, <1>2, <1>3, <1>4, <1>5, <1>6, <1>7, <1>8

\* A draw below a number is a number.
LEMMA DrawsNumber ==
  ASSUME NEW bound \in Int, bound > 0, NEW n \in Bounded(bound)
  PROVE  n \in Int
<1>1. PICK x \in Samples : n = x % bound
  BY DEF Bounded, Accepted
<1>2. x \in Int
  BY DEF Samples
<1> QED
  BY <1>1, <1>2

\* RANDOM yields a recorded word or a number.
LEMMA RandomWords ==
  ASSUME NEW f, Fetches(f), Random(f)
  PROVE  WordMoves(f)
<1>0. /\ Wordy(Fr(f)) /\ FieldsIn(fields) /\ D(f) \in Word /\ S(f) \in Word /\ T(f) \in Word
  BY DEF Fetches, Poised
<1>1. CASE ~IsNone(S(f))
  <2>1. Yield(f, CanRead(Fr(f), S(f)), Read(Fr(f), S(f)))
    BY <1>1 DEF Random
  <2> QED
    BY <1>0, <2>1, ReadsWord, YieldWords
<1>2. CASE IsNone(S(f)) /\ IsNumber(Fr(f), T(f)) /\ Number(Fr(f), T(f)) > 0
  <2>1. PICK n \in Bounded(Number(Fr(f), T(f))) : Yield(f, TRUE, Imm(n))
    BY <1>2 DEF Random
  <2>2. Number(Fr(f), T(f)) \in Int
    BY <1>0, <1>2, ReadsNumber
  <2>3. Imm(n) \in Word
    BY <1>2, <2>2, DrawsNumber, OperandWords
  <2> QED
    BY <2>1, <2>3, YieldWords
<1>3. CASE ~(~IsNone(S(f))) /\ ~(IsNone(S(f)) /\ IsNumber(Fr(f), T(f)) /\ Number(Fr(f), T(f)) > 0)
  <2>1. Yield(f, FALSE, None)
    BY <1>3 DEF Random
  <2> QED
    BY <2>1, YieldWords
<1> QED
  BY <1>1, <1>2, <1>3

\* A field of the history is one of five.
LEMMA RecalledFields ==
  ASSUME NEW f, Fetches(f), On(f, {"HISTORY"})
  PROVE  MethodOf(I(f)) \in {"COUNT", "KIND", "SUBJECT", "OBJECT", "CONTEXT"}
<1>1. OpcodeOf(I(f)) = "HISTORY" /\ ValidInstruction(I(f)) /\ Operation(I(f)) \in Word
  BY DEF On, Fetches, Poised
<1>2. Sub(I(f)) < Len(Methods["HISTORY"]) /\ Sub(I(f)) \in Nat
  <2>1. ValidSubcode("HISTORY", Sub(I(f)))
    BY <1>1 DEF ValidInstruction
  <2>2. "HISTORY" \in DOMAIN Methods \ {"SUMMON"}
    BY DEF Methods
  <2> QED
    <3>1. Sub(I(f)) \in Nat
      BY <1>1, PartsOfWord DEF Sub
    <3>2. Sub(I(f)) < Len(Methods["HISTORY"])
      <4>1. "HISTORY" \notin NoSubcode
        BY DEF NoSubcode
      <4> QED
        BY <2>1, <2>2, <4>1 DEF ValidSubcode
    <3> QED
      BY <3>1, <3>2
<1>3. Methods["HISTORY"] = HistoryFields
  BY DEF Methods
<1>4. MethodOf(I(f)) = Name(HistoryFields, Sub(I(f)))
  BY <1>1, <1>3 DEF MethodOf
<1>5. Sub(I(f)) \in 0 .. 4
  BY <1>2, <1>3 DEF HistoryFields
<1> QED
  BY <1>4, <1>5 DEF Name, HistoryFields

\* HISTORY yields a number or a word of an event.
LEMMA RecallWords ==
  ASSUME NEW f, Fetches(f), HistoryIn, Recall(f)
  PROVE  WordMoves(f)
<1>0. /\ Wordy(Fr(f)) /\ FieldsIn(fields) /\ S(f) \in Word
  BY DEF Fetches, Poised
<1> DEFINE n == Number(Fr(f), S(f)) + 1
           event == history[n]
           field == MethodOf(I(f))
           valid == IsNumber(Fr(f), S(f)) /\ n \in DOMAIN history
           w == CASE field = "KIND" -> Imm(event.kind)
                  [] field = "SUBJECT" -> event.subject
                  [] field = "OBJECT" -> event.object
                  [] field = "CONTEXT" -> event.context
<1>1. /\ On(f, {"HISTORY"})
      /\ IF field = "COUNT" THEN Yield(f, TRUE, Imm(Len(history))) ELSE Yield(f, valid, w)
  BY Zenon DEF Recall
<1>2. Len(history) \in Nat /\ \A k \in DOMAIN history : history[k] \in Event
  BY LenProperties, ElementOfSeq DEF HistoryIn
<1>3. CASE field = "COUNT"
  <2>1. Yield(f, TRUE, Imm(Len(history)))
    BY <1>1, <1>3
  <2>2. Imm(Len(history)) \in Word
    BY <1>2, OperandWords
  <2> HIDE DEF field
  <2> QED
    BY <2>1, <2>2, YieldWords
<1>4. CASE field # "COUNT"
  <2>1. field \in {"KIND", "SUBJECT", "OBJECT", "CONTEXT"}
    BY <1>1, <1>4, RecalledFields
  <2>2. ASSUME valid PROVE w \in Word
    <3>1. PICK e \in Event : e = event
      BY <1>2, <2>2
    <3>2. Imm(e.kind) \in Word /\ e.subject \in Word /\ e.object \in Word /\ e.context \in Word
      BY OperandWords DEF Event
    <3> HIDE DEF event, field
    <3> QED
      BY <2>1, <3>1, <3>2
  <2>3. Yield(f, valid, w)
    BY <1>1, <1>4
  <2> HIDE DEF valid, w
  <2> QED
    BY <2>2, <2>3, YieldWords
<1> QED
  BY <1>3, <1>4

\* STORE writes what it reads, and whether it did.
LEMMA StoreWords ==
  ASSUME NEW f, Fetches(f), Store(f)
  PROVE  WordMoves(f)
<1>0. /\ Wordy(Fr(f)) /\ FieldsIn(fields) /\ D(f) \in Word /\ S(f) \in Word
      /\ WordMachine(f, M(f)) /\ Going(f) /\ FrameWords(frames[f])
  BY DEF Fetches, Poised
<1> DEFINE w == Read(Fr(f), S(f))
           to == Resolve(Fr(f), D(f))
           valid == /\ CanRead(Fr(f), S(f))
                    /\ IF IsAddressRegister(D(f))
                       THEN ValidAddress(to) /\ IsAttribute(to) /\ HasField(to)
                       ELSE CanWrite(D(f), w)
           m == IF valid THEN Write(M(f), to, w) ELSE M(f)
           done == IF D(f) = Control(ResultSuccess) THEN m
                   ELSE [m EXCEPT !.frame = With(@, ResultSuccess, Bit(valid))]
<1>1. IF valid THEN Continue(f, done) ELSE Stop(f, done.frame, "fault")
  BY Zenon DEF Store
<1>2. WordMachine(f, m)
  <2>1. CASE ~valid
    BY <1>0, <2>1
  <2>2. CASE valid
    <3>1. w \in Word
      BY <1>0, <2>2, ReadsWord
    <3>2. Fits(to, w)
      <4>1. CASE IsAddressRegister(D(f))
        <5>1. IsAttribute(to)
          BY <2>2, <4>1
        <5> QED
          <6>1. IsAddress(to)
            BY <5>1 DEF IsAttribute
          <6>2. ~IsRegister(to)
            BY <6>1, KindsDiffer
          <6> QED
            BY <6>2 DEF Fits, IsAddressRegister, IsFlagRegister, IsBank
      <4>2. CASE ~IsAddressRegister(D(f))
        BY <2>2, <4>2 DEF CanWrite, Resolve
      <4> QED
        BY <4>1, <4>2
    <3>3. m = Write(M(f), to, w)
      BY <2>2
    <3> HIDE DEF to, w, valid, m
    <3> QED
      BY <1>0, <3>1, <3>2, <3>3, WritesWord
  <2> QED
    BY <2>1, <2>2
<1> HIDE DEF m, valid
<1>3. WordMachine(f, done)
  <2>1. CASE D(f) = Control(ResultSuccess)
    BY <1>2, <2>1
  <2>2. CASE D(f) # Control(ResultSuccess)
    <3>1. done = [m EXCEPT !.frame = With(m.frame, ResultSuccess, Bit(valid))]
      BY <2>2
    <3>2. DOMAIN m = {"frame", "fields"} /\ Keeps(frames[f], m.frame) /\ Wordy(m.frame)
      BY <1>2 DEF WordMachine, Machine
    <3>3. Bit(valid) \in Int
      BY DEF Bit
    <3>4. /\ Keeps(frames[f], With(m.frame, ResultSuccess, Bit(valid)))
          /\ Wordy(With(m.frame, ResultSuccess, Bit(valid)))
      BY <3>2, <3>3, WithWords
    <3>5. /\ DOMAIN done = {"frame", "fields"} /\ done.fields = m.fields
          /\ done.frame = With(m.frame, ResultSuccess, Bit(valid))
      BY <3>1, <3>2
    <3> QED
      BY <1>2, <3>4, <3>5 DEF WordMachine, Machine
  <2> QED
    BY <2>1, <2>2
<1> HIDE DEF done
<1>4. CASE valid
  BY <1>0, <1>1, <1>3, <1>4, GotoWords DEF Continue
<1>5. CASE ~valid
  BY <1>0, <1>1, <1>3, <1>5, StopWords DEF WordMachine, Machine
<1> QED
  BY <1>4, <1>5

\* NOP, and the end of a frame.
LEMMA PlainWords ==
  ASSUME FramesOK, WInv, NEW f \in DOMAIN frames, Nop(f) \/ Finished(f)
  PROVE  WordMoves(f)
<1>1. CASE Nop(f)
  <2>1. Fetches(f)
    BY <1>1, FetchesWords DEF Nop
  <2> QED
    BY <1>1, <2>1, GotoWords DEF Nop, Continue, Fetches, Poised
<1>2. CASE Finished(f) /\ On(f, {"HALT"})
  <2>1. Fetches(f)
    BY <1>2, FetchesWords
  <2> QED
    BY <1>2, <2>1, StopWords DEF Finished, Fetches, Poised
<1>3. CASE Finished(f) /\ ~On(f, {"HALT"})
  <2>1. FrameWords(frames[f]) /\ FieldsIn(fields) /\ Sound(frames[f])
    BY DEF WInv, FramesOK, ToSet
  <2>2. Keeps(frames[f], frames[f])
    BY <2>1 DEF Sound, Keeps
  <2> QED
    BY <1>3, <2>1, <2>2, StopWords DEF Finished, FrameWords
<1> QED
  BY <1>1, <1>2, <1>3

\* A register that can be read is a cell of a frame,
LEMMA RegistersAreCells ==
  ASSUME NEW fr, NEW o, IsRegister(o), CanRead(fr, o)
  PROVE  IsCell(o)
<1>1. ~IsAttribute(o) /\ ~IsImmediate(o) /\ ~IsAddress(o)
  BY KindsDiffer DEF IsAttribute, IsImmediate, IsRegister, ImmediateTag, RegisterTag
<1> QED
  BY <1>1 DEF CanRead

\* and what it holds fits any register of its bank.
LEMMA SameBankFits ==
  ASSUME NEW fr, BanksOK(fr), NEW o, NEW o2 \in Word, IsRegister(o), IsRegister(o2),
         BankOf(o) = BankOf(o2), CanRead(fr, o2)
  PROVE  Fits(o, Cell(fr, o2))
<1>0. IndexOf(o2) \in Indices
  BY IndexInBank
<1>1. CASE IsAddressRegister(o)
  <2>1. IsAddressRegister(o2)
    BY <1>1 DEF IsAddressRegister, IsBank
  <2>2. Cell(fr, o2) = fr.address[IndexOf(o2)]
    BY <2>1, KindsDiffer DEF Cell
  <2>3. ~IsNone(Cell(fr, o2))
    BY <2>1 DEF CanRead, IsCell
  <2>4. ValidAddress(Cell(fr, o2))
    BY <1>0, <2>2, <2>3, NoneIsNone DEF BanksOK, AddressWord
  <2> QED
    BY <1>1, <2>4, KindsDiffer DEF Fits
<1>2. CASE IsFlagRegister(o)
  <2>1. IsFlagRegister(o2)
    BY <1>2 DEF IsFlagRegister, IsBank
  <2>2. Cell(fr, o2) = fr.flag[IndexOf(o2)]
    BY <2>1, KindsDiffer DEF Cell
  <2>3. ~IsNone(Cell(fr, o2))
    BY <2>1 DEF CanRead, IsCell
  <2>4. FlagWord(Cell(fr, o2)) /\ Cell(fr, o2) # None
    BY <1>0, <2>2, <2>3, NoneIsNone DEF BanksOK
  <2> QED
    BY <1>2, <2>4, KindsDiffer DEF Fits, FlagWord
<1> QED
  BY <1>1, <1>2 DEF Fits

\* SWAP writes what two registers of a bank held.
LEMMA SwapWords ==
  ASSUME FramesOK, NEW f \in DOMAIN frames, Fetches(f), Swap(f)
  PROVE  WordMoves(f)
<1>0. /\ Wordy(Fr(f)) /\ FieldsIn(fields) /\ D(f) \in Word /\ S(f) \in Word
      /\ FrameWords(frames[f]) /\ Keeps(frames[f], Fr(f)) /\ BanksOK(Fr(f))
      /\ WordMachine(f, M(f)) /\ Going(f)
  BY DEF Fetches, Poised, Keeps
<1> DEFINE same == IsRegister(D(f)) /\ IsRegister(S(f)) /\ BankOf(D(f)) = BankOf(S(f))
           readable == CanRead(Fr(f), D(f)) /\ CanRead(Fr(f), S(f))
           m == Write(M(f), D(f), Cell(Fr(f), S(f)))
           m2 == Write(m, S(f), Cell(Fr(f), D(f)))
<1>1. IF ~same THEN Stop(f, Fr(f), "unsupported")
      ELSE IF ~readable THEN Stop(f, Fr(f), "fault") ELSE Continue(f, m2)
  BY DEF Swap
<1>2. CASE ~(same /\ readable)
  <2>1. Stop(f, Fr(f), "unsupported") \/ Stop(f, Fr(f), "fault")
    BY <1>1, <1>2
  <2> QED
    BY <1>0, <2>1, StopWords
<1>3. CASE same /\ readable
  <2>1. /\ IsCell(D(f)) /\ IsCell(S(f))
        /\ Fits(D(f), Cell(Fr(f), S(f))) /\ Fits(S(f), Cell(Fr(f), D(f)))
    <3>1. IsCell(D(f)) /\ IsCell(S(f))
      BY <1>3, RegistersAreCells
    <3> QED
      BY <1>0, <1>3, <3>1, SameBankFits
  <2>2. Cell(Fr(f), S(f)) \in Word /\ Cell(Fr(f), D(f)) \in Word
    BY <1>0, <2>1, ReadsWord
  <2> HIDE DEF same, readable
  <2>3. WordMachine(f, m)
    BY <1>0, <2>1, <2>2, WritesWord
  <2> HIDE DEF m
  <2>4. WordMachine(f, m2)
    BY <2>1, <2>2, <2>3, WritesWord
  <2> HIDE DEF m2
  <2>5. Continue(f, m2)
    BY <1>1, <1>3
  <2> QED
    BY <1>0, <2>4, <2>5, GotoWords DEF Continue
<1> QED
  BY <1>2, <1>3

\* JUMP and JUMPIF change nothing but the pc.
LEMMA BranchWords ==
  ASSUME NEW f, Fetches(f), Branch(f)
  PROVE  WordMoves(f)
<1>1. \/ \E pc : Goto(f, M(f), pc)
      \/ \E status : Stop(f, Fr(f), status)
  BY Zenon DEF Branch, Continue, On
<1> QED
  BY <1>1, GotoWords, StopWords DEF Fetches, Poised

\* Zones hold numbers, so their members are words.
LEMMA MembersAreWords ==
  ASSUME ZonesIn(zones), NEW place \in Places
  PROVE  Members(place) \in Seq(Word)
<1>1. zones[place] \in Seq(Nat) /\ Len(zones[place]) \in Nat
  BY LenProperties DEF ZonesIn
<1>2. \A n \in 1 .. Len(zones[place]) : zones[place][n] \in Nat
  BY <1>1, LenProperties, ElementOfSeq
<1>3. DOMAIN zones[place] = 1 .. Len(zones[place])
  BY <1>1, LenProperties
<1>4. Members(place) \in [1 .. Len(zones[place]) -> Word]
  BY <1>2, <1>3, MadeWords DEF Members
<1> QED
  BY <1>1, <1>4, SeqDef

\* ENUMERATE collects words.
LEMMA QueryWords ==
  ASSUME NEW f, Fetches(f), ZonesIn(zones), Query(f)
  PROVE  WordMoves(f)
<1>0. /\ Wordy(Fr(f)) /\ FieldsIn(fields) /\ D(f) \in Word /\ S(f) \in Word
      /\ FrameWords(frames[f]) /\ Keeps(frames[f], Fr(f)) /\ BanksOK(Fr(f))
      /\ WordMachine(f, M(f)) /\ Going(f) /\ ValidInstruction(I(f))
  BY DEF Fetches, Poised, Keeps
<1> DEFINE place == Resolve(Fr(f), S(f))
           empty == OpcodeOf(I(f)) = "ENUMERATE" /\ IsNone(S(f))
           valid == empty \/ place \in Places
           members == IF empty THEN <<>> ELSE Members(place)
           handle == MakeTagged(CollectionTag, Len(frames[f].collections))
           added == [M(f) EXCEPT !.frame.collections = Append(@, members)]
<1>1. /\ On(f, {"COUNT", "ENUMERATE"})
      /\ IF ~valid THEN Stop(f, Fr(f), "fault")
         ELSE IF OpcodeOf(I(f)) = "COUNT" THEN Yield(f, TRUE, Imm(Len(members)))
         ELSE Continue(f, Write(added, D(f), handle))
  BY Zenon DEF Query
<1>2. CASE ~valid
  <2>1. Stop(f, Fr(f), "fault")
    BY <1>1, <1>2
  <2> QED
    BY <1>0, <2>1, StopWords
<1>3. CASE valid
  <2>1. members \in Seq(Word)
    BY <1>3, MembersAreWords
  <2>2. CASE OpcodeOf(I(f)) = "COUNT"
    <3>1. Yield(f, TRUE, Imm(Len(members)))
      BY <1>1, <1>3, <2>2
    <3> HIDE DEF members
    <3>2. Imm(Len(members)) \in Word
      BY <2>1, LenProperties, OperandWords
    <3> QED
      BY <3>1, <3>2, YieldWords
  <2>3. CASE OpcodeOf(I(f)) # "COUNT"
    <3>1. Continue(f, Write(added, D(f), handle))
      BY <1>1, <1>3, <2>3
    <3>2. OpcodeOf(I(f)) = "ENUMERATE"
      BY <1>1, <2>3 DEF On
    <3>3. Fits(D(f), handle)
      <4>1. ValidForm("ENUMERATE", Sub(I(f)), D(f), S(f), T(f))
        BY <1>0, <3>2 DEF ValidInstruction, D, S, T
      <4>2. IsValueRegister(D(f))
        BY <4>1 DEF ValidForm
      <4> QED
        BY <4>2, KindsDiffer DEF Fits
    <3>4. handle \in Word
      <4>1. Len(frames[f].collections) \in Nat
        BY <1>0, LenProperties DEF FrameWords, Wordy
      <4> QED
        BY <4>1, MadeWords
    <3> HIDE DEF members, handle, valid, empty, place
    <3>5. WordMachine(f, added)
      <4> DEFINE fr == [Fr(f) EXCEPT !.collections = Append(@, members)]
      <4>1. added = [frame |-> fr, fields |-> fields]
        BY DEF M
      <4>2. Append(Fr(f).collections, members) \in Seq(Seq(Word))
        BY <1>0, <2>1, AppendProperties DEF Wordy
      <4>3. Wordy(fr) /\ Keeps(frames[f], fr)
        BY <1>0, <4>2 DEF Wordy, Keeps, BanksOK, FrameFields
      <4> HIDE DEF fr, added
      <4> QED
        BY <1>0, <4>1, <4>3 DEF WordMachine, Machine
    <3> HIDE DEF added
    <3>6. WordMachine(f, Write(added, D(f), handle))
      BY <3>3, <3>4, <3>5, WritesWord
    <3> QED
      BY <1>0, <3>1, <3>6, GotoWords DEF Continue
  <2> QED
    BY <2>2, <2>3
<1> QED
  BY <1>2, <1>3

\* A collection grows by a word.
LEMMA AppendWords ==
  ASSUME NEW f, Fetches(f), AppendTo(f)
  PROVE  WordMoves(f)
<1>0. /\ Wordy(Fr(f)) /\ FieldsIn(fields) /\ D(f) \in Word /\ S(f) \in Word
      /\ FrameWords(frames[f]) /\ Keeps(frames[f], Fr(f)) /\ BanksOK(Fr(f)) /\ Going(f)
  BY DEF Fetches, Poised, Keeps
<1> DEFINE object == Resolve(Fr(f), S(f))
           at == PayloadOf(Read(Fr(f), D(f))) + 1
           valid == IsCollection(Fr(f), D(f)) /\ ValidAddress(object) /\ IsObject(object)
           m == [M(f) EXCEPT !.frame.collections[at] = Append(@, object)]
           fr == [Fr(f) EXCEPT !.collections[at] = Append(@, object)]
<1>1. IF valid THEN Continue(f, m) ELSE Stop(f, Fr(f), "fault")
  BY Zenon DEF AppendTo
<1>2. CASE ~valid
  <2>1. Stop(f, Fr(f), "fault")
    BY <1>1, <1>2
  <2> QED
    BY <1>0, <2>1, StopWords
<1>3. CASE valid
  <2>1. Continue(f, m)
    BY <1>1, <1>3
  <2>2. m = [frame |-> fr, fields |-> fields]
    BY DEF M
  <2>3. object \in Word
    BY <1>0, ReadsWord
  <2>4. at \in DOMAIN Fr(f).collections /\ Fr(f).collections \in Seq(Seq(Word))
    BY <1>0, <1>3, ReadsNumber DEF Wordy
  <2> HIDE DEF at, object, valid, m
  <2>5. Fr(f).collections[at] \in Seq(Word)
    BY <2>4, LenProperties, ElementOfSeq
  <2>6. Append(Fr(f).collections[at], object) \in Seq(Word)
    BY <2>3, <2>5, AppendProperties
  <2>7. [Fr(f).collections EXCEPT ![at] = Append(Fr(f).collections[at], object)] \in Seq(Seq(Word))
    BY <2>4, <2>6, LenProperties, ExceptSeq
  <2>8. fr = [Fr(f) EXCEPT !.collections = [Fr(f).collections EXCEPT ![at] = Append(Fr(f).collections[at], object)]]
    BY <1>0 DEF BanksOK, FrameFields
  <2> HIDE DEF fr
  <2>9. Wordy(fr) /\ Keeps(frames[f], fr)
    BY <1>0, <2>7, <2>8 DEF Wordy, Keeps, BanksOK, FrameFields
  <2>10. WordMachine(f, m)
    BY <1>0, <2>2, <2>9 DEF WordMachine, Machine
  <2> QED
    BY <1>0, <2>1, <2>10, GotoWords DEF Continue
<1> QED
  BY <1>2, <1>3

\* A question offers the words of a collection.
LEMMA AskWords ==
  ASSUME FramesOK, WInv, NEW f \in DOMAIN frames, Ask(f)
  PROVE  WordMoves(f)
<1>1. On(f, {"CHOOSE"}) /\ frames[f].decision = <<>>
  BY DEF Ask
<1>2. /\ Wordy(Fr(f)) /\ FieldsIn(fields) /\ S(f) \in Word
      /\ FrameWords(frames[f]) /\ Keeps(frames[f], Fr(f)) /\ BanksOK(Fr(f))
  BY <1>1, PoisedWords DEF Poised, Keeps
<1>3. Sound(frames[f])
  BY DEF FramesOK, ToSet
<1> DEFINE objects == IsAddressRegister(D(f))
           options == IF objects THEN Collection(Fr(f), S(f)) ELSE <<>>
           count == IF objects THEN Len(options) ELSE Number(Fr(f), S(f))
           valid == /\ IsNumber(Fr(f), T(f)) /\ Number(Fr(f), T(f)) >= 0
                    /\ IF objects THEN IsCollection(Fr(f), S(f)) ELSE IsNumber(Fr(f), S(f))
                    /\ count > 0
           decision == [pc |-> Fr(f).pc, player |-> Number(Fr(f), T(f)), count |-> count,
                        candidates |-> options]
<1>4. IF valid THEN Stop(f, [Fr(f) EXCEPT !.decision = <<decision>>], "waiting")
      ELSE Stop(f, Fr(f), "fault")
  BY <1>1, Zenon DEF Ask
<1>5. CASE ~valid
  <2>1. Stop(f, Fr(f), "fault")
    BY <1>4, <1>5
  <2> QED
    BY <1>2, <2>1, StopWords
<1>6. CASE valid
  <2> DEFINE fr == [[Fr(f) EXCEPT !.decision = <<decision>>] EXCEPT !.status = "waiting"]
  <2>1. frames' = [frames EXCEPT ![f] = fr] /\ fields' = fields
    BY <1>4, <1>6 DEF Stop
  <2>2. /\ decision.candidates = options
        /\ IsAddressRegister(Dst(frames[f].program[frames[f].pc + 1])) => decision.count = Len(options)
    BY DEF D, I
  <2>3. options \in Seq(Word)
    BY <1>2, <1>6, ReadsNumber
  <2>4. frames[f].answer = <<>>
    BY <1>1, <1>3 DEF Sound, QuestionOK
  <2> HIDE DEF decision, options, valid, count, objects
  <2>5. /\ Wordy(fr) /\ fr.pc = frames[f].pc /\ fr.program = frames[f].program
        /\ fr.decision = <<decision>> /\ fr.answer = <<>>
    BY <1>2, <2>4 DEF Wordy, Keeps, BanksOK, FrameFields
  <2>6. fr.decision[1] = decision /\ fr.answer \in Seq(Nat)
    <3>1. <<decision>>[1] = decision /\ <<>> \in Seq(Nat)
      OBVIOUS
    <3> QED
      BY <2>5, <3>1
  <2> HIDE DEF fr
  <2>7. Offers(fr)
    BY <2>2, <2>3, <2>5, <2>6 DEF Offers
  <2> QED
    BY <1>2, <2>1, <2>5, <2>7 DEF WordMoves, FrameWords
<1> QED
  BY <1>5, <1>6

\* The answer picks one of them.
LEMMA ResumeWords ==
  ASSUME FramesOK, WInv, NEW f \in DOMAIN frames, Resume(f)
  PROVE  WordMoves(f)
<1>1. On(f, {"CHOOSE"}) /\ frames[f].decision # <<>>
  BY DEF Resume
<1>2. /\ FieldsIn(fields) /\ FrameWords(frames[f]) /\ Keeps(frames[f], Fr(f)) /\ Wordy(Fr(f))
      /\ WordMachine(f, M(f))
  BY <1>1, PoisedWords DEF Poised
<1> DEFINE decision == frames[f].decision[1]
           index == frames[f].answer[1]
           w == IF IsAddressRegister(D(f)) THEN decision.candidates[index + 1] ELSE Imm(index)
           m == Write(M(f), D(f), w)
           m2 == [m EXCEPT !.frame = Forget(@)]
<1>3. \/ \E status : Stop(f, Fr(f), status)
      \/ /\ frames[f].answer # <<>> /\ index < decision.count /\ CanWrite(D(f), w)
         /\ Continue(f, m2)
  BY Zenon DEF Resume
<1>4. CASE \E status : Stop(f, Fr(f), status)
  BY <1>2, <1>4, StopWords
<1>5. CASE /\ frames[f].answer # <<>> /\ index < decision.count /\ CanWrite(D(f), w)
           /\ Continue(f, m2)
  <2>1. /\ decision.candidates \in Seq(Word) /\ frames[f].answer \in Seq(Nat)
        /\ IsAddressRegister(D(f)) => decision.count = Len(decision.candidates)
    BY <1>1, <1>2 DEF FrameWords, Offers, D, I
  <2>2. index \in Nat
    <3>1. PICK s \in Seq(Nat) : s = frames[f].answer /\ s # <<>>
      BY <1>5, <2>1
    <3>2. Len(s) \in Nat /\ Len(s) # 0
      BY <3>1, LenProperties, EmptySeq
    <3>3. 1 \in 1 .. Len(s)
      BY <3>2
    <3> QED
      BY <3>1, <3>3, ElementOfSeq
  <2>3. w \in Word
    <3>1. CASE IsAddressRegister(D(f))
      <4>1. PICK c \in Seq(Word) : c = decision.candidates
        BY <2>1
      <4>2. Len(c) \in Nat /\ index < Len(c)
        BY <1>5, <2>1, <3>1, <4>1, LenProperties
      <4>3. index + 1 \in 1 .. Len(c)
        BY <2>2, <4>2
      <4> QED
        BY <3>1, <4>1, <4>3, ElementOfSeq
    <3>2. CASE ~IsAddressRegister(D(f))
      BY <2>2, <3>2, OperandWords
    <3> QED
      BY <3>1, <3>2
  <2> HIDE DEF w
  <2>4. WordMachine(f, m)
    BY <1>2, <1>5, <2>3, WritesWord DEF CanWrite
  <2> HIDE DEF m
  <2>5. m2.frame = Forget(m.frame) /\ m2.fields = m.fields
    BY <2>4 DEF WordMachine, Machine
  <2> DEFINE fr == [Forget(m.frame) EXCEPT !.pc = frames[f].pc + 1, !.status = "running"]
  <2>6. frames' = [frames EXCEPT ![f] = fr] /\ fields' = m.fields
    BY <1>5, <2>5 DEF Continue, Goto
  <2>7. Wordy(fr) /\ fr.decision = <<>>
    BY <2>4 DEF WordMachine, Machine, Wordy, Forget, Keeps, BanksOK, FrameFields
  <2> HIDE DEF fr
  <2> QED
    BY <2>4, <2>6, <2>7 DEF WordMoves, WordMachine, FrameWords, Offers
<1> QED
  BY <1>3, <1>4, <1>5

\* The host answers with a number.
LEMMA AnswerWords ==
  ASSUME FramesOK, WInv, NEW f \in DOMAIN frames, NEW index \in Nat, AnswerWith(f, index)
  PROVE  WordMoves(f)
<1> DEFINE fr == [frames[f] EXCEPT !.answer = <<index>>]
<1>1. frames' = [frames EXCEPT ![f] = fr] /\ fields' = fields
  BY DEF AnswerWith
<1>2. Sound(frames[f]) /\ FrameWords(frames[f]) /\ FieldsIn(fields)
  BY DEF WInv, FramesOK, ToSet
<1>3. /\ fr.pc = frames[f].pc /\ fr.program = frames[f].program
      /\ fr.decision = frames[f].decision /\ fr.answer = <<index>> /\ Wordy(fr)
  BY <1>2 DEF Sound, BanksOK, FrameFields, FrameWords, Wordy
<1>4. <<index>> \in Seq(Nat)
  OBVIOUS
<1>5. Offers(fr)
  BY <1>2, <1>3, <1>4 DEF Offers, FrameWords
<1> QED
  BY <1>1, <1>2, <1>3, <1>5 DEF WordMoves, FrameWords

\* Nothing is a word, too.
LEMMA NoneIsWord == None \in Word
<1>1. NoneTag \in 0 .. 7 /\ 0 \in Int
  BY DEF NoneTag
<1> QED
  BY <1>1, Tagged DEF None

\* The cells of an event take words.
LEMMA CopyWords ==
  ASSUME NEW id, Captive(entries[id].frame), Wordy(entries[id].frame), NEW e \in Event
  PROVE  Wordy(Copy(id, e))
<1> DEFINE old == entries[id].frame
           control == [old.control EXCEPT ![8] = Imm(e.kind), ![9] = e.subject,
                                          ![10] = e.object, ![11] = e.context]
<1>1. Imm(e.kind) \in Word /\ e.subject \in Word /\ e.object \in Word /\ e.context \in Word
  BY OperandWords DEF Event
<1>2. DOMAIN old = FrameFields /\ DOMAIN old.control = ControlCells
  BY DEF Captive, Sound, BanksOK
<1>3. \A r \in ControlCells : control[r] \in Word
  BY <1>1, <1>2 DEF Wordy
<1>4. Copy(id, e) = [old EXCEPT !.control = control]
  BY DEF Copy
<1> HIDE DEF control
<1>5. /\ Copy(id, e).control = control /\ Copy(id, e).value = old.value
      /\ Copy(id, e).address = old.address /\ Copy(id, e).flag = old.flag
      /\ Copy(id, e).collections = old.collections
  BY <1>2, <1>4 DEF FrameFields
<1> QED
  BY <1>3, <1>5 DEF Wordy

\* What is delivered is recorded and queued as words.
LEMMA DeliverWords ==
  ASSUME IInv, WInv, NEW kind, NEW events \in Seq(Event), Deliver(kind, events)
  PROVE  history' \in Seq(Event) /\ \A fr \in ToSet(ready') : Wordy(fr)
<1>1. Len(events) \in Nat /\ history' = history \o events
  BY LenProperties DEF Deliver
<1>2. history' \in Seq(Event)
  BY <1>1, ConcatProperties DEF WInv, HistoryIn
<1>3. PICK copies : /\ ready' = ready \o copies /\ copies \in Seq(ToSet(copies))
                    /\ \A fr \in ToSet(copies) :
                         \E id \in DOMAIN entries, n \in 1 .. Len(events) : fr = Copy(id, events[n])
  BY <1>1, Delivered DEF IInv
<1>4. ASSUME NEW fr \in ToSet(copies) PROVE Wordy(fr)
  <2>1. PICK id \in DOMAIN entries, n \in 1 .. Len(events) : fr = Copy(id, events[n])
    BY <1>3
  <2>2. Captive(entries[id].frame) /\ Wordy(entries[id].frame)
    BY DEF IInv, EntriesOK, WInv
  <2>3. events[n] \in Event
    BY <1>1, ElementOfSeq
  <2> QED
    BY <2>1, <2>2, <2>3, CopyWords
<1>5. ToSet(ready') \subseteq ToSet(ready) \cup ToSet(copies)
  BY <1>3, ConcatElements DEF IInv, ReadyOK
<1> QED
  BY <1>2, <1>4, <1>5 DEF WInv

\* SUBSCRIBE and SCHEDULE capture words,
LEMMA CapturedWords ==
  ASSUME IInv, WInv, NEW f \in DOMAIN frames, On(f, {"SCHEDULE", "SUBSCRIBE"})
  PROVE  Wordy(Captured(f))
<1> DEFINE held == IF IsValueRegister(D(f)) THEN SetCell(Fr(f), D(f), Imm(next)) ELSE Fr(f)
<1>1. Fetches(f)
  BY FetchesWords DEF IInv
<1>2. Imm(next) \in Word
  BY OperandWords DEF IInv, EntriesOK
<1>3. Keeps(frames[f], Fr(f)) /\ Wordy(Fr(f)) /\ BanksOK(Fr(f))
  BY <1>1 DEF Fetches, Poised, Keeps
<1>4. Keeps(frames[f], held) /\ Wordy(held)
  <2>1. CASE IsValueRegister(D(f))
    <3>1. IsCell(D(f)) /\ Fits(D(f), Imm(next))
      BY <2>1, KindsDiffer DEF IsCell, Fits
    <3> QED
      BY <1>2, <1>3, <2>1, <3>1, KeepsCell, WritesCell
  <2>2. CASE ~IsValueRegister(D(f))
    BY <1>3, <2>2
  <2> QED
    BY <2>1, <2>2
<1>5. Captured(f) = [Forget(held) EXCEPT !.pc = ImmediateValue(S(f)), !.status = "running"]
  BY DEF Captured
<1> HIDE DEF held
<1> QED
  BY <1>4, <1>5 DEF Keeps, BanksOK, FrameFields, Forget, Wordy

\* and yield an id.
LEMMA RegisterWords ==
  ASSUME IInv, WInv, NEW f \in DOMAIN frames, Register(f)
  PROVE  WordMoves(f)
<1>1. On(f, {"SCHEDULE", "SUBSCRIBE"}) /\ \E valid : Yield(f, valid, Imm(next))
  BY DEF Register
<1>2. Fetches(f)
  BY <1>1, FetchesWords DEF IInv
<1>3. Imm(next) \in Word
  BY OperandWords DEF IInv, EntriesOK
<1> QED
  BY <1>1, <1>2, <1>3, YieldWords

\* A frame and the storage after a result was written.
LEMMA ResultWords ==
  ASSUME NEW f, NEW m, WordMachine(f, m), NEW r, NEW n \in Int
  PROVE  WordMachine(f, [m EXCEPT !.frame = With(@, r, n)])
<1> DEFINE m2 == [m EXCEPT !.frame = With(@, r, n)]
<1>1. DOMAIN m = {"frame", "fields"} /\ Keeps(frames[f], m.frame) /\ Wordy(m.frame)
  BY DEF WordMachine, Machine
<1>2. Keeps(frames[f], With(m.frame, r, n)) /\ Wordy(With(m.frame, r, n))
  BY <1>1, WithWords
<1>3. /\ DOMAIN m2 = {"frame", "fields"} /\ m2.fields = m.fields
      /\ m2.frame = With(m.frame, r, n)
  BY <1>1
<1> HIDE DEF m2
<1>4. WordMachine(f, m2)
  BY <1>2, <1>3 DEF WordMachine, Machine
<1> QED
  BY <1>4 DEF m2

\* CANCEL tells whether it did.
LEMMA CancelWords ==
  ASSUME FramesOK, WInv, NEW f \in DOMAIN frames, Cancel(f)
  PROVE  WordMoves(f)
<1>1. Fetches(f)
  BY FetchesWords DEF Cancel
<1>2. \/ Stop(f, Fr(f), "fault")
      \/ \E b : Continue(f, [M(f) EXCEPT !.frame = With(@, ResultSuccess, Bit(b))])
  BY Zenon DEF Cancel
<1>3. CASE Stop(f, Fr(f), "fault")
  BY <1>1, <1>3, StopWords DEF Fetches, Poised
<1>4. CASE \E b : Continue(f, [M(f) EXCEPT !.frame = With(@, ResultSuccess, Bit(b))])
  <2>1. PICK b : Continue(f, [M(f) EXCEPT !.frame = With(@, ResultSuccess, Bit(b))])
    BY <1>4
  <2>2. PICK n \in Int : n = Bit(b)
    BY DEF Bit
  <2>3. Continue(f, [M(f) EXCEPT !.frame = With(@, ResultSuccess, n)])
    BY <2>1, <2>2
  <2>4. WordMachine(f, [M(f) EXCEPT !.frame = With(@, ResultSuccess, n)])
    BY <1>1, ResultWords DEF Fetches, Poised
  <2> QED
    BY <1>1, <2>3, <2>4, GotoWords DEF Continue, Fetches
<1> QED
  BY <1>2, <1>3, <1>4

\* EVENT delivers what its operands read.
LEMMA AnnounceWords ==
  ASSUME IInv, WInv, NEW f \in DOMAIN frames, Announce(f)
  PROVE  /\ WordMoves(f)
         /\ (history' = history /\ ready' = ready) \/ (history' \in Seq(Event) /\ \A fr \in ToSet(ready') : Wordy(fr))
<1>1. Fetches(f)
  BY FetchesWords DEF Announce, IInv
<1> DEFINE given(o) == IF IsNone(o) THEN None ELSE Read(Fr(f), o)
           event == [kind |-> Sub(I(f)), subject |-> given(D(f)), object |-> given(S(f)),
                     context |-> given(T(f))]
           readable == \A o \in {D(f), S(f), T(f)} : IsNone(o) \/ CanRead(Fr(f), o)
<1>2. IF readable THEN Deliver(event.kind, <<event>>) /\ Continue(f, M(f))
      ELSE Stop(f, Fr(f), "fault") /\ UNCHANGED <<history, ready>>
  BY Zenon DEF Announce
<1>3. CASE ~readable
  <2>1. Stop(f, Fr(f), "fault") /\ UNCHANGED <<history, ready>>
    BY <1>2, <1>3
  <2> QED
    BY <1>1, <2>1, StopWords DEF Fetches, Poised
<1>4. CASE readable
  <2>1. \A o \in {D(f), S(f), T(f)} : given(o) \in Word
    <3>1. None \in Word
      BY NoneIsWord
    <3> QED
      BY <1>1, <1>4, <3>1, ReadsWord DEF Fetches, Poised
  <2>2. Sub(I(f)) \in Int
    BY <1>1, PartsOfWord DEF Sub, Fetches, Poised
  <2>3. event \in Event
    <3> HIDE DEF given
    <3> QED
      BY <2>1, <2>2 DEF Event
  <2>4. Deliver(event.kind, <<event>>) /\ Continue(f, M(f))
    BY <1>2, <1>4
  <2> HIDE DEF event, readable
  <2>5. <<event>> \in Seq(Event)
    BY <2>3
  <2> QED
    BY <1>1, <2>4, <2>5, DeliverWords, GotoWords DEF Continue, Fetches, Poised
<1> QED
  BY <1>3, <1>4

\* To remove the first of equal elements is to leave out one.
LEMMA FirstIs ==
  ASSUME NEW s \in Seq(Nat), NEW e, \E i \in 1 .. Len(s) : s[i] = e
  PROVE  \E at \in 1 .. Len(s) :
           RemoveFirst(s, e) = SubSeq(s, 1, at - 1) \o SubSeq(s, at + 1, Len(s))
<1> DEFINE ats == {i \in 1 .. Len(s) : s[i] = e}
<1>1. Len(s) \in Nat
  BY LenProperties
<1>2. ats # {} /\ ats \in SUBSET Nat
  BY <1>1
<1>3. \E m \in ats : \A n \in ats : m <= n
  BY <1>2, Least
<1>4. RemoveFirst(s, e) = SubSeq(s, 1, Min(ats) - 1) \o SubSeq(s, Min(ats) + 1, Len(s))
  BY <1>2, Zenon DEF RemoveFirst, RemoveAt, SelectInSeq
<1>5. Min(ats) \in ats
  <2> HIDE DEF ats
  <2> QED
    BY <1>3, Zenon DEF Min
<1>6. PICK at \in 1 .. Len(s) : at = Min(ats)
  BY <1>5
<1> HIDE DEF ats
<1> QED
  BY <1>4, <1>6

\* So what is left are cards.
LEMMA RemovedIs ==
  ASSUME NEW s \in Seq(Nat), NEW e
  PROVE  RemoveFirst(s, e) \in Seq(Nat)
<1>1. CASE ~(\E i \in 1 .. Len(s) : s[i] = e)
  BY <1>1 DEF RemoveFirst
<1>2. CASE \E i \in 1 .. Len(s) : s[i] = e
  <2>1. PICK at \in 1 .. Len(s) :
               RemoveFirst(s, e) = SubSeq(s, 1, at - 1) \o SubSeq(s, at + 1, Len(s))
    BY <1>2, FirstIs
  <2>2. Len(s) \in Nat
    BY LenProperties
  <2>3. SubSeq(s, 1, at - 1) \in Seq(Nat) /\ SubSeq(s, at + 1, Len(s)) \in Seq(Nat)
    BY <2>2, SubSeqProperties
  <2> QED
    BY <2>1, <2>3, ConcatProperties
<1> QED
  BY <1>1, <1>2

\* A move puts its card where it should be and takes no other card from there.
LEMMA RelocatedHolds ==
  ASSUME NEW zs, ZonesIn(zs), NEW card \in Nat, NEW to
  PROVE  /\ ZonesIn(Relocated(zs, card, to))
         /\ to \in Places =>
              /\ Contains(Relocated(zs, card, to)[to], card)
              /\ \A c : Contains(zs[to], c) => Contains(Relocated(zs, card, to)[to], c)
<1> DEFINE after == Relocated(zs, card, to)
<1>1. \A p \in Places : after[p] = IF Contains(zs[p], card) /\ p # to THEN RemoveFirst(zs[p], card)
                                   ELSE IF p = to /\ ~Contains(zs[p], card) THEN Append(zs[p], card)
                                   ELSE zs[p]
  BY DEF Relocated
<1> HIDE DEF after
<1>2. ASSUME NEW p \in Places PROVE after[p] \in Seq(Nat)
  <2>1. zs[p] \in Seq(Nat)
    BY DEF ZonesIn
  <2>2. RemoveFirst(zs[p], card) \in Seq(Nat) /\ Append(zs[p], card) \in Seq(Nat)
    BY <2>1, RemovedIs, AppendProperties
  <2> QED
    BY <1>1, <2>1, <2>2
<1>3. ASSUME to \in Places
      PROVE  Contains(after[to], card) /\ \A c : Contains(zs[to], c) => Contains(after[to], c)
  <2>1. CASE Contains(zs[to], card)
    BY <1>1, <1>3, <2>1
  <2>2. CASE ~Contains(zs[to], card)
    <3>1. after[to] = Append(zs[to], card)
      BY <1>1, <1>3, <2>2
    <3>2. PICK old \in Seq(Nat) : old = zs[to] /\ Len(old) \in Nat
      BY <1>3, LenProperties DEF ZonesIn
    <3>3. /\ Len(after[to]) = Len(old) + 1 /\ after[to][Len(old) + 1] = card
          /\ \A i \in 1 .. Len(old) : after[to][i] = old[i]
      BY <3>1, <3>2, AppendProperties
    <3>4. PICK longer : longer = after[to]
      OBVIOUS
    <3>5. Contains(longer, card)
      BY <3>2, <3>3, <3>4 DEF Contains
    <3>6. ASSUME NEW c, Contains(old, c) PROVE Contains(longer, c)
      BY <3>2, <3>3, <3>4, <3>6 DEF Contains
    <3> QED
      BY <3>2, <3>4, <3>5, <3>6
  <2> QED
    BY <2>1, <2>2
<1> QED
  BY <1>2, <1>3 DEF ZonesIn, after

\* The storage after the moves of each set of the first n cards.
Relocations(n, cards, to, start, v) ==
  v = [s \in SUBSET (1 .. n) |->
         IF s = {} THEN start ELSE Relocated(v[s \ {Max(s)}], cards[Max(s)], to)]

\* There is one, for any number of cards.
LEMMA RelocationsExist ==
  ASSUME NEW N \in Nat, NEW cards, NEW to, NEW start
  PROVE  \E v : Relocations(N, cards, to, start, v)
<1> DEFINE P == {n \in 0 .. N : \E v : Relocations(n, cards, to, start, v)}
<1>1. 0 \in P
  <2> DEFINE v == [s \in SUBSET (1 .. 0) |-> start]
  <2>1. Relocations(0, cards, to, start, v)
    BY DEF Relocations
  <2> QED
    BY <2>1
<1>2. ASSUME NEW n \in 1 .. N, n - 1 \in P PROVE n \in P
  <2>1. PICK v : Relocations(n - 1, cards, to, start, v)
    BY <1>2
  <2> DEFINE w == [s \in SUBSET (1 .. n) |->
                     IF n \in s THEN Relocated(v[s \ {n}], cards[n], to) ELSE v[s]]
             step(s) == IF s = {} THEN start ELSE Relocated(w[s \ {Max(s)}], cards[Max(s)], to)
  <2>2. ASSUME NEW s \in SUBSET (1 .. n) PROVE w[s] = step(s)
    <3>1. CASE n \in s
      <4>1. n \in Nat /\ s # {}
        BY <3>1
      <4>2. Max(s) = n
        <5>1. Max(s) \in s /\ n <= Max(s)
          BY <3>1, <4>1, MaxIs
        <5>2. Max(s) \in 1 .. n
          BY <5>1
        <5> QED
          BY <5>1, <5>2
      <4>3. s \ {n} \in SUBSET (1 .. n) /\ n \notin s \ {n}
        BY <3>1
      <4>4. w[s \ {n}] = v[s \ {n}]
        BY <4>3
      <4> QED
        BY <3>1, <4>1, <4>2, <4>4
    <3>2. CASE n \notin s
      <4>1. s \in SUBSET (1 .. n - 1) /\ w[s] = v[s]
        BY <3>2
      <4>2. v[s] = IF s = {} THEN start ELSE Relocated(v[s \ {Max(s)}], cards[Max(s)], to)
        BY <2>1, <4>1 DEF Relocations
      <4>3. w[s \ {Max(s)}] = v[s \ {Max(s)}]
        BY <3>2
      <4> QED
        BY <4>1, <4>2, <4>3
    <3> QED
      BY <3>1, <3>2
  <2>3. w = [s \in SUBSET (1 .. n) |-> step(s)]
    BY <2>2
  <2>4. Relocations(n, cards, to, start, w)
    BY <2>3 DEF Relocations
  <2> QED
    BY <2>4
<1>3. 0 .. N \subseteq P
  <2> HIDE DEF P
  <2> QED
    BY <1>1, <1>2, Induction
<1> QED
  BY <1>3

\* After its moves the storage holds cards, every moved one in its place.
Arrived(zs, cards, n, to) ==
  ZonesIn(zs) /\ (to \in Places => \A k \in 1 .. n : Contains(zs[to], cards[k]))

\* Relocating them one after the other is enough: a card that has arrived stays.
LEMMA AllArrive ==
  ASSUME NEW N \in Nat, NEW cards \in [1 .. N -> Nat], NEW to, NEW start, ZonesIn(start)
  PROVE  Arrived(FoldLeft(LAMBDA zs, card : Relocated(zs, card, to), start, cards), cards, N, to)
<1> DEFINE Fills(v) == v = [s \in SUBSET DOMAIN cards |->
                      IF s = {} THEN start ELSE Relocated(v[s \ {Max(s)}], cards[Max(s)], to)]
           table == CHOOSE v : Fills(v)
<1>1. FoldLeft(LAMBDA zs, card : Relocated(zs, card, to), start, cards) = table[1 .. N]
  BY Zenon DEF FoldLeft, MapThenFoldSet
<1>2. PICK w : Relocations(N, cards, to, start, w)
  BY RelocationsExist
<1>3. Fills(w)
  BY <1>2 DEF Relocations
<1>4. Fills(table)
  <2>1. \E v : Fills(v)
    BY <1>3
  <2> HIDE DEF Fills
  <2> QED
    BY <2>1, Zenon
<1>5. \A s \in SUBSET (1 .. N) :
        table[s] = IF s = {} THEN start ELSE Relocated(table[s \ {Max(s)}], cards[Max(s)], to)
  <2> HIDE DEF table
  <2> QED
    BY <1>4
<1> HIDE DEF table
<1> DEFINE P == {n \in 0 .. N : Arrived(table[1 .. n], cards, n, to)}
<1>6. 0 \in P
  <2>1. 1 .. 0 = {} /\ {} \in SUBSET (1 .. N)
    OBVIOUS
  <2>2. table[1 .. 0] = start
    BY ONLY <1>5, <2>1
  <2>3. Arrived(start, cards, 0, to)
    BY DEF Arrived
  <2> QED
    BY <2>2, <2>3
<1>7. ASSUME NEW n \in 1 .. N, n - 1 \in P PROVE n \in P
  <2>0. n \in Nat /\ n \in 1 .. n /\ \A k \in 1 .. n : k \in 1 .. N
    OBVIOUS
  <2>1. n \in Nat /\ n \in 1 .. n /\ 1 .. n # {} /\ 1 .. n \in SUBSET (1 .. N)
    BY <2>0
  <2>2. Max(1 .. n) = n
    <3>1. Max(1 .. n) \in 1 .. n /\ n <= Max(1 .. n)
      BY <2>1, MaxIs
    <3> QED
      BY <2>1, <3>1
  <2>3. (1 .. n) \ {n} = 1 .. n - 1
    BY ONLY <2>1
  <2>4. table[1 .. n] = Relocated(table[1 .. n - 1], cards[n], to)
    BY <1>5, <2>1, <2>2, <2>3
  <2>5. PICK before : before = table[1 .. n - 1] /\ Arrived(before, cards, n - 1, to)
    BY <1>7
  <2>6. Arrived(Relocated(before, cards[n], to), cards, n, to)
    <3>1. PICK after : after = Relocated(before, cards[n], to)
      OBVIOUS
    <3>2. /\ ZonesIn(after)
          /\ to \in Places => /\ Contains(after[to], cards[n])
                             /\ \A c : Contains(before[to], c) => Contains(after[to], c)
      BY <2>5, <3>1, RelocatedHolds DEF Arrived
    <3>3. \A k \in 1 .. n : k \in 1 .. n - 1 \/ k = n
      BY ONLY <2>1
    <3> QED
      BY <2>5, <3>1, <3>2, <3>3 DEF Arrived
  <2> QED
    BY <2>4, <2>5, <2>6
<1>8. 0 .. N \subseteq P
  <2> HIDE DEF P
  <2> QED
    BY <1>6, <1>7, Induction
<1>9. N \in 0 .. N
  OBVIOUS
<1> QED
  BY <1>1, <1>8, <1>9

\* What a MOVE wants is a word each.
LEMMA MoveWants ==
  ASSUME WInv, NEW f, Fetches(f), Move(f)
  PROVE  \E to, valid : \E wanted \in Seq(Word) : MoveAll(f, to, wanted, valid)
<1> DEFINE fr == Fr(f)
           to == Resolve(fr, D(f))
           from == Resolve(fr, S(f))
           amount == IF IsNone(T(f)) THEN 1 ELSE Number(fr, T(f))
           objects == IF LevelOf(from) = CardLevel THEN <<from>> ELSE Members(from)
           cost == (FlagsOf(Operation(I(f))) \div FlagCost) % 2 = 1
           valid == /\ ValidAddress(to) /\ ValidAddress(from) /\ IsObject(to) /\ IsObject(from)
                    /\ IsNone(T(f)) \/ (IsNumber(fr, T(f)) /\ amount >= 0)
                    /\ LevelOf(from) = CardLevel \/ from \in Places
                    /\ cost => amount <= Len(objects)
           first == SubSeq(objects, 1, IF amount < Len(objects) THEN amount ELSE Len(objects))
<1>1. IF valid THEN MoveAll(f, to, first, TRUE) ELSE MoveAll(f, to, <<>>, FALSE)
  BY Zenon DEF Move
<1>2. CASE ~valid
  <2>1. MoveAll(f, to, <<>>, FALSE)
    BY <1>1, <1>2
  <2>2. <<>> \in Seq(Word)
    OBVIOUS
  <2> QED
    BY <2>1, <2>2
<1>3. CASE valid
  <2>1. MoveAll(f, to, first, TRUE)
    BY <1>1, <1>3
  <2>2. Wordy(fr) /\ FieldsIn(fields) /\ S(f) \in Word /\ T(f) \in Word /\ ZonesIn(zones)
    BY DEF Fetches, Poised, WInv
  <2>3. objects \in Seq(Word)
    <3>1. CASE LevelOf(from) = CardLevel
      <4>1. PICK o \in Word : o = from
        BY <2>2, ReadsWord
      <4>2. <<o>> \in Seq(Word)
        OBVIOUS
      <4> QED
        BY <3>1, <4>1, <4>2
    <3>2. CASE LevelOf(from) # CardLevel
      BY <1>3, <2>2, <3>2, MembersAreWords
    <3> QED
      BY <3>1, <3>2
  <2>4. amount \in Nat
    BY <1>3, <2>2, ReadsNumber
  <2> HIDE DEF amount, objects, valid
  <2>5. Len(objects) \in Nat
    BY <2>3, LenProperties
  <2>6. PICK n \in 0 .. Len(objects) : n = IF amount < Len(objects) THEN amount ELSE Len(objects)
    BY <2>4, <2>5
  <2>7. first \in Seq(Word)
    <3>1. \A i \in 1 .. n : i \in 1 .. Len(objects)
      BY <2>5
    <3>2. SubSeq(objects, 1, n) \in Seq(Word)
      BY <2>3, <2>5, <3>1, SubSeqProperties
    <3> QED
      BY <2>6, <3>2
  <2> HIDE DEF first
  <2> QED
    BY <2>1, <2>7
<1> QED
  BY <1>2, <1>3

\* What a MOVE does: the cards it moved, from the first on, are where it announced them, and
\* its frame goes on with the next instruction or stays.
Announced(f, wanted, to, done) ==
  [n \in 1 .. done |->
     [kind |-> Enum(EventKinds, "MOVED"), subject |-> wanted[n],
      object |-> AddressIn(to, CardOf(wanted[n])), context |-> Operation(I(f))]]
Results(f, done, b) == With(With(Fr(f), ResultCount, done), ResultSuccess, Bit(b))
Proceeds(f, after, b) ==
  IF b THEN Continue(f, [frame |-> after, fields |-> fields]) ELSE Stop(f, after, "fault")
Moved(f) ==
  \E wanted \in Seq(Word) : \E done \in 0 .. Len(wanted) : \E to, b :
    /\ \A n \in 1 .. done : to \in Places
    /\ Arrived(zones', [n \in 1 .. done |-> CardOf(wanted[n])], done, to)
    /\ Deliver(Enum(EventKinds, "MOVED"), Announced(f, wanted, to, done))
    /\ Proceeds(f, Results(f, done, b), b)

\* Nothing else is announced, and no card moves unannounced.
LEMMA MoveMoved ==
  ASSUME WInv, NEW f, Fetches(f), Move(f)
  PROVE  Moved(f)
<1>1. PICK to, valid, wanted : wanted \in Seq(Word) /\ MoveAll(f, to, wanted, valid)
  BY MoveWants
<1> DEFINE cards(done) == [n \in 1 .. done |-> CardOf(wanted[n])]
           b(done) == valid /\ done = Len(wanted)
<1>2. \E done \in 0 .. Len(wanted) :
        /\ \A n \in 1 .. done : Movable(wanted[n], to)
        /\ zones' = FoldLeft(LAMBDA zs, card : Relocated(zs, card, to), zones, cards(done))
        /\ Deliver(Enum(EventKinds, "MOVED"), Announced(f, wanted, to, done))
        /\ Proceeds(f, Results(f, done, b(done)), b(done))
  BY <1>1, Zenon DEF MoveAll, Count, Announced, Results, Proceeds
<1>3. PICK done \in 0 .. Len(wanted) :
        /\ \A n \in 1 .. done : Movable(wanted[n], to)
        /\ zones' = FoldLeft(LAMBDA zs, card : Relocated(zs, card, to), zones, cards(done))
        /\ Deliver(Enum(EventKinds, "MOVED"), Announced(f, wanted, to, done))
        /\ Proceeds(f, Results(f, done, b(done)), b(done))
  <2> HIDE DEF cards, b
  <2> QED
    BY <1>2
<1>4. Len(wanted) \in Nat
  BY <1>1, LenProperties
<1>5. done \in Nat
  BY <1>4
<1>6. \A n \in 1 .. done : wanted[n] \in Word
  BY <1>1, <1>4, ElementOfSeq
<1>7. cards(done) \in [1 .. done -> Nat]
  BY <1>6, PartsOfWord
<1>8. Arrived(zones', cards(done), done, to)
  <2> HIDE DEF cards
  <2> QED
    BY <1>3, <1>5, <1>7, AllArrive DEF WInv
<1>9. \A n \in 1 .. done : to \in Places
  BY <1>3 DEF Movable
<1>10. PICK c : c = b(done)
  OBVIOUS
<1>11. Proceeds(f, Results(f, done, c), c)
  BY <1>3, <1>10
<1> QED
  BY <1>1, <1>3, <1>8, <1>9, <1>11, Zenon DEF Moved

\* So it moves cards, announces words and reports numbers.
LEMMA MoveWords ==
  ASSUME IInv, WInv, NEW f \in DOMAIN frames, Move(f)
  PROVE  /\ WordMoves(f) /\ ZonesIn(zones')
         /\ history' \in Seq(Event) /\ \A fr \in ToSet(ready') : Wordy(fr)
<1>1. Fetches(f)
  BY FetchesWords DEF Move, IInv
<1>2. Moved(f)
  BY <1>1, MoveMoved
<1>3. PICK wanted, done, to, b :
        /\ wanted \in Seq(Word) /\ done \in 0 .. Len(wanted)
        /\ \A n \in 1 .. done : to \in Places
        /\ ZonesIn(zones')
        /\ Deliver(Enum(EventKinds, "MOVED"), Announced(f, wanted, to, done))
        /\ Proceeds(f, Results(f, done, b), b)
  BY <1>2 DEF Moved, Arrived
<1>4. done \in Nat /\ \A n \in 1 .. done : wanted[n] \in Word
  <2>1. Len(wanted) \in Nat
    BY <1>3, LenProperties
  <2> QED
    BY <1>3, <2>1, ElementOfSeq
<1>5. Announced(f, wanted, to, done) \in Seq(Event)
  <2>1. PICK kind \in Int : kind = Enum(EventKinds, "MOVED")
    <3>1. Listed(EventKinds)
      BY DEF EventKinds, Listed
    <3> QED
      BY <3>1, EnumIsNumber
  <2>2. Operation(I(f)) \in Word
    BY <1>1 DEF Fetches, Poised
  <2>3. ASSUME NEW n \in 1 .. done
        PROVE  [kind |-> kind, subject |-> wanted[n],
                object |-> AddressIn(to, CardOf(wanted[n])), context |-> Operation(I(f))] \in Event
    <3>1. wanted[n] \in Word /\ to \in Places /\ CardOf(wanted[n]) \in Nat
      BY <1>3, <1>4, PartsOfWord
    <3>2. AddressIn(to, CardOf(wanted[n])) \in Word
      BY <3>1, MadeWords
    <3> QED
      BY <2>1, <2>2, <3>1, <3>2 DEF Event
  <2>4. Announced(f, wanted, to, done) \in [1 .. done -> Event]
    BY <2>1, <2>3 DEF Announced
  <2> QED
    BY <1>4, <2>4, SeqDef
<1>6. history' \in Seq(Event) /\ \A fr \in ToSet(ready') : Wordy(fr)
  BY <1>3, <1>5, DeliverWords
<1>7. PICK after : after = Results(f, done, b)
  OBVIOUS
<1>8. Keeps(frames[f], after) /\ Wordy(after)
  <2>1. PICK bit \in Int : bit = Bit(b)
    BY DEF Bit
  <2>2. PICK fr : fr = With(Fr(f), ResultCount, done)
    OBVIOUS
  <2>3. Keeps(frames[f], fr) /\ Wordy(fr)
    BY <1>1, <1>4, <2>2, WithWords DEF Fetches, Poised
  <2>4. Keeps(frames[f], With(fr, ResultSuccess, bit)) /\ Wordy(With(fr, ResultSuccess, bit))
    BY <2>3, WithWords
  <2> QED
    BY <1>7, <2>1, <2>2, <2>4 DEF Results
<1>9. CASE b
  <2>1. PICK m : m = [frame |-> after, fields |-> fields]
    OBVIOUS
  <2>2. WordMachine(f, m)
    BY <1>1, <1>8, <2>1 DEF WordMachine, Machine, Fetches, Poised
  <2>3. Continue(f, m)
    BY <1>3, <1>7, <1>9, <2>1 DEF Proceeds
  <2> QED
    BY <1>1, <1>3, <1>6, <2>2, <2>3, GotoWords DEF Continue, Fetches
<1>10. CASE ~b
  <2>1. Stop(f, after, "fault")
    BY <1>3, <1>7, <1>10 DEF Proceeds
  <2> QED
    BY <1>1, <1>3, <1>6, <1>8, <2>1, StopWords DEF Fetches, Poised
<1> QED
  BY <1>9, <1>10

\* A frame that becomes one of words leaves all frames so.
LEMMA MovesWords ==
  ASSUME FramesOK, WInv, NEW f \in DOMAIN frames, WordMoves(f)
  PROVE  (\A fr \in ToSet(frames') : FrameWords(fr)) /\ FieldsIn(fields')
<1>1. PICK fr : FrameWords(fr) /\ frames' = [frames EXCEPT ![f] = fr] /\ FieldsIn(fields')
  BY DEF WordMoves
<1>2. \A g \in DOMAIN frames : FrameWords(frames[g])
  BY DEF WInv, ToSet
<1>3. DOMAIN frames' = DOMAIN frames /\ \A g \in DOMAIN frames' : FrameWords(frames'[g])
  BY <1>1, <1>2
<1> QED
  BY <1>1, <1>3 DEF ToSet

\* Whatever an instruction does, its frame holds words,
LEMMA StepWords ==
  ASSUME IInv, WInv, NEW f \in DOMAIN frames, Step(f)
  PROVE  WordMoves(f)
<1>0. FramesOK
  BY DEF IInv
<1>1. CASE Nop(f) \/ Finished(f)
  BY <1>0, <1>1, PlainWords
<1>2. CASE Set(f) \/ Select(f) \/ Load(f) \/ Attribute(f) \/ Compute(f) \/ Compare(f) \/ At(f)
             \/ Length(f)
  <2>1. Fetches(f)
    BY <1>0, <1>2, FetchesWords DEF Set, Select, Load, Attribute, Compute, Compare, At, Length
  <2> QED
    BY <1>2, <2>1, ReadingWords
<1>3. CASE Store(f)
  <2>1. Fetches(f)
    BY <1>0, <1>3, FetchesWords DEF Store
  <2> QED
    BY <1>3, <2>1, StoreWords
<1>4. CASE Swap(f)
  <2>1. Fetches(f)
    BY <1>0, <1>4, FetchesWords DEF Swap
  <2> QED
    BY <1>0, <1>4, <2>1, SwapWords
<1>5. CASE Branch(f)
  <2>1. Fetches(f)
    BY <1>0, <1>5, FetchesWords DEF Branch
  <2> QED
    BY <1>5, <2>1, BranchWords
<1>6. CASE Query(f)
  <2>1. Fetches(f)
    BY <1>0, <1>6, FetchesWords DEF Query
  <2> QED
    BY <1>6, <2>1, QueryWords DEF WInv
<1>7. CASE AppendTo(f)
  <2>1. Fetches(f)
    BY <1>0, <1>7, FetchesWords DEF AppendTo
  <2> QED
    BY <1>7, <2>1, AppendWords
<1>8. CASE Random(f)
  <2>1. Fetches(f)
    BY <1>0, <1>8, FetchesWords DEF Random
  <2> QED
    BY <1>8, <2>1, RandomWords
<1>9. CASE Recall(f)
  <2>1. Fetches(f)
    BY <1>0, <1>9, FetchesWords DEF Recall
  <2> QED
    BY <1>9, <2>1, RecallWords DEF WInv
<1> QED
  BY <1>0, <1>1, <1>2, <1>3, <1>4, <1>5, <1>6, <1>7, <1>8, <1>9, AskWords, ResumeWords,
     MoveWords, RegisterWords, CancelWords, AnnounceWords DEF Step

\* and so do the storage, the history, the queue and the captures.
LEMMA StepKeepsWords ==
  ASSUME IInv, WInv, NEW f \in DOMAIN frames, Step(f)
  PROVE  WInv'
<1>1. (\A fr \in ToSet(frames') : FrameWords(fr)) /\ FieldsIn(fields')
  BY StepWords, MovesWords DEF IInv
<1>2. /\ ZonesIn(zones') /\ history' \in Seq(Event)
      /\ \A fr \in ToSet(ready') : Wordy(fr)
  <2>1. CASE UNCHANGED <<zones, history, ready>>
    BY <2>1 DEF WInv, HistoryIn
  <2>2. CASE Move(f)
    BY <2>2, MoveWords
  <2>3. CASE Announce(f)
    BY <2>3, AnnounceWords DEF Announce, WInv, HistoryIn
  <2>4. UNCHANGED <<zones, history, ready>> \/ Move(f) \/ Announce(f)
    BY DEF Step, Nop, Finished, Set, Select, Load, Store, Swap, Attribute, Compute, Compare,
           Branch, Query, At, AppendTo, Length, Ask, Resume, Random, Recall, Register, Cancel, shared
  <2> QED
    BY <2>1, <2>2, <2>3, <2>4
<1>3. \A id \in DOMAIN entries' : Wordy(entries'[id].frame)
  <2>1. Drops \/ Adds(f)
    BY StepEffects
  <2>2. CASE Drops
    BY <2>2 DEF Drops, WInv
  <2>3. CASE Adds(f)
    BY <2>3, CapturedWords DEF Adds, WInv
  <2> QED
    BY <2>1, <2>2, <2>3
<1>4. (\A fr \in ToSet(frames) : FrameWords(fr))' /\ (\A fr \in ToSet(ready) : Wordy(fr))'
  BY <1>1, <1>2 DEF ToSet
<1> QED
  BY <1>1, <1>2, <1>3, <1>4 DEF WInv, ZonesIn, FieldsIn, HistoryIn

\* A frame starts with nothing.
LEMMA NewFrameWords ==
  ASSUME NEW trace
  PROVE  FrameWords(NewFrame(trace))
<1>1. None \in Word /\ <<>> \in Seq(Seq(Word))
  BY NoneIsWord
<1>2. /\ NewFrame(trace).value = Bank /\ NewFrame(trace).address = Bank /\ NewFrame(trace).flag = Bank
      /\ NewFrame(trace).control = [r \in ControlCells |-> None]
      /\ NewFrame(trace).collections = <<>> /\ NewFrame(trace).decision = <<>>
  BY DEF NewFrame
<1> QED
  BY <1>1, <1>2 DEF FrameWords, Wordy, Offers, Bank, Indices

\* The host posts what its plan says.
Follows == posted \in Nat /\ (plan = <<>> \/ \E p \in Plans : plan = <<p>>)

\* A plan stays what the host built.
LEMMA NextFollows ==
  ASSUME Follows, [Next]_vars
  PROVE  Follows'
<1>1. CASE UNCHANGED host
  BY <1>1 DEF Follows, host
<1>2. CASE \E p \in Plans : Build(p)
  BY <1>2 DEF Follows, Build
<1>3. CASE PostNext
  BY <1>3 DEF Follows, PostNext
<1>4. CASE \E alphabet \in Alphabets : \E line \in alphabet : Type(line)
  BY <1>4 DEF Follows, Type
<1> QED
  BY <1>1, <1>2, <1>3, <1>4 DEF Next, Launch, Run, Answer, Take, vars

\* The host starts, takes and posts words.
LEMMA HostKeepsWords ==
  ASSUME IInv, HInv, Follows, WInv,
         \/ \E p \in Plans : Build(p)
         \/ \E route \in Routes : Launch(route)
         \/ PostNext
         \/ Take
  PROVE  WInv'
<1>1. CASE \E p \in Plans : Build(p)
  <2>1. PICK p \in Plans : /\ zones' = p.zones /\ fields' = p.fields
                           /\ UNCHANGED <<frames, history, entries, ready>>
    BY <1>1 DEF Build
  <2>2. ZonesIn(zones') /\ FieldsIn(fields')
    BY <2>1, ProgramsAssumption DEF ZonesIn, FieldsIn
  <2> QED
    BY <2>1, <2>2 DEF WInv, ZonesIn, FieldsIn, HistoryIn, ToSet
<1>2. CASE \E route \in Routes : Launch(route)
  <2>1. PICK route \in Routes :
          /\ frames' = [n \in 1 .. Len(result.programs) |->
                          NewFrame(Carried(route, result.programs[n].trace))]
          /\ UNCHANGED <<fields, zones, history, entries, ready>>
    BY <1>2 DEF Launch
  <2>2. \A fr \in ToSet(frames') : FrameWords(fr)
    BY <2>1, NewFrameWords DEF ToSet
  <2>3. (\A fr \in ToSet(frames) : FrameWords(fr))'
    BY <2>2 DEF ToSet
  <2> QED
    BY <2>1, <2>3 DEF WInv, ZonesIn, FieldsIn, HistoryIn, ToSet
<1>3. CASE PostNext
  <2> DEFINE event == [kind |-> plan[1].posts[posted + 1], subject |-> None, object |-> None,
                       context |-> None]
  <2>1. /\ Deliver(event.kind, <<event>>)
        /\ UNCHANGED <<frames, fields, zones, entries>>
    BY <1>3 DEF PostNext, Post
  <2>2. event \in Event
    <3>1. frames # <<>> /\ posted < Len(plan[1].posts)
      BY <1>3 DEF PostNext
    <3>2. PICK p \in Plans : plan = <<p>>
      BY <3>1 DEF Follows, HInv
    <3>3. PICK posts \in Seq(Nat) : posts = plan[1].posts
      BY <3>2, ProgramsAssumption
    <3>4. Len(posts) \in Nat /\ posted \in Nat /\ posted < Len(posts)
      BY <3>1, <3>3, LenProperties DEF Follows
    <3>5. posted + 1 \in 1 .. Len(posts)
      BY <3>4
    <3>6. plan[1].posts[posted + 1] \in Int
      BY <3>3, <3>5, ElementOfSeq
    <3> QED
      BY <3>6, NoneIsWord DEF Event
  <2> HIDE DEF event
  <2>3. <<event>> \in Seq(Event)
    BY <2>2
  <2>4. history' \in Seq(Event) /\ \A fr \in ToSet(ready') : Wordy(fr)
    BY <2>1, <2>3, DeliverWords
  <2>5. (\A fr \in ToSet(ready) : Wordy(fr))'
    BY <2>4 DEF ToSet
  <2> QED
    BY <2>1, <2>4, <2>5 DEF WInv, ZonesIn, FieldsIn, HistoryIn, ToSet
<1>4. CASE Take
  <2>1. /\ frames' = frames \o ready /\ ready' = <<>>
        /\ UNCHANGED <<fields, zones, history, entries>>
    BY <1>4 DEF Take, TakeReady
  <2>2. ToSet(frames') \subseteq ToSet(frames) \cup ToSet(ready) /\ ToSet(ready') = {}
    BY <2>1, ConcatElements DEF IInv, FramesOK, ReadyOK, ToSet
  <2>3. \A fr \in ToSet(ready) : FrameWords(fr)
    BY DEF WInv, IInv, ReadyOK, Captive, FrameWords, Offers
  <2>4. \A fr \in ToSet(frames') : FrameWords(fr)
    BY <2>2, <2>3 DEF WInv
  <2>5. (\A fr \in ToSet(frames) : FrameWords(fr))' /\ (\A fr \in ToSet(ready) : Wordy(fr))'
    BY <2>2, <2>4 DEF ToSet
  <2> QED
    BY <2>1, <2>5 DEF WInv, ZonesIn, FieldsIn, HistoryIn
<1> QED
  BY <1>1, <1>2, <1>3, <1>4

\* Every step keeps words.
LEMMA NextWInv ==
  ASSUME IInv, HInv, Follows, WInv, [Next]_vars
  PROVE  WInv'
<1>1. CASE UNCHANGED <<frames, fields, zones, history, entries, ready>>
  BY <1>1 DEF WInv, ZonesIn, FieldsIn, HistoryIn, ToSet
<1>2. CASE \E f \in DOMAIN frames : Run(f)
  BY <1>2, StepKeepsWords DEF Run
<1>3. CASE \E f \in DOMAIN frames : \E index \in 0 .. Offered(f) - 1 : Answer(f, index)
  <2>0. PICK f \in DOMAIN frames : \E index \in 0 .. Offered(f) - 1 : AnswerWith(f, index)
    BY <1>3 DEF Answer
  <2>1. PICK index \in 0 .. Offered(f) - 1 : AnswerWith(f, index)
    BY <2>0
  <2>2. index \in Nat
    OBVIOUS
  <2>3. WordMoves(f) /\ UNCHANGED <<zones, history, entries, ready>>
    BY <2>1, <2>2, AnswerWords DEF IInv, AnswerWith, shared
  <2>4. (\A fr \in ToSet(frames') : FrameWords(fr)) /\ FieldsIn(fields')
    BY <2>3, MovesWords DEF IInv
  <2>5. (\A fr \in ToSet(frames) : FrameWords(fr))'
    BY <2>4 DEF ToSet
  <2> QED
    BY <2>3, <2>4, <2>5 DEF WInv, ZonesIn, FieldsIn, HistoryIn, ToSet
<1> QED
  BY <1>1, <1>2, <1>3, HostKeepsWords DEF Next, Type, vars, machine, shared

\* At first there are no words.
LEMMA InitWInv == Init => WInv
<1> SUFFICES ASSUME Init PROVE WInv
  OBVIOUS
<1>1. /\ frames = <<>> /\ ready = <<>> /\ entries = <<>> /\ fields = <<>> /\ history = <<>>
      /\ zones = [place \in Places |-> <<>>]
  BY DEF Init
<1>2. ToSet(<<>>) = {} /\ DOMAIN <<>> = {} /\ <<>> \in Seq(Event) /\ <<>> \in Seq(Nat)
  BY DEF ToSet
<1> QED
  BY <1>1, <1>2 DEF WInv, ZonesIn, FieldsIn, HistoryIn

\* At first the host has no plan.
LEMMA InitFollows == Init => Follows
BY DEF Init, Follows

\* Whatever a frame, the storage, the history, the queue and a capture hold is a word: no step
\* reads a cell, a field, an event or an element of a collection that is not there (Read, At,
\* Recall), and what it makes of them fits a word again (MakeTagged, MakeAddress).
THEOREM WordsStayWords == Spec => []WInv
<1>1. Init => HInv /\ Follows /\ WInv
  BY InitHInv, InitFollows, InitWInv
<1>2. IInv /\ HInv /\ [Next]_vars => HInv'
  BY NextHInv
<1>3. Follows /\ [Next]_vars => Follows'
  BY NextFollows
<1>4. IInv /\ HInv /\ Follows /\ WInv /\ [Next]_vars => WInv'
  BY NextWInv
<1> QED
  BY Inductive, <1>1, <1>2, <1>3, <1>4, PTL DEF Spec

-----------------------------------------------------------------------------
(* What a MOVE reports.                                                    *)

\* A frame at a MOVE that changes, other than by an answer, makes that MOVE.
LEMMA RanMove ==
  ASSUME IInv, [Next]_vars, NEW f \in DOMAIN frames, On(f, {"MOVE"}), Ran(f)
  PROVE  Move(f)
<1>1. frames'[f] # frames[f]
  BY DEF Ran
<1>2. Going(f)
  BY OnGoing DEF IInv
<1>3. frames \in Seq(ToSet(frames)) /\ ready \in Seq(ToSet(ready))
  BY DEF IInv, FramesOK, ReadyOK
<1>4. ~UNCHANGED frames
  BY <1>1
<1>5. ~Take
  <2> SUFFICES ASSUME frames' = frames \o ready PROVE FALSE
    BY DEF Take, TakeReady
  <2> DEFINE Elements == ToSet(frames) \cup ToSet(ready)
  <2>1. frames \in Seq(Elements) /\ ready \in Seq(Elements)
    BY <1>3, SeqMonotonic
  <2>2. f \in 1 .. Len(frames)
    BY <1>3, LenProperties
  <2>3. (frames \o ready)[f] = frames[f]
    BY <2>1, <2>2, ConcatProperties
  <2> QED
    BY <1>1, <2>3
<1>6. ASSUME NEW g \in DOMAIN frames, NEW index, Answer(g, index) PROVE FALSE
  <2>1. g # f
    BY <1>2, <1>6 DEF Answer, AnswerWith, Going
  <2> QED
    BY <1>1, <1>6, <2>1 DEF Answer, AnswerWith
<1>7. frames # <<>>
  OBVIOUS
<1>8. PICK g \in DOMAIN frames : Step(g)
  BY <1>4, <1>5, <1>6, <1>7 DEF Next, Type, Build, Launch, PostNext, Post, Run, vars, machine
<1>9. g = f
  BY <1>1, <1>8, StepMoves DEF IInv, Moves
<1>10. frames[f].pc # Len(frames[f].program) /\ OpcodeOf(I(f)) = "MOVE"
  <2>1. frames[f].pc < Len(frames[f].program) /\ Runnable(f)
    BY DEF On
  <2>2. frames[f].pc \in Int /\ Len(frames[f].program) \in Int
    BY <2>1, Fetched DEF IInv, Sound, PlaceOK
  <2> QED
    BY <2>1, <2>2 DEF On
<1> QED
  BY <1>8, <1>9, <1>10
     DEF Step, Nop, Finished, Set, Select, Load, Store, Swap, Attribute, Compute, Compare, Branch,
         Query, At, AppendTo, Length, Ask, Resume, Random, Recall, Register, Cancel, Announce, On

\* The words for 0 and 1 differ.
LEMMA BitsDiffer == Imm(0) # Imm(1)
<1>1. PayloadBits \in 1 .. WordBits /\ TagBits \in 0 .. WordBits
  BY WidthsAssumption DEF PayloadBits
<1>2. 2^PayloadBits = 2 * 2^(PayloadBits - 1)
  BY <1>1, PowersAssumption
<1>3. 2^(PayloadBits - 1) \in Nat \ {0} /\ 2^TagBits \in Nat \ {0}
  <2>1. WordBits \in Nat /\ PayloadBits - 1 \in 0 .. WordBits
    BY <1>1, WidthsAssumption
  <2> QED
    BY <1>1, <2>1, PowersAssumption
<1>4. 2^PayloadBits \in Nat /\ 2^PayloadBits >= 2
  BY <1>2, <1>3
<1>5. 0 % 2^PayloadBits = 0 /\ 1 % 2^PayloadBits = 1
  BY <1>4
<1>6. Mask(0, PayloadBits) = 0 /\ Mask(1, PayloadBits) = 1
  BY <1>5 DEF Mask
<1>7. PICK shift \in Nat \ {0} : shift = 2^TagBits
  BY <1>3
<1>8. Imm(0) = 0 * shift + ImmediateTag /\ Imm(1) = 1 * shift + ImmediateTag
  BY <1>6, <1>7 DEF Imm, MakeTagged
<1> QED
  BY <1>8 DEF ImmediateTag

\* A MOVE reports exactly the cards it moved, no more when it faults half way: RESULT_COUNT
\* counts the events it announced, RESULT_SUCCESS tells whether it went on, and each card is
\* where its event says (Execute, MOVE).
THEOREM MovesAreReported == Spec => ReportedMoves
<1> DEFINE announced == SubSeq(history', Len(history) + 1, Len(history'))
           Reported(f) ==
             /\ frames'[f].control[ResultCount] = Imm(Len(announced))
             /\ frames'[f].control[ResultSuccess] = Imm(1) <=> frames'[f].pc = frames[f].pc + 1
             /\ \A event \in ToSet(announced) :
                  \E place \in Places : /\ event.object = AddressIn(place, CardOf(event.subject))
                                        /\ Contains(zones'[place], CardOf(event.subject))
<1>1. ASSUME IInv, WInv, [Next]_vars, NEW f \in DOMAIN frames, On(f, {"MOVE"}), Ran(f)
      PROVE  Reported(f)
  <2>1. Moved(f)
    BY <1>1, RanMove, FetchesWords, MoveMoved DEF IInv
  <2>2. Going(f) /\ Keeps(frames[f], Fr(f)) /\ frames[f].pc \in Int
    BY <1>1, OnGoing DEF IInv, Going, Runnable, Sound, PlaceOK
  <2> DEFINE cards(wanted, done) == [n \in 1 .. done |-> CardOf(wanted[n])]
  <2>3. PICK wanted, done, to, b :
          /\ wanted \in Seq(Word) /\ done \in 0 .. Len(wanted)
          /\ \A n \in 1 .. done : to \in Places
          /\ Arrived(zones', cards(wanted, done), done, to)
          /\ Deliver(Enum(EventKinds, "MOVED"), Announced(f, wanted, to, done))
          /\ Proceeds(f, Results(f, done, b), b)
    BY <2>1 DEF Moved
  <2>4. done \in Nat
    BY <2>3, LenProperties
  <2> DEFINE events == Announced(f, wanted, to, done)
             after == Results(f, done, b)
  <2>5. Len(events) = done /\ \A n \in 1 .. done :
          /\ events[n].subject = wanted[n]
          /\ events[n].object = AddressIn(to, CardOf(wanted[n]))
    BY <2>4 DEF Announced
  <2>6. announced = events
    <3>1. events \in [1 .. done -> {events[n] : n \in 1 .. done}]
      BY DEF Announced
    <3>2. events \in Seq({events[n] : n \in 1 .. done})
      BY <2>4, <3>1, SeqDef
    <3> HIDE DEF events
    <3> DEFINE Elements == Event \cup {events[n] : n \in 1 .. done}
    <3>3. history \in Seq(Elements) /\ events \in Seq(Elements)
      BY <1>1, <3>2, SeqMonotonic DEF WInv, HistoryIn
    <3> HIDE DEF Elements
    <3>4. history' = history \o events
      BY <2>3 DEF events, Deliver
    <3> QED
      BY <3>3, <3>4
  <2>7. ASSUME NEW event \in ToSet(events)
        PROVE  \E place \in Places : /\ event.object = AddressIn(place, CardOf(event.subject))
                                     /\ Contains(zones'[place], CardOf(event.subject))
    <3>1. PICK n \in 1 .. done : event = events[n]
      BY <2>5, <2>7 DEF ToSet, Announced
    <3>2. to \in Places /\ Contains(zones'[to], CardOf(wanted[n]))
      BY <2>3, <3>1 DEF Arrived
    <3> QED
      BY <2>5, <3>1, <3>2
  <2>8. /\ after.control[ResultCount] = Imm(done)
        /\ after.control[ResultSuccess] = Imm(Bit(b))
        /\ BanksOK(after) /\ after.pc = frames[f].pc
    <3>1. Keeps(frames[f], With(Fr(f), ResultCount, done)) /\ Keeps(frames[f], after)
      BY <2>2, KeepsWith DEF Results
    <3>2. PICK fr : fr = With(Fr(f), ResultCount, done)
      OBVIOUS
    <3>3. fr.control[ResultCount] = Imm(done) /\ BanksOK(fr)
      BY <2>2, <3>1, <3>2 DEF Keeps, BanksOK, With, FrameFields, ControlCells, ResultCount
    <3>4. /\ after.control[ResultCount] = fr.control[ResultCount]
          /\ after.control[ResultSuccess] = Imm(Bit(b))
      BY <3>2, <3>3
         DEF Results, BanksOK, With, FrameFields, ControlCells, ResultCount, ResultSuccess
    <3> QED
      BY <3>1, <3>3, <3>4 DEF Keeps
  <2>9. /\ frames'[f].control = after.control
        /\ frames'[f].pc = IF b THEN frames[f].pc + 1 ELSE frames[f].pc
    <3>0. Proceeds(f, after, b)
      BY <2>3
    <3> HIDE DEF after
    <3>1. CASE b
      <4>1. PICK m : m = [frame |-> after, fields |-> fields] /\ Continue(f, m)
        BY <3>0, <3>1 DEF Proceeds
      <4>2. m.frame = after
        BY <4>1
      <4>3. frames'[f] = [after EXCEPT !.pc = frames[f].pc + 1, !.status = "running"]
        BY <1>1, <4>1, <4>2 DEF Continue, Goto
      <4> QED
        BY <2>8, <3>1, <4>3 DEF BanksOK, FrameFields
    <3>2. CASE ~b
      BY <1>1, <2>8, <3>0, <3>2 DEF Proceeds, Stop, BanksOK, FrameFields
    <3> QED
      BY <3>1, <3>2
  <2>10. frames'[f].control[ResultSuccess] = Imm(1) <=> frames'[f].pc = frames[f].pc + 1
    BY <2>2, <2>8, <2>9, BitsDiffer DEF Bit
  <2> HIDE DEF events, after, announced
  <2> QED
    BY <2>5, <2>6, <2>7, <2>8, <2>9, <2>10
<1>3. ASSUME IInv, WInv, [Next]_vars
      PROVE  [\A f \in DOMAIN frames : (On(f, {"MOVE"}) /\ Ran(f)) => Reported(f)]_vars
  BY <1>1, <1>3
<1> QED
  BY Inductive, WordsStayWords, <1>3, PTL DEF Spec, ReportedMoves

-----------------------------------------------------------------------------
(* Draws.                                                                  *)

\* The threshold of a bound is what is left of the samples when they are dealt out evenly.
LEMMA ThresholdIsRest ==
  ASSUME NEW N \in Nat, NEW b \in 1 .. N
  PROVE  \E q \in Nat \ {0}, r \in 0 .. b - 1 :
           N \div b = q /\ N = q * b + r /\ ((N - b) % N) % b = r
<1>1. PICK q \in Int, r \in 0 .. b - 1 : N \div b = q /\ N = b * q + r
  OBVIOUS
<1>2. q >= 1
  <2>1. CASE q <= 0
    <3>1. b * q <= 0
      BY <1>1, <2>1
    <3> QED
      BY <1>1, <3>1
  <2> QED
    BY <2>1
<1>3. (N - b) % N = N - b
  <2>1. N - b \in 0 .. N - 1
    OBVIOUS
  <2> QED
    BY <2>1
<1>4. N - b = (q - 1) * b + r
  BY <1>1
<1>5. PICK p \in Nat : p = q - 1
  BY <1>2
<1>6. (p * b + r) % b = r
  BY DivUnique
<1>7. ((N - b) % N) % b = r
  BY <1>3, <1>4, <1>5, <1>6
<1>8. b * q = q * b
  OBVIOUS
<1>9. N = q * b + r
  BY <1>1, <1>8
<1> QED
  BY <1>1, <1>2, <1>7, <1>9

\* Dealing: the samples from the rest on are as many for each result, one in each round.
LEMMA DealtEvenly ==
  ASSUME NEW q \in Nat \ {0}, NEW b \in Nat \ {0}, NEW r \in 0 .. b - 1, NEW n \in 0 .. b - 1
  PROVE  Cardinality({x \in r .. q * b + r - 1 : x % b = n}) = q
<1> DEFINE dealt == {x \in r .. q * b + r - 1 : x % b = n}
           first == IF n >= r THEN 0 ELSE 1
           deal == [j \in 1 .. q |-> (j - 1 + first) * b + n]
<1>1. first \in {0, 1} /\ q * b \in Nat
  OBVIOUS
<1>2. ASSUME NEW j \in 1 .. q PROVE deal[j] \in dealt
  <2>1. PICK d \in Nat : d = j - 1 + first
    BY <1>1
  <2>2. (d * b + n) % b = n
    BY DivUnique
  <2>3. d * b + n >= r
    <3>1. CASE n >= r
      <4>1. d * b >= 0
        OBVIOUS
      <4> QED
        BY <3>1, <4>1
    <3>2. CASE n < r
      <4>1. d >= 1
        BY <2>1, <3>2
      <4>2. d * b >= b
        BY <4>1
      <4> QED
        BY <4>2
    <3> QED
      BY <3>1, <3>2
  <2>4. d * b + n <= q * b + r - 1
    <3>1. CASE n >= r
      <4>1. d <= q - 1
        BY <2>1, <3>1
      <4>2. d * b <= (q - 1) * b
        BY <4>1
      <4>3. (q - 1) * b = q * b - b
        OBVIOUS
      <4> QED
        BY <4>2, <4>3
    <3>2. CASE n < r
      <4>1. d <= q
        BY <2>1, <3>2
      <4>2. d * b <= q * b
        BY <4>1
      <4> QED
        BY <3>2, <4>2
    <3> QED
      BY <3>1, <3>2
  <2>5. deal[j] = d * b + n /\ d * b + n \in Int
    BY <2>1
  <2> HIDE DEF deal
  <2> QED
    BY <2>2, <2>3, <2>4, <2>5
<1>3. ASSUME NEW i \in 1 .. q, NEW j \in 1 .. q, deal[i] = deal[j] PROVE i = j
  <2>1. PICK d \in Nat : d = i - 1 + first
    BY <1>1
  <2>2. PICK e \in Nat : e = j - 1 + first
    BY <1>1
  <2>3. d * b + n = e * b + n
    BY <1>3, <2>1, <2>2
  <2>4. d = e
    <3>1. (d * b + n) \div b = d /\ (e * b + n) \div b = e
      BY DivUnique
    <3> QED
      BY <2>3, <3>1
  <2> QED
    BY <1>1, <2>1, <2>2, <2>4
<1>4. ASSUME NEW x \in dealt PROVE \E j \in 1 .. q : deal[j] = x
  <2>1. x \in Int /\ x >= r /\ x <= q * b + r - 1 /\ x % b = n
    BY <1>1
  <2> DEFINE d == x \div b
  <2>2. d \in Int /\ x = b * d + n
    BY <2>1
  <2> HIDE DEF d
  <2>3. d >= first
    <3>1. CASE d <= first - 1
      <4>1. b * d <= b * (first - 1)
        BY <1>1, <2>2, <3>1
      <4> QED
        BY <2>1, <2>2, <3>1, <4>1
    <3> QED
      BY <1>1, <2>2, <3>1
  <2>4. d <= q - 1 + first
    <3>1. CASE d >= q + first
      <4>1. b * d >= b * (q + first)
        BY <1>1, <2>2, <3>1
      <4>2. b * (q + first) = q * b + b * first
        BY <1>1
      <4> QED
        BY <2>1, <2>2, <4>1, <4>2
    <3> QED
      BY <1>1, <2>2, <3>1
  <2>5. PICK j \in 1 .. q : j = d - first + 1
    <3> HIDE DEF first
    <3>1. d - first + 1 \in 1 .. q
      BY <1>1, <2>2, <2>3, <2>4
    <3> QED
      BY <3>1
  <2>6. j - 1 + first = d
    BY <1>1, <2>2, <2>5
  <2>7. deal[j] = d * b + n
    BY <2>6
  <2>8. d * b = b * d
    BY <2>2
  <2> QED
    BY <2>2, <2>7, <2>8
<1>5. ExistsBijection(1 .. q, dealt)
  <2>1. deal \in [1 .. q -> dealt]
    BY <1>2
  <2> HIDE DEF deal, dealt
  <2>2. deal \in Injection(1 .. q, dealt)
    BY <1>3, <2>1 DEF Injection, IsInjective
  <2>3. deal \in Surjection(1 .. q, dealt)
    BY <1>4, <2>1 DEF Surjection
  <2> QED
    BY <2>2, <2>3 DEF Bijection, ExistsBijection
<1>6. IsFiniteSet(1 .. q) /\ Cardinality(1 .. q) = q
  BY FS_Interval
<1> HIDE DEF dealt
<1>7. Cardinality(dealt) = q
  BY <1>5, <1>6, FS_Bijection
<1> QED
  BY <1>7 DEF dealt

\* So a bound of at most that many samples has as many accepted samples for each result.
LEMMA BoundedIsUniform ==
  ASSUME NEW b \in 1 .. 2^RandomBits, 2^RandomBits \in Nat, NEW n \in 0 .. b - 1
  PROVE  Cardinality({x \in Accepted(b) : x % b = n}) = 2^RandomBits \div b
<1>1. PICK N \in Nat : N = 2^RandomBits
  OBVIOUS
<1>2. PICK q \in Nat \ {0}, r \in 0 .. b - 1 :
        N \div b = q /\ N = q * b + r /\ ((N - b) % N) % b = r
  BY <1>1, ThresholdIsRest
<1>3. Threshold(b) = r
  BY <1>1, <1>2 DEF Threshold
<1>4. N = q * b + r
  BY <1>2
<1>5. Accepted(b) = r .. q * b + r - 1
  BY <1>1, <1>3, <1>4 DEF Accepted, Samples
<1>6. Cardinality({x \in r .. q * b + r - 1 : x % b = n}) = q
  BY DealtEvenly
<1> QED
  BY <1>1, <1>2, <1>5, <1>6

\* Every draw is uniform, for every bound that an immediate can give and every width of the
\* samples that can count up to it, as the 64 bits of the code can (Bounded).
THEOREM DrawsAreUniform ==
  ASSUME ImmediateMax < 2^RandomBits
  PROVE  Spec => []DrawIsUniform
<1>1. 2^RandomBits \in Nat
  BY InterpreterAssumption, PowersUpTo
<1>2. ASSUME IInv, WInv, NEW f \in DOMAIN frames, On(f, {"RANDOM"}), IsNumber(frames[f], T(f)),
             NEW b, b = Number(frames[f], T(f)), b > 0
      PROVE  b \in 1 .. 2^RandomBits
  <2>1. Wordy(frames[f]) /\ FieldsIn(fields) /\ T(f) \in Word
    BY <1>2, PoisedWords DEF IInv, Poised, FrameWords
  <2>2. b \in ImmediateMin .. ImmediateMax
    BY <1>2, <2>1, ReadsNumber
  <2>3. ImmediateMax \in Int
    <3>1. PayloadBits - 1 \in 0 .. WordBits
      BY TagsFit, PowersUpTo
    <3> QED
      BY <3>1, PowersUpTo DEF ImmediateMax
  <2> QED
    BY <1>1, <1>2, <2>2, <2>3
<1>3. ASSUME NEW b \in 1 .. 2^RandomBits, NEW n \in 0 .. b - 1
      PROVE  /\ Cardinality({x \in Accepted(b) : x % b = n})
                  = Cardinality({x \in Accepted(b) : x % b = 0})
             /\ Cardinality({x \in Accepted(b) : x % b = n}) > 0
  <2>1. 0 \in 0 .. b - 1
    OBVIOUS
  <2>2. 2^RandomBits \div b \in Nat \ {0}
    BY <1>1, ThresholdIsRest
  <2> QED
    BY <1>1, <2>1, <2>2, BoundedIsUniform
<1>4. IInv /\ WInv => DrawIsUniform
  <2> SUFFICES ASSUME IInv, WInv, NEW f \in DOMAIN frames,
                      On(f, {"RANDOM"}), IsNone(S(f)), IsNumber(frames[f], T(f)),
                      Number(frames[f], T(f)) > 0
               PROVE  LET bound == Number(frames[f], T(f))
                          Ways(n) == Cardinality({x \in Accepted(bound) : x % bound = n})
                      IN  \A n \in 0 .. bound - 1 : Ways(n) = Ways(0) /\ Ways(n) > 0
    BY DEF DrawIsUniform
  <2>1. PICK b : b = Number(frames[f], T(f))
    OBVIOUS
  <2>2. b \in 1 .. 2^RandomBits
    BY <1>2, <2>1
  <2> QED
    BY <1>3, <2>1, <2>2
<1> QED
  BY Inductive, WordsStayWords, <1>4, PTL
-----------------------------------------------------------------------------
(* Random moves.  The words of their programs say what was put into them.  *)

\* Six fields of an address make six bits of a payload.
LEMMA PayloadIsWide ==
  /\ 2^PayloadBits = 2 * (ImmediateMax + 1) /\ ImmediateMin = -(ImmediateMax + 1)
  /\ ImmediateMax \in Nat /\ ImmediateMax >= 31
<1>1. PayloadBits \in Nat /\ PayloadBits <= WordBits /\ WordBits \in Nat
  BY TagsFit
<1>2. LevelBits + PlayerBits + ZoneBits + SlotBits + CardBits + AttributeBits <= PayloadBits
  BY WidthsAssumption
<1>3. /\ LevelBits \in Nat \ {0} /\ PlayerBits \in Nat \ {0} /\ ZoneBits \in Nat \ {0}
      /\ SlotBits \in Nat \ {0} /\ CardBits \in Nat \ {0} /\ AttributeBits \in Nat \ {0}
  BY WidthsAssumption
<1>4. PayloadBits >= 6
  BY <1>1, <1>2, <1>3
<1>5. PICK d \in Nat : PayloadBits - 1 = 5 + d
  BY <1>1, <1>4
<1>6. 2^(PayloadBits - 1) = 2^5 * 2^d
  <2>1. PICK s \in Nat : s = 5
    OBVIOUS
  <2>2. PayloadBits - 1 = s + d /\ s + d <= WordBits
    BY <1>1, <1>5, <2>1
  <2>3. 2^(s + d) = 2^s * 2^d
    BY <2>2, PowersAdd
  <2> QED
    BY <2>1, <2>2, <2>3
<1>7. 2^5 = 32
  <2>1. \A n \in 1 .. 5 : 2^n = 2 * 2^(n - 1)
    BY <1>1, <1>4, PowersUpTo
  <2>2. 2^1 = 2 * 2^0 /\ 2^2 = 2 * 2^1 /\ 2^3 = 2 * 2^2 /\ 2^4 = 2 * 2^3 /\ 2^5 = 2 * 2^4
    BY <2>1
  <2> QED
    BY <2>2, PowersUpTo
<1>8. 2^d \in Nat \ {0}
  BY <1>1, <1>5, PowersUpTo
<1>9. PICK half \in Nat : half = 2^(PayloadBits - 1) /\ half >= 32
  <2>1. PICK e \in Nat \ {0} : e = 2^d
    BY <1>8
  <2>2. 32 * e \in Nat /\ 32 * e >= 32
    BY <2>1
  <2> QED
    BY <1>6, <1>7, <2>1, <2>2
<1>10. 2^PayloadBits = 2 * 2^(PayloadBits - 1)
  BY <1>1, <1>4, PowersUpTo
<1> QED
  BY <1>9, <1>10 DEF ImmediateMax, ImmediateMin

\* A payload that fits comes back.
LEMMA PayloadBack ==
  ASSUME NEW tag \in 0 .. 7, NEW p \in 0 .. 2^PayloadBits - 1
  PROVE  PayloadOf(MakeTagged(tag, p)) = p /\ TagOf(MakeTagged(tag, p)) = tag
<1>1. PICK b \in Nat \ {0} : b = 2^PayloadBits
  BY TagsFit
<1>2. p \in 0 .. b - 1 /\ p % b = p /\ p \in Int
  BY <1>1
<1> QED
  BY <1>1, <1>2, Tagged

\* An immediate holds the number that it was made of.
LEMMA ImmediateBack ==
  ASSUME NEW x \in ImmediateMin .. ImmediateMax
  PROVE  IsImmediate(Imm(x)) /\ ImmediateValue(Imm(x)) = x
<1>1. PICK m \in Nat : m = ImmediateMax /\ 2^PayloadBits = 2 * (m + 1) /\ ImmediateMin = -(m + 1)
  BY PayloadIsWide
<1>2. x \in Int /\ x \in -(m + 1) .. m
  BY <1>1
<1>3. ImmediateTag \in 0 .. 7
  BY DEF ImmediateTag
<1>4. TagOf(Imm(x)) = ImmediateTag /\ PayloadOf(Imm(x)) = x % (2 * (m + 1))
  BY <1>1, <1>2, <1>3, Tagged DEF Imm
<1>5. x % (2 * (m + 1)) = IF x >= 0 THEN x ELSE x + 2 * (m + 1)
  <2>1. PICK b \in Nat \ {0} : b = 2 * (m + 1)
    BY <1>1
  <2>2. x \in -b .. b - 1
    BY <1>1, <1>2, <2>1
  <2>3. CASE x >= 0
    BY <2>1, <2>2, <2>3
  <2>4. CASE x < 0
    <3>1. x + b \in 0 .. b - 1 /\ x = b * (-1) + (x + b)
      BY <2>1, <2>2, <2>4
    <3>2. x % b = x + b
      BY <2>1, <2>2, <2>4, <3>1
    <3> QED
      BY <2>1, <2>4, <3>2
  <2> QED
    BY <1>2, <2>3, <2>4
<1> QED
  BY <1>1, <1>2, <1>4, <1>5 DEF IsImmediate, ImmediateValue

\* Two fields of a payload come back.
LEMMA PairBack ==
  ASSUME NEW low \in Nat, NEW high \in Nat, low + high <= PayloadBits,
         NEW a \in Int, NEW q \in 0 .. 2^high - 1, NEW tag \in 0 .. 7
  PROVE  LET w == MakeTagged(tag, Mask(a, low) + q * 2^low)
         IN  /\ TagOf(w) = tag
             /\ Bits(PayloadOf(w), 0, low) = Mask(a, low) /\ Bits(PayloadOf(w), low, high) = q
<1>1. PayloadBits \in Nat /\ PayloadBits <= WordBits /\ WordBits \in Nat
  BY TagsFit
<1>2. low \in 0 .. WordBits /\ high \in 0 .. WordBits
  BY <1>1
<1>3. PICK c \in Nat \ {0} : c = 2^low
  BY <1>2, PowersUpTo
<1>4. PICK h \in Nat \ {0} : h = 2^high
  BY <1>2, PowersUpTo
<1>5. PICK d \in Nat : PayloadBits = (high + low) + d
  BY <1>1
<1>6. 2^PayloadBits = (h * c) * 2^d
  <2>1. high + low \in Nat /\ high + low <= WordBits /\ (high + low) + d <= WordBits
    BY <1>1, <1>5
  <2>2. 2^(high + low) = h * c
    BY <1>3, <1>4, <2>1, PowersAdd
  <2> QED
    BY <1>5, <2>1, <2>2, PowersAdd
<1>7. PICK e \in Nat \ {0} : e = 2^d
  <2>1. d \in 0 .. WordBits
    BY <1>1, <1>5
  <2> QED
    BY <2>1, PowersUpTo
<1>8. PICK t \in 0 .. c - 1 : t = Mask(a, low)
  BY <1>3 DEF Mask
<1>9. PICK p \in 0 .. h * c - 1 : p = q * c + t
  BY <1>3, <1>4, <1>8, Split
<1>10. p \in 0 .. 2^PayloadBits - 1
  <2>1. PICK n \in Nat \ {0} : n = h * c
    BY <1>3, <1>4
  <2>2. n * e >= n
    BY <1>7, <2>1
  <2> QED
    BY <1>6, <1>7, <1>9, <2>1, <2>2
<1>11. p = Mask(a, low) + q * 2^low
  BY <1>3, <1>8, <1>9
<1>12. p % c = t /\ p \div c = q
  <2>1. q \in Nat
    BY <1>4
  <2>2. (q * c + t) % c = t /\ (q * c + t) \div c = q
    BY <2>1, DivUnique
  <2> QED
    BY <1>9, <2>2
<1>13. (p \div 2^0) % c = t
  <2>1. p \div 1 = p
    BY <1>10, TagsFit
  <2> QED
    BY <1>12, <2>1, PowersUpTo
<1>14. q % h = q
  BY <1>4
<1>15. PayloadOf(MakeTagged(tag, p)) = p /\ TagOf(MakeTagged(tag, p)) = tag
  BY <1>10, PayloadBack
<1>16. Bits(p, 0, low) = Mask(a, low) /\ Bits(p, low, high) = q
  BY <1>3, <1>4, <1>8, <1>12, <1>13, <1>14 DEF Bits
<1> QED
  BY <1>11, <1>15, <1>16

\* The index of a register, and that it is one of the value bank.
LEMMA RegisterBack ==
  ASSUME NEW bank \in Int, NEW k \in Indices
  PROVE  /\ IndexOf(Reg(bank, k)) = k /\ IsRegister(Reg(bank, k))
         /\ BankOf(Reg(bank, k)) = Mask(bank, BankBits)
<1>1. BankBits \in Nat /\ IndexBits \in Nat /\ BankBits + IndexBits <= PayloadBits
  BY WidthsAssumption
<1>2. k \in 0 .. 2^IndexBits - 1 /\ RegisterTag \in 0 .. 7
  BY DEF Indices, RegisterCount, RegisterTag
<1>3. Mask(k, IndexBits) = k
  <2>1. 2^IndexBits \in Nat \ {0}
    BY FieldsFit
  <2> QED
    BY <1>2, <2>1 DEF Mask
<1>4. Reg(bank, k) = MakeTagged(RegisterTag, Mask(bank, BankBits) + k * 2^BankBits)
  BY <1>3 DEF Reg
<1> QED
  BY <1>1, <1>2, <1>4, PairBack DEF IndexOf, IsRegister, BankOf

\* So a v register is one.
LEMMA ValueBack ==
  ASSUME NEW k \in Indices
  PROVE  IsValueRegister(V(k)) /\ IndexOf(V(k)) = k
<1>1. Mask(0, BankBits) = 0
  <2>1. PICK c \in Nat \ {0} : c = 2^BankBits
    BY FieldsFit
  <2> QED
    BY <2>1 DEF Mask
<1>2. ValueBank = 0
  BY DEF ValueBank
<1>3. PICK z \in Int : z = 0
  OBVIOUS
<1>4. BankOf(Reg(z, k)) = Mask(z, BankBits) /\ IsRegister(Reg(z, k)) /\ IndexOf(Reg(z, k)) = k
  BY <1>3, RegisterBack
<1> QED
  BY <1>1, <1>2, <1>3, <1>4 DEF IsValueRegister, IsBank, V

\* The control cell of RESULT_COUNT.
LEMMA ResultBack ==
  IsControl(Control(ResultCount)) /\ ControlRegOf(Control(ResultCount)) = ResultCount
<1>1. PICK r \in 0 .. 2^PayloadBits - 1 : r = ResultCount
  <2>1. PICK m \in Nat : m = ImmediateMax /\ 2^PayloadBits = 2 * (m + 1) /\ m >= 31
    BY PayloadIsWide
  <2>2. ResultCount \in 0 .. 2^PayloadBits - 1
    BY <2>1 DEF ResultCount
  <2> QED
    BY <2>2
<1>2. ControlTag \in 0 .. 7
  BY DEF ControlTag
<1>3. IsControl(Control(r)) /\ ControlRegOf(Control(r)) = r
  BY <1>2, PayloadBack DEF IsControl, ControlRegOf, Control
<1> QED
  BY <1>1, <1>3

\* An instruction has the opcode and the subcode that it was made of.
LEMMA InstructionBack ==
  ASSUME NEW op, Contains(Opcodes, op), NEW sub \in Int, NEW d, NEW s, NEW t
  PROVE  /\ OpcodeOf(MakeInstruction(op, sub, d, s, t)) = op
         /\ sub \in 0 .. 2^SubBits - 1 => Sub(MakeInstruction(op, sub, d, s, t)) = sub
         /\ \E w : MakeInstruction(op, sub, d, s, t) = <<w, d, s, t>>
<1>1. PICK code : code = Enum(Opcodes, op)
  OBVIOUS
<1>2. code \in 0 .. Len(Opcodes) - 1 /\ Name(Opcodes, code) = op
  BY <1>1, NameBack, Enumerations
<1>3. code \in Nat /\ code < 2^OpBits
  <2>1. Len(Opcodes) \in Nat /\ 2^OpBits \in Nat
    BY Enumerations, FieldsFit DEF Listed
  <2> QED
    BY <1>2, <2>1, OpcodesAssumption
<1>4. PICK z \in Int : z = 0
  OBVIOUS
<1>5. PICK w : w = Op(code, sub, z, z, z)
  OBVIOUS
<1>6. CodeOf(w) = code
  BY <1>3, <1>4, <1>5, OpcodeBack
<1>7. ASSUME sub \in 0 .. 2^SubBits - 1 PROVE SubcodeOf(w) = sub
  <2>1. \A width \in {FlagsBits, CauseBits, AuxBits} : Mask(z, width) = 0
    <3>1. \A width \in {FlagsBits, CauseBits, AuxBits} : 2^width \in Nat \ {0}
      BY FieldsFit
    <3> QED
      BY <1>4, <3>1 DEF Mask
  <2>2. Mask(sub, SubBits) = sub
    <3>1. 2^SubBits \in Nat \ {0}
      BY FieldsFit
    <3> QED
      BY <1>7, <3>1 DEF Mask
  <2>3. PICK a \in Int : a = Mask(code, OpBits) + sub * 2^OpBits
    <3>1. PICK c \in Nat \ {0} : c = 2^OpBits
      BY FieldsFit
    <3>2. Mask(code, OpBits) \in Nat
      BY <1>3, <3>1, Masked
    <3>3. sub * c \in Int
      BY <3>1
    <3> QED
      BY <3>1, <3>2, <3>3
  <2>4. /\ 2^(OpBits + SubBits) \in Int /\ 2^(OpBits + SubBits + FlagsBits) \in Int
        /\ 2^(OpBits + SubBits + FlagsBits + CauseBits) \in Int
    BY FieldsFit
  <2>5. \A x \in Int : 0 * x = 0
    OBVIOUS
  <2>6. /\ Mask(z, FlagsBits) * 2^(OpBits + SubBits) = 0
        /\ Mask(z, CauseBits) * 2^(OpBits + SubBits + FlagsBits) = 0
        /\ Mask(z, AuxBits) * 2^(OpBits + SubBits + FlagsBits + CauseBits) = 0
    BY <2>1, <2>4, <2>5
  <2>7. w = MakeTagged(OperationTag, a + 0 + 0 + 0)
    BY <1>5, <2>2, <2>3, <2>6 DEF Op
  <2>8. w = MakeTagged(OperationTag, Mask(code, OpBits) + sub * 2^OpBits)
    BY <2>3, <2>7
  <2>9. OpBits \in Nat /\ SubBits \in Nat /\ OpBits + SubBits <= PayloadBits /\ OperationTag \in 0 .. 7
    <3>1. OpBits \in Nat /\ MethodBits \in Nat /\ ModeBits \in Nat /\ FlagsBits \in Nat
          /\ CauseBits \in Nat /\ AuxBits \in Nat
      BY WidthsAssumption
    <3>2. OpBits + SubBits + FlagsBits + CauseBits + AuxBits <= PayloadBits /\ PayloadBits \in Nat
      BY WidthsAssumption, TagsFit
    <3> QED
      BY <3>1, <3>2 DEF SubBits, OperationTag
  <2>10. code \in Int
    BY <1>3
  <2> QED
    BY <1>7, <2>8, <2>9, <2>10, PairBack DEF SubcodeOf
<1>8. MakeInstruction(op, sub, d, s, t) = <<w, d, s, t>>
  BY <1>1, <1>4, <1>5 DEF MakeInstruction
<1> QED
  BY <1>2, <1>6, <1>7, <1>8 DEF OpcodeOf, Sub, Operation

\* The opcodes of a random move.
LEMMA MoveOpcodes ==
  \A op \in {"SET", "COUNT", "ALU", "COMPARE", "JUMPIF", "ENUMERATE", "RANDOM", "AT", "MOVE",
            "LOAD", "JUMP", "HALT"} : Contains(Opcodes, op)
<1>1. Listed(Opcodes)
  BY Enumerations
<1>2. /\ Opcodes[2] = "SET" /\ Opcodes[8] = "COUNT" /\ Opcodes[17] = "ALU"
      /\ Opcodes[18] = "COMPARE" /\ Opcodes[20] = "JUMPIF" /\ Opcodes[28] = "ENUMERATE"
      /\ Opcodes[24] = "RANDOM" /\ Opcodes[29] = "AT" /\ Opcodes[9] = "MOVE"
      /\ Opcodes[3] = "LOAD" /\ Opcodes[19] = "JUMP" /\ Opcodes[27] = "HALT"
      /\ Len(Opcodes) >= 29
  BY DEF Opcodes
<1> QED
  BY <1>1, <1>2 DEF Contains, Listed

\* No enumeration of a subcode is longer than that of the events.
LEMMA MethodsFit ==
  /\ Listed(AluOps) /\ Len(AluOps) <= 2^SubBits /\ Methods["ALU"] = AluOps
  /\ Listed(CompareOps) /\ Len(CompareOps) <= 2^SubBits /\ Methods["COMPARE"] = CompareOps
  /\ Listed(JumpConditions) /\ Len(JumpConditions) <= 2^SubBits
  /\ Methods["JUMPIF"] = JumpConditions
<1>1. /\ Methods["ALU"] = AluOps /\ Methods["COMPARE"] = CompareOps
      /\ Methods["JUMPIF"] = JumpConditions
  BY DEF Methods
<1>2. /\ {"ALU", "COMPARE", "JUMPIF"} \subseteq DOMAIN Methods
  BY DEF Methods
<1>3. Listed(AluOps) /\ Listed(CompareOps) /\ Listed(JumpConditions)
  BY <1>1, <1>2, Enumerations
<1>4. Len(EventKinds) >= 11
  BY DEF EventKinds
<1>5. Len(AluOps) <= 11 /\ Len(CompareOps) <= 11 /\ Len(JumpConditions) <= 11
  BY DEF AluOps, CompareOps, JumpConditions
<1>6. 2^SubBits \in Nat
  BY FieldsFit
<1>7. Len(EventKinds) \in Nat
  BY DEF EventKinds
<1> QED
  BY <1>1, <1>3, <1>4, <1>5, <1>6, <1>7, EventsAssumption DEF Listed

\* An instruction with a method has it.
LEMMA UsingBack ==
  ASSUME NEW op, Contains(Opcodes, op), NEW names, Methods[op] = names, Listed(names),
         NEW method, NEW d, NEW s, NEW t
  PROVE  /\ OpcodeOf(Using(op, method, d, s, t)) = op
         /\ Contains(names, method) /\ Len(names) <= 2^SubBits
              => MethodOf(Using(op, method, d, s, t)) = method
         /\ \E w : Using(op, method, d, s, t) = <<w, d, s, t>>
<1>1. PICK sub \in Int : sub = Enum(names, method)
  BY EnumIsNumber
<1>2. Using(op, method, d, s, t) = MakeInstruction(op, sub, d, s, t)
  BY <1>1 DEF Using
<1>3. /\ OpcodeOf(MakeInstruction(op, sub, d, s, t)) = op
      /\ sub \in 0 .. 2^SubBits - 1 => Sub(MakeInstruction(op, sub, d, s, t)) = sub
      /\ \E w : MakeInstruction(op, sub, d, s, t) = <<w, d, s, t>>
  BY InstructionBack
<1>4. ASSUME Contains(names, method), Len(names) <= 2^SubBits
      PROVE  sub \in 0 .. 2^SubBits - 1 /\ Name(names, sub) = method
  <2>1. sub \in 0 .. Len(names) - 1 /\ Name(names, sub) = method
    BY <1>1, <1>4, NameBack
  <2>2. Len(names) \in Nat /\ 2^SubBits \in Nat
    BY FieldsFit DEF Listed
  <2> QED
    BY <1>4, <2>1, <2>2
<1> QED
  BY <1>2, <1>3, <1>4 DEF MethodOf

\* A recipe of one call is lowered by that call.
LEMMA FoldOne ==
  ASSUME NEW call
  PROVE  FoldLeft(Lower, NewBuilder, <<call>>) = Lower(NewBuilder, call)
<1> DEFINE calls == <<call>>
           Fills(v) == v = [s \in SUBSET DOMAIN calls |->
                      IF s = {} THEN NewBuilder ELSE Lower(v[s \ {Max(s)}], calls[Max(s)])]
           table == CHOOSE v : Fills(v)
<1>1. FoldLeft(Lower, NewBuilder, calls) = table[DOMAIN calls]
  BY Zenon DEF FoldLeft, MapThenFoldSet
<1>2. DOMAIN calls = {1} /\ calls[1] = call
  OBVIOUS
<1> HIDE DEF calls
<1>3. Max({1}) = 1
  <2>1. 1 \in {1} /\ 1 \in Nat
    OBVIOUS
  <2>2. Max({1}) \in {1}
    BY MaxIs
  <2> QED
    BY <2>2
<1> DEFINE w == [s \in SUBSET {1} |-> IF s = {} THEN NewBuilder ELSE Lower(NewBuilder, call)]
<1>4. Fills(w)
  <2>1. ASSUME NEW s \in SUBSET {1}
        PROVE  w[s] = IF s = {} THEN NewBuilder ELSE Lower(w[s \ {Max(s)}], calls[Max(s)])
    <3>1. s = {} \/ s = {1}
      OBVIOUS
    <3>2. {1} \ {1} = {} /\ w[{}] = NewBuilder /\ w[{1}] = Lower(NewBuilder, call)
      OBVIOUS
    <3> HIDE DEF w
    <3> QED
      BY <1>2, <1>3, <3>1, <3>2
  <2>2. w = [s \in SUBSET {1} |->
               IF s = {} THEN NewBuilder ELSE Lower(w[s \ {Max(s)}], calls[Max(s)])]
    BY <2>1
  <2> HIDE DEF w
  <2> QED
    BY <1>2, <2>2
<1>5. Fills(table)
  <2>1. \E v : Fills(v)
    BY <1>4
  <2> HIDE DEF Fills
  <2> QED
    BY <2>1, Zenon
<1> HIDE DEF table
<1>6. table[{1}] = Lower(table[{}], call) /\ table[{}] = NewBuilder
  <2>1. \A s \in SUBSET {1} :
          table[s] = IF s = {} THEN NewBuilder ELSE Lower(table[s \ {Max(s)}], calls[Max(s)])
    BY <1>2, <1>5
  <2>2. {1} \in SUBSET {1} /\ {} \in SUBSET {1} /\ {1} # {} /\ {1} \ {1} = {}
    OBVIOUS
  <2> QED
    BY <1>2, <1>3, <2>1, <2>2
<1> QED
  BY <1>1, <1>2, <1>6 DEF calls
-----------------------------------------------------------------------------
(* The program of a random move (Lowering).  RandomMove writes the same 15 *)
(* instructions, whatever it moves.                                        *)

\* The program of a random move of n cards, in the registers from the first one on.
Draws(code, n) ==
  /\ Len(code) = 15
  /\ OpcodeOf(code[1]) = "SET" /\ Dst(code[1]) = V(0) /\ Src0(code[1]) = Imm(n)
  /\ OpcodeOf(code[2]) = "COUNT" /\ Dst(code[2]) = V(1)
  /\ OpcodeOf(code[3]) = "ALU" /\ MethodOf(code[3]) = "MINIMUM"
  /\ Dst(code[3]) = V(0) /\ Src0(code[3]) = V(0)
  /\ OpcodeOf(code[4]) = "COMPARE" /\ MethodOf(code[4]) = "LESS_EQUAL"
  /\ Dst(code[4]) = F(0) /\ Src0(code[4]) = V(0) /\ Src1(code[4]) = Imm(0)
  /\ OpcodeOf(code[5]) = "JUMPIF" /\ MethodOf(code[5]) = "TRUE"
  /\ Src0(code[5]) = F(0) /\ ImmediateValue(Src1(code[5])) = 14
  /\ OpcodeOf(code[6]) = "ENUMERATE" /\ Dst(code[6]) = V(2)
  /\ OpcodeOf(code[7]) = "RANDOM" /\ Dst(code[7]) = V(3)
  /\ OpcodeOf(code[8]) = "AT" /\ Dst(code[8]) = A(0)
  /\ OpcodeOf(code[9]) = "MOVE" /\ Src1(code[9]) = None
  /\ OpcodeOf(code[10]) = "LOAD" /\ Dst(code[10]) = V(1) /\ Src0(code[10]) = Control(ResultCount)
  /\ OpcodeOf(code[11]) = "COMPARE" /\ Dst(code[11]) = F(0)
  /\ OpcodeOf(code[12]) = "JUMPIF" /\ ImmediateValue(Src1(code[12])) = 14
  /\ OpcodeOf(code[13]) = "ALU" /\ MethodOf(code[13]) = "SUBTRACT"
  /\ Dst(code[13]) = V(0) /\ Src0(code[13]) = V(0) /\ Src1(code[13]) = V(1)
  /\ OpcodeOf(code[14]) = "JUMP" /\ ImmediateValue(Src0(code[14])) = 1
  /\ OpcodeOf(code[15]) = "HALT"

\* A jump leads to its target.
LEMMA TargetBack ==
  ASSUME NEW pc \in 0 .. 31
  PROVE  ImmediateValue(JumpTarget(pc)) = pc
<1>1. PICK m \in Nat : m = ImmediateMax /\ m >= 31 /\ ImmediateMin = -(m + 1)
  BY PayloadIsWide
<1>2. pc <= ImmediateMax /\ pc \in ImmediateMin .. ImmediateMax
  BY <1>1
<1> QED
  BY <1>2, ImmediateBack DEF JumpTarget

\* The fourteen instructions that RandomMove emits, before it patches its branches.
Emitted(from, to, count, method) ==
  <<Plain("SET", V(0), count, None)>> \o
  <<Plain("COUNT", V(1), from, None),
    Limit(V(0), V(1)),
    Using("COMPARE", "LESS_EQUAL", F(0), V(0), Imm(0)),
    JumpIf(F(0), 0, "TRUE"),
    Plain("ENUMERATE", V(2), from, None),
    Using("RANDOM", "RANDOM_CARD", V(3), None, V(1)),
    Plain("AT", A(0), V(2), V(3)),
    Using("MOVE", method, to, A(0), None),
    Plain("LOAD", V(1), Control(ResultCount), None),
    Using("COMPARE", "EQUAL", F(0), V(1), Imm(0)),
    JumpIf(F(0), 0, "TRUE"),
    Using("ALU", "SUBTRACT", V(0), V(0), V(1)),
    Jump(1)>>

\* In a new builder its loop starts at 1, with the registers from the first one on.
LEMMA RandomMoveEmits ==
  ASSUME NEW src, NEW dst, NEW count, NEW method
  PROVE  \E body : /\ RandomMove(NewBuilder, src, dst, count, method)
                        = PatchJump(PatchJump(body, 4, Here(body)), 11, Here(body))
                   /\ body.code = Emitted(src, dst, count, method)
                   /\ body.ok => RegisterCount >= 4
                   /\ DOMAIN body = {"value", "address", "flag", "code", "ok"}
<1> DEFINE b == NewBuilder
           remaining == V(b.value)
           available == V(b.value + 1)
           items == V(b.value + 2)
           index == V(b.value + 3)
           object == A(b.address)
           flag == F(b.flag)
           start == Emit(Allocate(b, 4, 1, 1), <<Plain("SET", remaining, count, None)>>)
           loop == Here(start)
           rest == <<Plain("COUNT", available, src, None),
                     Limit(remaining, available),
                     Using("COMPARE", "LESS_EQUAL", flag, remaining, Imm(0)),
                     JumpIf(flag, 0, "TRUE"),
                     Plain("ENUMERATE", items, src, None),
                     Using("RANDOM", "RANDOM_CARD", index, None, available),
                     Plain("AT", object, items, index),
                     Using("MOVE", method, dst, object, None),
                     Plain("LOAD", available, Control(ResultCount), None),
                     Using("COMPARE", "EQUAL", flag, available, Imm(0)),
                     JumpIf(flag, 0, "TRUE"),
                     Using("ALU", "SUBTRACT", remaining, remaining, available),
                     Jump(loop)>>
           body == Emit(start, rest)
<1>1. RandomMove(b, src, dst, count, method)
        = PatchJump(PatchJump(body, loop + 3, Here(body)), loop + 10, Here(body))
  BY Zenon DEF RandomMove
<1>2. /\ b.value = 0 /\ b.address = 0 /\ b.flag = 0 /\ b.code = <<>>
      /\ DOMAIN b = {"value", "address", "flag", "code", "ok"}
  BY DEF NewBuilder
<1>3. /\ remaining = V(0) /\ available = V(1) /\ items = V(2) /\ index = V(3)
      /\ object = A(0) /\ flag = F(0)
  BY <1>2
<1>4. PICK first : first = Plain("SET", V(0), count, None)
  OBVIOUS
<1> HIDE DEF b, remaining, available, items, index, object, flag
<1>5. /\ start.code = <<first>>
      /\ start.ok => RegisterCount >= 4
      /\ DOMAIN start = {"value", "address", "flag", "code", "ok"}
  <2>1. <<>> \o <<first>> = <<first>>
    OBVIOUS
  <2>2. PICK a : a = Allocate(b, 4, 1, 1)
    OBVIOUS
  <2>3. a.code = <<>> /\ (a.ok => RegisterCount >= 4)
    <3>1. RegisterCount \in Int
      BY FieldsFit DEF RegisterCount
    <3>2. a.ok => 0 + 4 <= RegisterCount
      BY <1>2, <2>2 DEF Allocate
    <3> QED
      BY <1>2, <2>2, <3>1, <3>2 DEF Allocate
  <2>4. DOMAIN a = {"value", "address", "flag", "code", "ok"}
    BY <1>2, <2>2 DEF Allocate
  <2>5. start = Emit(a, <<first>>)
    BY <1>3, <1>4, <2>2
  <2> HIDE DEF start
  <2> QED
    BY <2>1, <2>3, <2>4, <2>5 DEF Emit
<1>6. loop = 1
  <2> HIDE DEF start
  <2> QED
    BY <1>5 DEF Here
<1> HIDE DEF start, loop
<1>7. <<first>> \o rest = Emitted(src, dst, count, method)
  BY <1>3, <1>4, <1>6 DEF Emitted
<1> HIDE DEF rest
<1>8. /\ body.code = start.code \o rest /\ body.ok = start.ok
      /\ DOMAIN body = {"value", "address", "flag", "code", "ok"}
  BY <1>5 DEF Emit
<1> HIDE DEF body
<1>9. loop + 3 = 4 /\ loop + 10 = 11
  BY <1>6
<1> QED
  BY <1>1, <1>5, <1>7, <1>8, <1>9 DEF b

\* An instruction as it was made.
Has(i, op, d, s, t) == OpcodeOf(i) = op /\ \E w : i = <<w, d, s, t>>

\* One with no method,
LEMMA PlainHas ==
  ASSUME NEW op, Contains(Opcodes, op), NEW d, NEW s, NEW t
  PROVE  Has(Plain(op, d, s, t), op, d, s, t)
<1>1. PICK z \in Int : z = 0
  OBVIOUS
<1>2. Plain(op, d, s, t) = MakeInstruction(op, z, d, s, t)
  BY <1>1 DEF Plain
<1>3. /\ OpcodeOf(MakeInstruction(op, z, d, s, t)) = op
      /\ \E w : MakeInstruction(op, z, d, s, t) = <<w, d, s, t>>
  BY InstructionBack
<1> QED
  BY <1>2, <1>3 DEF Has

\* and its operands; a branch keeps its opcode and its method when it is patched.
LEMMA HasOperands ==
  ASSUME NEW i, NEW op, NEW d, NEW s, NEW t, Has(i, op, d, s, t), NEW x
  PROVE  /\ OpcodeOf(i) = op /\ Dst(i) = d /\ Src0(i) = s /\ Src1(i) = t
         /\ Has([i EXCEPT ![4] = x], op, d, s, x)
         /\ MethodOf([i EXCEPT ![4] = x]) = MethodOf(i)
<1>1. PICK w : i = <<w, d, s, t>>
  BY DEF Has
<1>2. [i EXCEPT ![4] = x] = <<w, d, s, x>>
  BY <1>1
<1>3. PICK j : j = [i EXCEPT ![4] = x] /\ j = <<w, d, s, x>>
  BY <1>2
<1>4. Operation(j) = Operation(i)
  BY <1>1, <1>3 DEF Operation
<1>5. OpcodeOf(j) = OpcodeOf(i) /\ MethodOf(j) = MethodOf(i)
  BY <1>4 DEF OpcodeOf, MethodOf, Sub
<1>6. Dst(i) = d /\ Src0(i) = s /\ Src1(i) = t
  BY <1>1 DEF Dst, Src0, Src1
<1> QED
  BY <1>3, <1>5, <1>6 DEF Has

\* The instructions of a random move.
LEMMA EmittedHas ==
  ASSUME NEW src, NEW dst, NEW count, NEW method
  PROVE  \E i1, i2, i3, i4, i5, i6, i7, i8, i9, i10, i11, i12, i13, i14 :
           /\ Emitted(src, dst, count, method)
                = <<i1, i2, i3, i4, i5, i6, i7, i8, i9, i10, i11, i12, i13, i14>>
           /\ Has(i1, "SET", V(0), count, None) /\ Has(i2, "COUNT", V(1), src, None)
           /\ Has(i3, "ALU", V(0), V(0), V(1)) /\ MethodOf(i3) = "MINIMUM"
           /\ Has(i4, "COMPARE", F(0), V(0), Imm(0)) /\ MethodOf(i4) = "LESS_EQUAL"
           /\ Has(i5, "JUMPIF", None, F(0), JumpTarget(0)) /\ MethodOf(i5) = "TRUE"
           /\ Has(i6, "ENUMERATE", V(2), src, None) /\ Has(i7, "RANDOM", V(3), None, V(1))
           /\ Has(i8, "AT", A(0), V(2), V(3)) /\ Has(i9, "MOVE", dst, A(0), None)
           /\ Has(i10, "LOAD", V(1), Control(ResultCount), None)
           /\ Has(i11, "COMPARE", F(0), V(1), Imm(0))
           /\ Has(i12, "JUMPIF", None, F(0), JumpTarget(0))
           /\ Has(i13, "ALU", V(0), V(0), V(1)) /\ MethodOf(i13) = "SUBTRACT"
           /\ Has(i14, "JUMP", None, JumpTarget(1), None)
<1>1. PICK v0 : v0 = V(0)
  OBVIOUS
<1>2. PICK v1 : v1 = V(1)
  OBVIOUS
<1>3. PICK v2 : v2 = V(2)
  OBVIOUS
<1>4. PICK v3 : v3 = V(3)
  OBVIOUS
<1>5. PICK f0 : f0 = F(0)
  OBVIOUS
<1>6. PICK a0 : a0 = A(0)
  OBVIOUS
<1>7. PICK zero : zero = Imm(0)
  OBVIOUS
<1>8. PICK t0 : t0 = JumpTarget(0)
  OBVIOUS
<1>9. PICK t1 : t1 = JumpTarget(1)
  OBVIOUS
<1>10. PICK cell : cell = Control(ResultCount)
  OBVIOUS
<1>11. PICK no : no = None
  OBVIOUS
<1>12. PICK i1, i2, i6, i8, i10, i14 :
         /\ i1 = Plain("SET", v0, count, no) /\ i2 = Plain("COUNT", v1, src, no)
         /\ i6 = Plain("ENUMERATE", v2, src, no) /\ i8 = Plain("AT", a0, v2, v3)
         /\ i10 = Plain("LOAD", v1, cell, no) /\ i14 = Plain("JUMP", no, t1, no)
  OBVIOUS
<1>13. PICK i3, i4, i5 :
         /\ i3 = Using("ALU", "MINIMUM", v0, v0, v1)
         /\ i4 = Using("COMPARE", "LESS_EQUAL", f0, v0, zero)
         /\ i5 = Using("JUMPIF", "TRUE", no, f0, t0)
  OBVIOUS
<1>21. PICK i7, i9 :
         /\ i7 = Using("RANDOM", "RANDOM_CARD", v3, no, v1)
         /\ i9 = Using("MOVE", method, dst, a0, no)
  OBVIOUS
<1>22. PICK i11, i13 :
         /\ i11 = Using("COMPARE", "EQUAL", f0, v1, zero)
         /\ i13 = Using("ALU", "SUBTRACT", v0, v0, v1)
  OBVIOUS
<1>14. Emitted(src, dst, count, method)
         = <<i1>> \o <<i2, i3, i4, i5, i6, i7, i8, i9, i10, i11, i5, i13, i14>>
  BY <1>1, <1>2, <1>3, <1>4, <1>5, <1>6, <1>7, <1>8, <1>9, <1>10, <1>11, <1>12, <1>13, <1>21, <1>22, Zenon
     DEF Emitted, Limit, JumpIf, Jump
<1>15. <<i1>> \o <<i2, i3, i4, i5, i6, i7, i8, i9, i10, i11, i5, i13, i14>>
         = <<i1, i2, i3, i4, i5, i6, i7, i8, i9, i10, i11, i5, i13, i14>>
  <2> DEFINE Elements == {i1, i2, i3, i4, i5, i6, i7, i8, i9, i10, i11, i13, i14}
             rest == <<i2, i3, i4, i5, i6, i7, i8, i9, i10, i11, i5, i13, i14>>
             all == <<i1, i2, i3, i4, i5, i6, i7, i8, i9, i10, i11, i5, i13, i14>>
  <2>1. <<i1>> \in Seq(Elements) /\ Len(<<i1>>) = 1 /\ <<i1>>[1] = i1
    OBVIOUS
  <2>2. rest \in Seq(Elements) /\ Len(rest) = 13
    OBVIOUS
  <2>3. all \in Seq(Elements) /\ Len(all) = 14
    OBVIOUS
  <2>4. \A k \in 2 .. 14 : all[k] = rest[k - 1]
    <3>1. \A k \in 2 .. 14 : \/ k = 2 \/ k = 3 \/ k = 4 \/ k = 5 \/ k = 6 \/ k = 7 \/ k = 8
                            \/ k = 9 \/ k = 10 \/ k = 11 \/ k = 12 \/ k = 13 \/ k = 14
      OBVIOUS
    <3> QED
      BY <3>1
  <2>5. all[1] = i1
    OBVIOUS
  <2> HIDE DEF Elements, rest, all
  <2>6. PICK one \in Seq(Elements) : one = <<i1>> /\ Len(one) = 1 /\ one[1] = i1
    BY <2>1
  <2>7. PICK both \in Seq(Elements) : both = one \o rest /\ Len(both) = Len(one) + Len(rest)
          /\ \A k \in 1 .. Len(one) + Len(rest) :
               both[k] = IF k <= Len(one) THEN one[k] ELSE rest[k - Len(one)]
    <3>1. PICK r \in Seq(Elements) : r = rest
      BY <2>2
    <3>2. /\ one \o r \in Seq(Elements) /\ Len(one \o r) = Len(one) + Len(r)
          /\ \A k \in 1 .. Len(one) + Len(r) :
               (one \o r)[k] = IF k <= Len(one) THEN one[k] ELSE r[k - Len(one)]
      BY ConcatProperties
    <3> QED
      BY <3>1, <3>2
  <2>8. Len(both) = 14 /\ \A k \in 1 .. 14 : both[k] = all[k]
    <3>1. Len(both) = 14 /\ both[1] = i1 /\ \A k \in 2 .. 14 : both[k] = rest[k - 1]
      BY <2>2, <2>6, <2>7
    <3> QED
      BY <2>4, <2>5, <3>1
  <2>9. both = all
    BY <2>3, <2>8, SeqEqual
  <2> QED
    BY <2>6, <2>7, <2>9 DEF rest, all
<1>16. /\ Has(i1, "SET", v0, count, no) /\ Has(i2, "COUNT", v1, src, no)
       /\ Has(i6, "ENUMERATE", v2, src, no) /\ Has(i8, "AT", a0, v2, v3)
       /\ Has(i10, "LOAD", v1, cell, no) /\ Has(i14, "JUMP", no, t1, no)
  BY <1>12, MoveOpcodes, PlainHas
<1>17. /\ Has(i3, "ALU", v0, v0, v1) /\ MethodOf(i3) = "MINIMUM"
       /\ Has(i13, "ALU", v0, v0, v1) /\ MethodOf(i13) = "SUBTRACT"
  <2>1. Contains(AluOps, "MINIMUM") /\ Contains(AluOps, "SUBTRACT")
    <3>1. AluOps[6] = "MINIMUM" /\ AluOps[2] = "SUBTRACT" /\ Len(AluOps) = 9
      BY DEF AluOps
    <3> QED
      BY <3>1 DEF Contains
  <2> QED
    BY <1>13, <1>21, <1>22, <2>1, MoveOpcodes, MethodsFit, UsingBack DEF Has
<1>18. /\ Has(i4, "COMPARE", f0, v0, zero) /\ MethodOf(i4) = "LESS_EQUAL"
       /\ Has(i11, "COMPARE", f0, v1, zero)
  <2>1. Contains(CompareOps, "LESS_EQUAL")
    <3>1. CompareOps[4] = "LESS_EQUAL" /\ Len(CompareOps) = 6
      BY DEF CompareOps
    <3> QED
      BY <3>1 DEF Contains
  <2> QED
    BY <1>13, <1>21, <1>22, <2>1, MoveOpcodes, MethodsFit, UsingBack DEF Has
<1>19. Has(i5, "JUMPIF", no, f0, t0) /\ MethodOf(i5) = "TRUE"
  <2>1. Contains(JumpConditions, "TRUE")
    <3>1. JumpConditions[4] = "TRUE" /\ Len(JumpConditions) = 11
      BY DEF JumpConditions
    <3> QED
      BY <3>1 DEF Contains
  <2> QED
    BY <1>13, <1>21, <1>22, <2>1, MoveOpcodes, MethodsFit, UsingBack DEF Has
<1>20. Has(i7, "RANDOM", v3, no, v1) /\ Has(i9, "MOVE", dst, a0, no)
  <2>1. Listed(RandomKinds) /\ Listed(MoveMethods)
    BY DEF RandomKinds, MoveMethods, Listed
  <2>2. Methods["RANDOM"] = RandomKinds /\ Methods["MOVE"] = MoveMethods
    BY DEF Methods
  <2> QED
    BY <1>13, <1>21, <1>22, <2>1, <2>2, MoveOpcodes, UsingBack DEF Has
<1> QED
  BY <1>1, <1>2, <1>3, <1>4, <1>5, <1>6, <1>7, <1>8, <1>9, <1>10, <1>11, <1>14, <1>15, <1>16,
     <1>17, <1>18, <1>19, <1>20

\* The fields of a builder.
BuilderFields == {"value", "address", "flag", "code", "ok"}

\* A conditional branch gets its target.
LEMMA PatchesBranch ==
  ASSUME NEW b, DOMAIN b = BuilderFields, NEW at, NEW target, ~(at >= Here(b)),
         OpcodeOf(b.code[at + 1]) = "JUMPIF"
  PROVE  /\ PatchJump(b, at, target).code
              = [b.code EXCEPT ![at + 1] = [b.code[at + 1] EXCEPT ![4] = JumpTarget(target)]]
         /\ PatchJump(b, at, target).ok = b.ok
         /\ DOMAIN PatchJump(b, at, target) = BuilderFields
<1>1. PatchJump(b, at, target) = [b EXCEPT !.code[at + 1][4] = JumpTarget(target)]
  BY DEF PatchJump
<1> QED
  BY <1>1 DEF BuilderFields

\* The parts of an instruction.
LEMMA HasParts ==
  ASSUME NEW i, NEW op, NEW d, NEW s, NEW t, Has(i, op, d, s, t)
  PROVE  OpcodeOf(i) = op /\ Dst(i) = d /\ Src0(i) = s /\ Src1(i) = t
BY DEF Has, Dst, Src0, Src1

\* Finish adds HALT and publishes the code of a builder that has not thrown.
LEMMA FinishParts ==
  ASSUME NEW b
  PROVE  /\ Finish(b).code = Emit(b, <<Halt>>).code
         /\ Finish(b).ok => Emit(b, <<Halt>>).ok
<1> DEFINE r == Emit(b, <<Halt>>)
<1>1. Finish(b) = [code |-> r.code, ok |-> r.ok /\ ValidTrace(r.code)]
  BY Zenon DEF Finish
<1> HIDE DEF r
<1>2. Finish(b).code = r.code
  BY <1>1
<1>3. Finish(b).ok => r.ok
  <2> DEFINE good == r.ok /\ ValidTrace(r.code)
  <2>1. Finish(b) = [code |-> r.code, ok |-> good]
    BY <1>1
  <2>2. good => r.ok
    OBVIOUS
  <2> HIDE DEF good
  <2>3. Finish(b).ok = good
    BY <2>1
  <2> QED
    BY <2>2, <2>3
<1> QED
  BY <1>2, <1>3 DEF r

\* One more element.
LEMMA OneMore ==
  ASSUME NEW Elements, NEW e \in Seq(Elements), NEW n \in Nat, Len(e) = n, NEW h \in Elements,
         NEW longer, longer = e \o <<h>>
  PROVE  /\ Len(longer) = n + 1 /\ longer[n + 1] = h
         /\ \A k \in 1 .. n : longer[k] = e[k]
OBVIOUS

\* What a random move that is built alone runs.
LEMMA RandomMoveDraws ==
  ASSUME NEW call, call.name = "RandomMove", NEW n, call.count = Imm(n),
         NEW done, done = Finish(Lower(NewBuilder, call)), done.ok
  PROVE  Draws(done.code, n) /\ RegisterCount >= 4
<1>1. PICK src, dst, method :
        Lower(NewBuilder, call) = RandomMove(NewBuilder, src, dst, Imm(n), method)
  BY DEF Lower, Call
<1>2. PICK count : count = Imm(n)
  OBVIOUS
<1>3. PICK body :
        /\ Lower(NewBuilder, call) = PatchJump(PatchJump(body, 4, Here(body)), 11, Here(body))
        /\ body.code = Emitted(src, dst, count, method)
        /\ body.ok => RegisterCount >= 4
        /\ DOMAIN body = BuilderFields
  BY <1>1, <1>2, RandomMoveEmits DEF BuilderFields
<1>4. PICK i1, i2, i3, i4, i5, i6, i7, i8, i9, i10, i11, i12, i13, i14 :
         /\ Emitted(src, dst, count, method)
              = <<i1, i2, i3, i4, i5, i6, i7, i8, i9, i10, i11, i12, i13, i14>>
         /\ Has(i1, "SET", V(0), count, None) /\ Has(i2, "COUNT", V(1), src, None)
         /\ Has(i3, "ALU", V(0), V(0), V(1)) /\ MethodOf(i3) = "MINIMUM"
         /\ Has(i4, "COMPARE", F(0), V(0), Imm(0)) /\ MethodOf(i4) = "LESS_EQUAL"
         /\ Has(i5, "JUMPIF", None, F(0), JumpTarget(0)) /\ MethodOf(i5) = "TRUE"
         /\ Has(i6, "ENUMERATE", V(2), src, None) /\ Has(i7, "RANDOM", V(3), None, V(1))
         /\ Has(i8, "AT", A(0), V(2), V(3)) /\ Has(i9, "MOVE", dst, A(0), None)
         /\ Has(i10, "LOAD", V(1), Control(ResultCount), None)
         /\ Has(i11, "COMPARE", F(0), V(1), Imm(0))
         /\ Has(i12, "JUMPIF", None, F(0), JumpTarget(0))
         /\ Has(i13, "ALU", V(0), V(0), V(1)) /\ MethodOf(i13) = "SUBTRACT"
         /\ Has(i14, "JUMP", None, JumpTarget(1), None)
  BY EmittedHas
<1>5. PICK end : end = JumpTarget(14) /\ ImmediateValue(end) = 14
  <2>1. 14 \in 0 .. 31
    OBVIOUS
  <2> QED
    BY <2>1, TargetBack
<1>6. ImmediateValue(JumpTarget(1)) = 1
  <2>1. 1 \in 0 .. 31
    OBVIOUS
  <2> QED
    BY <2>1, TargetBack
<1>7. PICK j5 : j5 = [i5 EXCEPT ![4] = end]
  OBVIOUS
<1>8. PICK j12 : j12 = [i12 EXCEPT ![4] = end]
  OBVIOUS
<1>9. PICK h : h = Halt
  OBVIOUS
<1> DEFINE Elements == {i1, i2, i3, i4, i5, i6, i7, i8, i9, i10, i11, i12, i13, i14, j5, j12, h}
           all == <<i1, i2, i3, i4, i5, i6, i7, i8, i9, i10, i11, i12, i13, i14>>
<1>10. all \in Seq(Elements) /\ Len(all) = 14
  OBVIOUS
<1>11. /\ all[1] = i1 /\ all[2] = i2 /\ all[3] = i3 /\ all[4] = i4 /\ all[5] = i5 /\ all[6] = i6
       /\ all[7] = i7 /\ all[8] = i8 /\ all[9] = i9 /\ all[10] = i10 /\ all[11] = i11
       /\ all[12] = i12 /\ all[13] = i13 /\ all[14] = i14
  OBVIOUS
<1>12. {j5, j12, h} \subseteq Elements
  OBVIOUS
<1>13. body.code = all
  BY <1>3, <1>4
<1> HIDE DEF Elements, all
<1>14. Here(body) = 14
  BY <1>10, <1>13 DEF Here
<1>15. OpcodeOf(i5) = "JUMPIF" /\ OpcodeOf(i12) = "JUMPIF"
  BY <1>4, HasParts
<1>16. PICK p : p = PatchJump(body, 4, 14)
  OBVIOUS
<1>17. p.code = [all EXCEPT ![5] = j5] /\ p.ok = body.ok /\ DOMAIN p = BuilderFields
  <2>1. PICK at \in Nat : at = 4 /\ at + 1 = 5
    OBVIOUS
  <2>2. PICK to : to = 14
    OBVIOUS
  <2>3. ~(at >= Here(body)) /\ OpcodeOf(body.code[at + 1]) = "JUMPIF"
    BY <1>11, <1>13, <1>14, <1>15, <2>1
  <2>4. /\ PatchJump(body, at, to).code
             = [body.code EXCEPT ![at + 1] = [body.code[at + 1] EXCEPT ![4] = JumpTarget(to)]]
        /\ PatchJump(body, at, to).ok = body.ok
        /\ DOMAIN PatchJump(body, at, to) = BuilderFields
    BY <1>3, <2>3, PatchesBranch
  <2> QED
    BY <1>5, <1>7, <1>11, <1>13, <1>16, <2>1, <2>2, <2>4
<1>18. PICK c \in Seq(Elements) : /\ c = [all EXCEPT ![5] = j5]
                           /\ Len(c) = 14 /\ c[5] = j5 /\ \A k \in 1 .. 14 : k # 5 => c[k] = all[k]
  <2>1. PICK a \in Seq(Elements) : a = all /\ Len(a) = 14
    BY <1>10
  <2>2. PICK at \in 1 .. Len(a) : at = 5
    BY <2>1
  <2>3. PICK x \in Elements : x = j5
    BY <1>12
  <2>4. PICK c : c = [a EXCEPT ![at] = x]
    OBVIOUS
  <2>5. /\ c \in Seq(Elements) /\ Len(c) = Len(a)
        /\ c[at] = x /\ \A k \in 1 .. Len(a) : k # at => c[k] = a[k]
    BY <2>4, ExceptSeq
  <2>6. c = [all EXCEPT ![5] = j5]
    BY <2>1, <2>2, <2>3, <2>4
  <2>7. Len(c) = 14 /\ c[5] = j5 /\ \A k \in 1 .. 14 : k # 5 => c[k] = all[k]
    BY <2>1, <2>2, <2>3, <2>5
  <2> QED
    BY <2>5, <2>6, <2>7
<1>19. Len(c) = 14 /\ c[5] = j5 /\ \A k \in 1 .. 14 : k # 5 => c[k] = all[k]
  BY <1>18
<1>20. PICK q : q = PatchJump(p, 11, 14)
  OBVIOUS
<1>21. q.code = [c EXCEPT ![12] = j12] /\ q.ok = body.ok /\ DOMAIN q = BuilderFields
  <2>1. PICK at \in Nat : at = 11 /\ at + 1 = 12
    OBVIOUS
  <2>2. PICK to : to = 14
    OBVIOUS
  <2>3. ~(at >= Here(p)) /\ OpcodeOf(p.code[at + 1]) = "JUMPIF"
    BY <1>11, <1>15, <1>17, <1>18, <1>19, <2>1 DEF Here
  <2>4. /\ PatchJump(p, at, to).code
             = [p.code EXCEPT ![at + 1] = [p.code[at + 1] EXCEPT ![4] = JumpTarget(to)]]
        /\ PatchJump(p, at, to).ok = p.ok
        /\ DOMAIN PatchJump(p, at, to) = BuilderFields
    <3>1. DOMAIN p = BuilderFields
      BY <1>17
    <3> QED
      BY <2>3, <3>1, PatchesBranch
  <2>5. p.code = c /\ c[12] = i12
    BY <1>11, <1>17, <1>18, <1>19
  <2> QED
    BY <1>5, <1>8, <1>17, <1>20, <2>1, <2>2, <2>4, <2>5
<1>22. PICK e \in Seq(Elements) : /\ e = [c EXCEPT ![12] = j12]
                           /\ Len(e) = 14 /\ e[12] = j12 /\ \A k \in 1 .. 14 : k # 12 => e[k] = c[k]
  <2>1. PICK a \in Seq(Elements) : a = c /\ Len(a) = 14
    BY <1>19
  <2>2. PICK at \in 1 .. Len(a) : at = 12
    BY <2>1
  <2>3. PICK x \in Elements : x = j12
    BY <1>12
  <2>4. PICK e : e = [a EXCEPT ![at] = x]
    OBVIOUS
  <2>5. /\ e \in Seq(Elements) /\ Len(e) = Len(a)
        /\ e[at] = x /\ \A k \in 1 .. Len(a) : k # at => e[k] = a[k]
    BY <2>4, ExceptSeq
  <2>6. e = [c EXCEPT ![12] = j12]
    BY <2>1, <2>2, <2>3, <2>4
  <2>7. Len(e) = 14 /\ e[12] = j12 /\ \A k \in 1 .. 14 : k # 12 => e[k] = c[k]
    BY <2>1, <2>2, <2>3, <2>5
  <2> QED
    BY <2>5, <2>6, <2>7
<1>23. Len(e) = 14 /\ e[12] = j12 /\ \A k \in 1 .. 14 : k # 12 => e[k] = c[k]
  BY <1>22
<1>24. done.code = e \o <<h>> /\ (done.ok => q.ok)
  <2>1. done = Finish(q)
    BY <1>3, <1>14, <1>16, <1>20
  <2>2. q.code = e
    BY <1>21, <1>22
  <2>4. Emit(q, <<h>>).ok = q.ok /\ Emit(q, <<h>>).code = q.code \o <<h>>
    <3>1. DOMAIN q = BuilderFields
      BY <1>21
    <3> QED
      BY <3>1 DEF Emit, BuilderFields
  <2>5. PICK r : r = Emit(q, <<h>>)
    OBVIOUS
  <2>7. done.code = r.code /\ (done.ok => r.ok)
    BY <1>9, <2>1, <2>5, FinishParts
  <2> QED
    BY <2>2, <2>4, <2>5, <2>7
<1>25. PICK code : code = done.code
  OBVIOUS
<1>26. Len(code) = 15 /\ code[15] = h /\ \A k \in 1 .. 14 : code[k] = e[k]
  <2>1. PICK size \in Nat : size = 14
    OBVIOUS
  <2>2. Len(e) = size /\ h \in Elements
    BY <1>12, <1>23, <2>1
  <2>3. code = e \o <<h>>
    BY <1>24, <1>25
  <2>4. /\ Len(code) = size + 1 /\ code[size + 1] = h
        /\ \A k \in 1 .. size : code[k] = e[k]
    BY <2>2, <2>3, OneMore
  <2> QED
    BY <2>1, <2>4
<1>27. /\ code[1] = i1 /\ code[2] = i2 /\ code[3] = i3 /\ code[4] = i4 /\ code[5] = j5
       /\ code[6] = i6 /\ code[7] = i7 /\ code[8] = i8 /\ code[9] = i9 /\ code[10] = i10
       /\ code[11] = i11 /\ code[12] = j12 /\ code[13] = i13 /\ code[14] = i14
  BY <1>11, <1>19, <1>23, <1>26
<1>28. /\ Has(j5, "JUMPIF", None, F(0), end) /\ MethodOf(j5) = "TRUE"
       /\ Has(j12, "JUMPIF", None, F(0), end) /\ Has(h, "HALT", None, None, None)
  <2>1. Has(h, "HALT", None, None, None)
    BY <1>9, MoveOpcodes, PlainHas DEF Halt
  <2> QED
    BY <1>4, <1>7, <1>8, <2>1, HasOperands
<1>29. RegisterCount >= 4
  BY <1>3, <1>21, <1>24
<1>30. Draws(code, n)
  <2>1. OpcodeOf(i1) = "SET" /\ Dst(i1) = V(0) /\ Src0(i1) = Imm(n)
    BY <1>2, <1>4, HasParts
  <2>2. OpcodeOf(i2) = "COUNT" /\ Dst(i2) = V(1)
    BY <1>4, HasParts
  <2>3. OpcodeOf(i3) = "ALU" /\ Dst(i3) = V(0) /\ Src0(i3) = V(0)
    BY <1>4, HasParts
  <2>4. OpcodeOf(i4) = "COMPARE" /\ Dst(i4) = F(0) /\ Src0(i4) = V(0) /\ Src1(i4) = Imm(0)
    BY <1>4, HasParts
  <2>5. OpcodeOf(j5) = "JUMPIF" /\ Src0(j5) = F(0) /\ ImmediateValue(Src1(j5)) = 14
    BY <1>5, <1>28, HasParts
  <2>6. OpcodeOf(i6) = "ENUMERATE" /\ Dst(i6) = V(2)
    BY <1>4, HasParts
  <2>7. OpcodeOf(i7) = "RANDOM" /\ Dst(i7) = V(3)
    BY <1>4, HasParts
  <2>8. OpcodeOf(i8) = "AT" /\ Dst(i8) = A(0)
    BY <1>4, HasParts
  <2>9. OpcodeOf(i9) = "MOVE" /\ Src1(i9) = None
    BY <1>4, HasParts
  <2>10. OpcodeOf(i10) = "LOAD" /\ Dst(i10) = V(1) /\ Src0(i10) = Control(ResultCount)
    BY <1>4, HasParts
  <2>11. OpcodeOf(i11) = "COMPARE" /\ Dst(i11) = F(0)
    BY <1>4, HasParts
  <2>12. OpcodeOf(j12) = "JUMPIF" /\ ImmediateValue(Src1(j12)) = 14
    BY <1>5, <1>28, HasParts
  <2>13. OpcodeOf(i13) = "ALU" /\ Dst(i13) = V(0) /\ Src0(i13) = V(0) /\ Src1(i13) = V(1)
    BY <1>4, HasParts
  <2>14. OpcodeOf(i14) = "JUMP" /\ ImmediateValue(Src0(i14)) = 1
    BY <1>4, <1>6, HasParts
  <2>15. OpcodeOf(h) = "HALT"
    BY <1>28, HasParts
  <2> QED
    BY <1>4, <1>26, <1>27, <1>28, <2>1, <2>2, <2>3, <2>4, <2>5, <2>6, <2>7, <2>8, <2>9, <2>10,
       <2>11, <2>12, <2>13, <2>14, <2>15 DEF Draws
<1> QED
  BY <1>25, <1>29, <1>30
-----------------------------------------------------------------------------
(* What the instructions of a random move do to their frame.               *)

\* What an instruction leaves alone when it does not go on, and what it does otherwise to the
\* cells that a random move lives in, when its destination is a register.
Stays(fr, fr2) ==
  /\ fr2.pc = fr.pc /\ fr2.value = fr.value /\ fr2.flag = fr.flag
  /\ fr2.control[ResultCount] = fr.control[ResultCount]
PutsIn(fr, fr2, d, w) ==
  /\ IsValueRegister(d) => fr2.value = [fr.value EXCEPT ![IndexOf(d)] = w] /\ fr2.flag = fr.flag
  /\ IsFlagRegister(d) => fr2.flag = [fr.flag EXCEPT ![IndexOf(d)] = w] /\ fr2.value = fr.value
  /\ IsAddressRegister(d) => fr2.value = fr.value /\ fr2.flag = fr.flag
  /\ IsRegister(d) => fr2.control[ResultCount] = fr.control[ResultCount]
Puts(fr, fr2, d, w) == fr2.pc = fr.pc + 1 /\ PutsIn(fr, fr2, d, w)

\* A write goes to one bank.
LEMMA CellPuts ==
  ASSUME NEW fr, BanksOK(fr), NEW d, NEW w,
         IsValueRegister(d) \/ IsFlagRegister(d) \/ IsAddressRegister(d),
         NEW fr2, fr2 = SetCell(fr, d, w)
  PROVE  PutsIn(fr, fr2, d, w) /\ IsCell(d)
<1>1. CASE IsValueRegister(d)
  <2>1. fr2 = [fr EXCEPT !.value[IndexOf(d)] = w]
    BY <1>1, KindsDiffer DEF SetCell
  <2> QED
    BY <1>1, <2>1, KindsDiffer DEF BanksOK, FrameFields, PutsIn, IsCell
<1>2. CASE IsFlagRegister(d)
  <2>1. fr2 = [fr EXCEPT !.flag[IndexOf(d)] = w]
    BY <1>2, KindsDiffer DEF SetCell
  <2> QED
    BY <1>2, <2>1, KindsDiffer DEF BanksOK, FrameFields, PutsIn, IsCell
<1>3. CASE IsAddressRegister(d)
  <2>1. fr2 = [fr EXCEPT !.address[IndexOf(d)] = w]
    BY <1>3, KindsDiffer DEF SetCell
  <2> QED
    BY <1>3, <2>1, KindsDiffer DEF BanksOK, FrameFields, PutsIn, IsCell
<1> QED
  BY <1>1, <1>2, <1>3

\* An instruction starts with the cells of its frame,
LEMMA StartsAlike ==
  ASSUME NEW f, BanksOK(frames[f])
  PROVE  /\ Stays(frames[f], Fr(f)) /\ BanksOK(Fr(f))
         /\ DOMAIN M(f) = {"frame", "fields"} /\ M(f).frame = Fr(f)
<1>1. Keeps(frames[f], Fr(f))
  BY MachineStart
<1> QED
  BY <1>1 DEF Stays, Keeps, Fr, M, BanksOK, FrameFields, ControlCells, ResultCount, ProgramCounterReg

\* goes on with those of the machine that it made,
LEMMA GoesTo ==
  ASSUME NEW f \in DOMAIN frames, NEW m, BanksOK(m.frame), NEW pc, Goto(f, m, pc)
  PROVE  /\ frames'[f].pc = pc /\ frames'[f].value = m.frame.value
         /\ frames'[f].flag = m.frame.flag /\ frames'[f].control = m.frame.control
BY DEF Goto, BanksOK, FrameFields

\* or stops.
LEMMA StopsAt ==
  ASSUME NEW f \in DOMAIN frames, NEW fr, BanksOK(fr), NEW status, Stop(f, fr, status)
  PROVE  /\ frames'[f].pc = fr.pc /\ frames'[f].value = fr.value
         /\ frames'[f].flag = fr.flag /\ frames'[f].control = fr.control
BY DEF Stop, BanksOK, FrameFields

\* An instruction that yields a word to a register.
LEMMA YieldPuts ==
  ASSUME NEW f \in DOMAIN frames, BanksOK(frames[f]), NEW valid, NEW w, Yield(f, valid, w),
         IsValueRegister(D(f)) \/ IsFlagRegister(D(f)) \/ IsAddressRegister(D(f))
  PROVE  \/ Stays(frames[f], frames'[f])
         \/ valid /\ CanWrite(D(f), w) /\ Puts(frames[f], frames'[f], D(f), w)
<1>1. /\ Stays(frames[f], Fr(f)) /\ BanksOK(Fr(f))
      /\ DOMAIN M(f) = {"frame", "fields"} /\ M(f).frame = Fr(f)
  BY StartsAlike
<1>2. CASE valid /\ CanWrite(D(f), w)
  <2>1. PICK fr : fr = SetCell(Fr(f), D(f), w)
    OBVIOUS
  <2>2. PutsIn(Fr(f), fr, D(f), w) /\ IsCell(D(f))
    BY <1>1, <2>1, CellPuts
  <2>3. PICK m : m = Write(M(f), D(f), w) /\ Continue(f, m)
    BY <1>2 DEF Yield
  <2>4. m.frame = fr
    BY <1>1, <2>1, <2>2, <2>3 DEF Write
  <2>5. BanksOK(m.frame)
    <3>1. Machine(frames[f], m)
      BY <1>2, <2>3, MachineStart, MachineWrite DEF CanWrite
    <3> QED
      BY <3>1 DEF Machine, Keeps
  <2>6. /\ frames'[f].pc = frames[f].pc + 1 /\ frames'[f].value = fr.value
        /\ frames'[f].flag = fr.flag /\ frames'[f].control = fr.control
    BY <2>3, <2>4, <2>5, GoesTo DEF Continue
  <2>7. PutsIn(frames[f], frames'[f], D(f), w)
    BY <1>1, <2>2, <2>6 DEF Stays, PutsIn
  <2> QED
    BY <1>2, <2>6, <2>7 DEF Puts
<1>3. CASE ~(valid /\ CanWrite(D(f), w))
  <2>1. Stop(f, Fr(f), "fault")
    BY <1>3 DEF Yield
  <2>2. /\ frames'[f].pc = Fr(f).pc /\ frames'[f].value = Fr(f).value
        /\ frames'[f].flag = Fr(f).flag /\ frames'[f].control = Fr(f).control
    BY <1>1, <2>1, StopsAt
  <2> QED
    BY <1>1, <2>2 DEF Stays
<1> QED
  BY <1>2, <1>3

\* An instruction of a frame that has not ended is that of its opcode.
LEMMA StepIs ==
  ASSUME NEW f, Step(f), frames[f].pc # Len(frames[f].program)
  PROVE  /\ OpcodeOf(I(f)) = "SET" => Set(f)
         /\ OpcodeOf(I(f)) \in {"COUNT", "ENUMERATE"} => Query(f)
         /\ OpcodeOf(I(f)) = "ALU" => Compute(f)
         /\ OpcodeOf(I(f)) = "COMPARE" => Compare(f)
         /\ OpcodeOf(I(f)) \in {"JUMP", "JUMPIF"} => Branch(f)
         /\ OpcodeOf(I(f)) = "RANDOM" => Random(f)
         /\ OpcodeOf(I(f)) = "AT" => At(f)
         /\ OpcodeOf(I(f)) = "MOVE" => Move(f)
         /\ OpcodeOf(I(f)) = "LOAD" => Load(f)
         /\ OpcodeOf(I(f)) = "HALT" => Finished(f)
BY DEF Step, Nop, Finished, Set, Select, Load, Store, Swap, Attribute, Compute, Compare, Branch,
       Query, At, AppendTo, Length, Ask, Resume, Random, Recall, Register, Cancel, Announce, Move, On

\* What the registers and the constants of a random move read as.
LEMMA ReadsBack ==
  ASSUME NEW fr, NEW k \in Indices
  PROVE  /\ Read(fr, V(k)) = fr.value[k]
         /\ IsFlagRegister(F(k)) => Read(fr, F(k)) = fr.flag[k]
<1>1. IsValueRegister(V(k)) /\ IndexOf(V(k)) = k
  BY ValueBack
<1>2. IndexOf(F(k)) = k
  <2>1. PICK bank \in Int : bank = FlagBank
    BY DEF FlagBank
  <2>2. F(k) = Reg(bank, k)
    BY <2>1 DEF F
  <2> QED
    BY <2>1, <2>2, RegisterBack
<1>3. Read(fr, V(k)) = fr.value[k]
  BY <1>1, KindsDiffer DEF Read, IsCell, Cell
<1>4. ASSUME IsFlagRegister(F(k)) PROVE Read(fr, F(k)) = fr.flag[k]
  BY <1>2, <1>4, KindsDiffer DEF Read, IsCell, Cell
<1> QED
  BY <1>3, <1>4

\* an immediate reads as itself,
LEMMA ReadsConstant ==
  ASSUME NEW fr, NEW n \in ImmediateMin .. ImmediateMax
  PROVE  Read(fr, Imm(n)) = Imm(n) /\ Number(fr, Imm(n)) = n
<1>1. IsImmediate(Imm(n)) /\ ImmediateValue(Imm(n)) = n
  BY ImmediateBack
<1>2. ~IsCell(Imm(n)) /\ ~IsAttribute(Imm(n))
  BY <1>1, KindsDiffer DEF IsCell, IsAttribute, IsImmediate, IsControl, IsValueRegister, IsAddressRegister,
     IsFlagRegister, IsBank, IsRegister, IsAddress, ImmediateTag, ControlTag, RegisterTag, AddressTag
<1> QED
  BY <1>1, <1>2 DEF Read, Number

\* and RESULT_COUNT as the cell.
LEMMA ReadsResult ==
  ASSUME NEW fr
  PROVE  Read(fr, Control(ResultCount)) = fr.control[ResultCount] /\ ~IsAddressSource(Control(ResultCount))
BY ResultBack, KindsDiffer DEF Read, IsCell, Cell, IsAddressSource, ControlCells, ResultCount

\* The registers of a random move.
LEMMA DrawRegisters ==
  ASSUME RegisterCount >= 4, NEW fr
  PROVE  /\ IsValueRegister(V(0)) /\ IndexOf(V(0)) = 0 /\ Read(fr, V(0)) = fr.value[0]
         /\ IsValueRegister(V(1)) /\ IndexOf(V(1)) = 1 /\ Read(fr, V(1)) = fr.value[1]
         /\ IsValueRegister(V(2)) /\ IndexOf(V(2)) = 2
         /\ IsValueRegister(V(3)) /\ IndexOf(V(3)) = 3
         /\ IndexOf(F(0)) = 0 /\ (IsFlagRegister(F(0)) => Read(fr, F(0)) = fr.flag[0])
         /\ {0, 1, 2, 3} \subseteq Indices
<1>1. RegisterCount \in Int
  BY FieldsFit DEF RegisterCount
<1>2. PICK k0 \in Indices : k0 = 0
  BY <1>1 DEF Indices
<1>3. PICK k1 \in Indices : k1 = 1
  BY <1>1 DEF Indices
<1>4. PICK k2 \in Indices : k2 = 2
  BY <1>1 DEF Indices
<1>5. PICK k3 \in Indices : k3 = 3
  BY <1>1 DEF Indices
<1>6. IsValueRegister(V(k0)) /\ IndexOf(V(k0)) = k0 /\ Read(fr, V(k0)) = fr.value[k0]
  BY ValueBack, ReadsBack
<1>7. IsValueRegister(V(k1)) /\ IndexOf(V(k1)) = k1 /\ Read(fr, V(k1)) = fr.value[k1]
  BY ValueBack, ReadsBack
<1>8. IsValueRegister(V(k2)) /\ IndexOf(V(k2)) = k2
  BY ValueBack
<1>9. IsValueRegister(V(k3)) /\ IndexOf(V(k3)) = k3
  BY ValueBack
<1>10. IndexOf(F(k0)) = k0 /\ (IsFlagRegister(F(k0)) => Read(fr, F(k0)) = fr.flag[k0])
  <2>1. PICK bank \in Int : bank = FlagBank
    BY DEF FlagBank
  <2>2. F(k0) = Reg(bank, k0)
    BY <2>1 DEF F
  <2> QED
    BY <2>1, <2>2, RegisterBack, ReadsBack
<1>11. {0, 1, 2, 3} \subseteq Indices
  BY <1>2, <1>3, <1>4, <1>5
<1> QED
  BY <1>2, <1>3, <1>4, <1>5, <1>6, <1>7, <1>8, <1>9, <1>10, <1>11

\* SET puts its constant,
LEMMA SetPuts ==
  ASSUME NEW f \in DOMAIN frames, Fetches(f), RegisterCount >= 4, Set(f),
         NEW n \in ImmediateMin .. ImmediateMax, D(f) = V(0), S(f) = Imm(n)
  PROVE  Stays(frames[f], frames'[f]) \/ Puts(frames[f], frames'[f], D(f), Imm(n))
<1>1. Yield(f, CanRead(Fr(f), S(f)), Read(Fr(f), S(f)))
  BY DEF Set
<1>2. Read(Fr(f), S(f)) = Imm(n)
  BY ReadsConstant
<1>3. BanksOK(frames[f]) /\ IsValueRegister(D(f))
  BY DrawRegisters DEF Fetches, Going, Sound
<1> QED
  BY <1>1, <1>2, <1>3, YieldPuts

\* COUNT and ENUMERATE something,
LEMMA QueryPuts ==
  ASSUME NEW f \in DOMAIN frames, Fetches(f), Query(f), IsValueRegister(D(f))
  PROVE  Stays(frames[f], frames'[f]) \/ \E w : Puts(frames[f], frames'[f], D(f), w)
<1> DEFINE place == Resolve(Fr(f), S(f))
           empty == OpcodeOf(I(f)) = "ENUMERATE" /\ IsNone(S(f))
           valid == empty \/ place \in Places
           members == IF empty THEN <<>> ELSE Members(place)
           handle == MakeTagged(CollectionTag, Len(frames[f].collections))
           added == [M(f) EXCEPT !.frame.collections = Append(@, members)]
<1>1. IF ~valid THEN Stop(f, Fr(f), "fault")
      ELSE IF OpcodeOf(I(f)) = "COUNT" THEN Yield(f, TRUE, Imm(Len(members)))
      ELSE Continue(f, Write(added, D(f), handle))
  BY Zenon DEF Query
<1>2. BanksOK(frames[f])
  BY DEF Fetches, Going, Sound
<1>3. /\ Stays(frames[f], Fr(f)) /\ BanksOK(Fr(f))
      /\ DOMAIN M(f) = {"frame", "fields"} /\ M(f).frame = Fr(f)
  BY <1>2, StartsAlike
<1>4. CASE Stop(f, Fr(f), "fault")
  BY <1>3, <1>4, StopsAt DEF Stays
<1>5. CASE Yield(f, TRUE, Imm(Len(members)))
  <2> HIDE DEF members
  <2> QED
    BY <1>2, <1>5, YieldPuts
<1>6. CASE Continue(f, Write(added, D(f), handle))
  <2>1. /\ added.frame.value = Fr(f).value /\ added.frame.flag = Fr(f).flag
        /\ added.frame.control = Fr(f).control /\ added.frame.pc = Fr(f).pc
        /\ BanksOK(added.frame) /\ DOMAIN added = {"frame", "fields"}
    <3>1. PICK list : added = [M(f) EXCEPT !.frame = [@ EXCEPT !.collections = list]]
      OBVIOUS
    <3> HIDE DEF added
    <3>2. added.frame = [Fr(f) EXCEPT !.collections = list] /\ DOMAIN added = {"frame", "fields"}
      BY <1>3, <3>1
    <3> QED
      BY <1>3, <3>2 DEF BanksOK, FrameFields
  <2> HIDE DEF added, handle
  <2>2. PICK fr : fr = SetCell(added.frame, D(f), handle)
    OBVIOUS
  <2>3. PutsIn(added.frame, fr, D(f), handle) /\ IsCell(D(f))
    BY <2>1, <2>2, CellPuts
  <2>4. PICK m : m = Write(added, D(f), handle) /\ Continue(f, m)
    BY <1>6
  <2>5. m.frame = fr
    BY <2>1, <2>2, <2>3, <2>4 DEF Write
  <2>6. BanksOK(fr)
    <3>1. fr = [added.frame EXCEPT !.value[IndexOf(D(f))] = handle]
      BY <2>2, KindsDiffer DEF SetCell
    <3> QED
      BY <2>1, <3>1 DEF BanksOK, FrameFields
  <2>7. /\ frames'[f].pc = frames[f].pc + 1 /\ frames'[f].value = fr.value
        /\ frames'[f].flag = fr.flag /\ frames'[f].control = fr.control
    BY <2>4, <2>5, <2>6, GoesTo DEF Continue
  <2>8. PutsIn(frames[f], frames'[f], D(f), handle)
    BY <1>3, <2>1, <2>3, <2>7 DEF Stays, PutsIn
  <2> QED
    BY <2>7, <2>8 DEF Puts
<1> QED
  BY <1>1, <1>4, <1>5, <1>6

\* ALU a number that an immediate holds,
LEMMA ComputePuts ==
  ASSUME NEW f \in DOMAIN frames, Fetches(f), RegisterCount >= 4, Compute(f), D(f) = V(0), S(f) = V(0)
  PROVE  \/ Stays(frames[f], frames'[f])
         \/ \E a, b, x \in Int :
              /\ IsImmediate(frames[f].value[0]) /\ a = ImmediateValue(frames[f].value[0])
              /\ T(f) = V(1) /\ ~IsNone(T(f)) => b = ImmediateValue(frames[f].value[1])
              /\ x = Arithmetic(MethodOf(I(f)), a, b) /\ x \in ImmediateMin .. ImmediateMax
              /\ Puts(frames[f], frames'[f], D(f), Imm(x))
<1> DEFINE a == Number(Fr(f), S(f))
           b == IF IsNone(T(f)) THEN 0 ELSE Number(Fr(f), T(f))
           valid == /\ IsNumber(Fr(f), S(f)) /\ (IsNone(T(f)) \/ IsNumber(Fr(f), T(f)))
                    /\ Computable(MethodOf(I(f)), a, b)
<1>1. Yield(f, valid, Imm(Arithmetic(MethodOf(I(f)), a, b)))
  BY Zenon DEF Compute
<1>2. BanksOK(frames[f]) /\ IsValueRegister(D(f))
  BY DrawRegisters DEF Fetches, Going, Sound
<1>3. CASE valid
  <2>1. Wordy(Fr(f)) /\ FieldsIn(fields) /\ S(f) \in Word /\ T(f) \in Word
    BY DEF Fetches, Poised
  <2>2. a \in Int /\ b \in Int
    BY <1>3, <2>1, ReadsNumber
  <2>3. Fr(f).value = frames[f].value
    BY <1>2, StartsAlike DEF Stays
  <2>4. IsImmediate(frames[f].value[0]) /\ a = ImmediateValue(frames[f].value[0])
    BY <1>3, <2>3, DrawRegisters DEF IsNumber, Number
  <2>5. T(f) = V(1) /\ ~IsNone(T(f)) => b = ImmediateValue(frames[f].value[1])
    BY <2>3, DrawRegisters DEF Number
  <2>6. PICK x : x = Arithmetic(MethodOf(I(f)), a, b)
    OBVIOUS
  <2>7. x \in ImmediateMin .. ImmediateMax
    BY <1>3, <2>6 DEF Computable
  <2> HIDE DEF a, b, valid
  <2>8. Stays(frames[f], frames'[f]) \/ Puts(frames[f], frames'[f], D(f), Imm(x))
    BY <1>1, <1>2, <2>6, YieldPuts
  <2> QED
    BY <2>2, <2>4, <2>5, <2>6, <2>7, <2>8
<1>4. CASE ~valid
  <2> HIDE DEF valid, a, b
  <2> QED
    BY <1>1, <1>2, <1>4, YieldPuts
<1> QED
  BY <1>3, <1>4

\* COMPARE a bit that says whether nothing remains,
LEMMA ComparePuts ==
  ASSUME NEW f \in DOMAIN frames, Fetches(f), RegisterCount >= 4, Compare(f), IsFlagRegister(D(f))
  PROVE  \/ Stays(frames[f], frames'[f])
         \/ \E x \in {0, 1} :
              /\ Puts(frames[f], frames'[f], D(f), Imm(x))
              /\ (MethodOf(I(f)) = "LESS_EQUAL" /\ S(f) = V(0) /\ T(f) = Imm(0) /\ x = 0)
                   => ImmediateValue(frames[f].value[0]) > 0
<1>1. BanksOK(frames[f])
  BY DEF Fetches, Going, Sound
<1>2. CASE MethodOf(I(f)) \in {"EQUAL", "NOT_EQUAL"}
  <2>1. PICK valid, x : Yield(f, valid, Imm(x)) /\ x \in {0, 1}
    BY <1>2 DEF Compare, Bit
  <2>2. MethodOf(I(f)) # "LESS_EQUAL"
    BY <1>2
  <2>3. Stays(frames[f], frames'[f]) \/ Puts(frames[f], frames'[f], D(f), Imm(x))
    BY <1>1, <2>1, YieldPuts
  <2> QED
    BY <2>1, <2>2, <2>3
<1>3. CASE MethodOf(I(f)) \notin {"EQUAL", "NOT_EQUAL"}
  <2> DEFINE valid == IsNumber(Fr(f), S(f)) /\ IsNumber(Fr(f), T(f))
             a == Number(Fr(f), S(f))
             b == Number(Fr(f), T(f))
             x == Bit(Holds(MethodOf(I(f)), a, b))
  <2>1. Yield(f, valid, Imm(x))
    BY <1>3, Zenon DEF Compare
  <2>2. x \in {0, 1}
    BY DEF Bit
  <2>3. CASE valid
    <3>1. Wordy(Fr(f)) /\ FieldsIn(fields) /\ S(f) \in Word /\ T(f) \in Word
      BY DEF Fetches, Poised
    <3>2. a \in Int /\ b \in Int
      BY <2>3, <3>1, ReadsNumber
    <3>3. ASSUME MethodOf(I(f)) = "LESS_EQUAL", S(f) = V(0), T(f) = Imm(0), x = 0
          PROVE  ImmediateValue(frames[f].value[0]) > 0
      <4>1. Fr(f).value = frames[f].value
        BY <1>1, StartsAlike DEF Stays
      <4>2. a = ImmediateValue(frames[f].value[0])
        BY <3>3, <4>1, DrawRegisters DEF Number
      <4>3. b = 0
        <5>1. PICK z \in ImmediateMin .. ImmediateMax : z = 0
          <6>1. PICK m \in Nat : m = ImmediateMax /\ ImmediateMin = -(m + 1)
            BY PayloadIsWide
          <6> QED
            BY <6>1
        <5>2. Number(Fr(f), Imm(z)) = z
          BY ReadsConstant
        <5> QED
          BY <3>3, <5>1, <5>2
      <4>4. Holds("LESS_EQUAL", a, b) <=> a <= b
        BY DEF Holds
      <4>5. ~Holds("LESS_EQUAL", a, b)
        BY <3>3 DEF Bit
      <4> HIDE DEF a, b, x
      <4> QED
        BY <3>2, <4>2, <4>3, <4>4, <4>5
    <3> HIDE DEF valid, a, b, x
    <3>4. Stays(frames[f], frames'[f]) \/ Puts(frames[f], frames'[f], D(f), Imm(x))
      BY <1>1, <2>1, YieldPuts
    <3> QED
      BY <2>2, <3>3, <3>4
  <2>4. CASE ~valid
    <3> HIDE DEF valid, a, b, x
    <3> QED
      BY <1>1, <2>1, <2>4, YieldPuts
  <2> QED
    BY <2>3, <2>4
<1> QED
  BY <1>2, <1>3

\* AT and RANDOM something, LOAD the result of the move.
LEMMA OthersPut ==
  ASSUME NEW f \in DOMAIN frames, Fetches(f), RegisterCount >= 4,
         At(f) \/ Random(f) \/ Load(f),
         IsValueRegister(D(f)) \/ IsFlagRegister(D(f)) \/ IsAddressRegister(D(f))
  PROVE  \/ Stays(frames[f], frames'[f])
         \/ \E w : /\ Puts(frames[f], frames'[f], D(f), w)
                   /\ Load(f) /\ S(f) = Control(ResultCount) => w = frames[f].control[ResultCount]
<1>1. BanksOK(frames[f])
  BY DEF Fetches, Going, Sound
<1>2. ASSUME NEW valid, NEW w, Yield(f, valid, w)
      PROVE  Stays(frames[f], frames'[f]) \/ Puts(frames[f], frames'[f], D(f), w)
  BY <1>1, <1>2, YieldPuts
<1>3. CASE Load(f)
  <2>1. CASE S(f) = Control(ResultCount)
    <3>1. Yield(f, CanRead(Fr(f), S(f)), Read(Fr(f), S(f)))
      BY <1>3, <2>1, ReadsResult DEF Load
    <3>2. Read(Fr(f), S(f)) = frames[f].control[ResultCount]
      BY <1>1, <2>1, ReadsResult, StartsAlike DEF Stays
    <3> QED
      BY <1>2, <3>1, <3>2
  <2>2. CASE S(f) # Control(ResultCount)
    <3>1. PICK valid, w : Yield(f, valid, w)
      BY <1>3 DEF Load
    <3> QED
      BY <1>2, <2>2, <3>1
  <2> QED
    BY <2>1, <2>2
<1>4. CASE At(f) \/ Random(f)
  <2>1. OpcodeOf(I(f)) # "LOAD" /\ \E valid, w : Yield(f, valid, w)
    BY <1>4 DEF At, Random, On
  <2>2. ~Load(f)
    BY <2>1 DEF Load, On
  <2>3. PICK valid, w : Yield(f, valid, w)
    BY <2>1
  <2> QED
    BY <1>2, <2>2, <2>3
<1> QED
  BY <1>3, <1>4

\* A branch goes on or to its target, and JUMPIF TRUE asks its flag.
LEMMA BranchGoes ==
  ASSUME NEW f \in DOMAIN frames, Fetches(f), Branch(f)
  PROVE  \/ Stays(frames[f], frames'[f])
         \/ \E pc : /\ Stays([frames[f] EXCEPT !.pc = pc], frames'[f])
                    /\ OpcodeOf(I(f)) = "JUMP" => pc = ImmediateValue(S(f))
                    /\ OpcodeOf(I(f)) = "JUMPIF" =>
                         \/ pc = ImmediateValue(T(f))
                         \/ /\ pc = frames[f].pc + 1
                            /\ MethodOf(I(f)) = "TRUE" => Number(Fr(f), S(f)) = 0
<1>1. BanksOK(frames[f])
  BY DEF Fetches, Going, Sound
<1>2. /\ Stays(frames[f], Fr(f)) /\ BanksOK(Fr(f)) /\ M(f).frame = Fr(f)
  BY <1>1, StartsAlike
<1>3. ASSUME NEW pc, Goto(f, M(f), pc)
      PROVE  Stays([frames[f] EXCEPT !.pc = pc], frames'[f])
  <2>1. /\ frames'[f].pc = pc /\ frames'[f].value = Fr(f).value
        /\ frames'[f].flag = Fr(f).flag /\ frames'[f].control = Fr(f).control
    BY <1>2, <1>3, GoesTo
  <2> QED
    BY <1>1, <1>2, <2>1 DEF Stays, BanksOK, FrameFields
<1>4. ASSUME NEW status, Stop(f, Fr(f), status) PROVE Stays(frames[f], frames'[f])
  BY <1>2, <1>4, StopsAt DEF Stays
<1>5. CASE OpcodeOf(I(f)) = "JUMP"
  <2>1. Goto(f, M(f), ImmediateValue(S(f)))
    BY <1>5 DEF Branch
  <2> QED
    BY <1>3, <1>5, <2>1
<1>6. CASE OpcodeOf(I(f)) = "JUMPIF"
  <2> DEFINE method == MethodOf(I(f))
             test == Number(Fr(f), S(f))
             take == CASE method = "ALWAYS" -> TRUE
                       [] method \in {"ZERO", "FALSE"} -> test = 0
                       [] method \in {"NOT_ZERO", "TRUE"} -> test # 0
  <2>1. IF method \notin {"ALWAYS", "ZERO", "FALSE", "NOT_ZERO", "TRUE"}
        THEN Stop(f, Fr(f), "unsupported")
        ELSE IF ~IsNumber(Fr(f), S(f)) THEN Stop(f, Fr(f), "fault")
        ELSE IF take THEN Goto(f, M(f), ImmediateValue(T(f))) ELSE Continue(f, M(f))
    BY <1>6 DEF Branch
  <2>2. method = "TRUE" => (take <=> test # 0)
    OBVIOUS
  <2> HIDE DEF take
  <2>3. \/ \E status : Stop(f, Fr(f), status)
        \/ Goto(f, M(f), ImmediateValue(T(f)))
        \/ Goto(f, M(f), frames[f].pc + 1) /\ ~take
    BY <2>1 DEF Continue
  <2>4. CASE \E status : Stop(f, Fr(f), status)
    BY <1>4, <2>4
  <2>5. CASE Goto(f, M(f), ImmediateValue(T(f)))
    BY <1>3, <1>6, <2>5
  <2>6. CASE Goto(f, M(f), frames[f].pc + 1) /\ ~take
    BY <1>3, <1>6, <2>2, <2>6
  <2> QED
    BY <2>3, <2>4, <2>5, <2>6
<1> QED
  BY <1>5, <1>6 DEF Branch, On

\* MOVE without an amount moves one card, or none when it faults.
LEMMA MoveDraws ==
  ASSUME IInv, WInv, NEW f \in DOMAIN frames, f \in DOMAIN moves, Fetches(f), Move(f), T(f) = None
  PROVE  \E done \in {0, 1} :
           /\ moves' = [moves EXCEPT ![f] = @ + done]
           /\ frames'[f].value = frames[f].value
           /\ frames'[f].control[ResultCount] = Imm(done)
           /\ \/ frames'[f].pc = frames[f].pc + 1
              \/ frames'[f].pc = frames[f].pc /\ done = 0
<1> DEFINE fr == Fr(f)
           to == Resolve(fr, D(f))
           from == Resolve(fr, S(f))
           amount == IF IsNone(T(f)) THEN 1 ELSE Number(fr, T(f))
           objects == IF LevelOf(from) = CardLevel THEN <<from>> ELSE Members(from)
           cost == (FlagsOf(Operation(I(f))) \div FlagCost) % 2 = 1
           valid == /\ ValidAddress(to) /\ ValidAddress(from) /\ IsObject(to) /\ IsObject(from)
                    /\ IsNone(T(f)) \/ (IsNumber(fr, T(f)) /\ amount >= 0)
                    /\ LevelOf(from) = CardLevel \/ from \in Places
                    /\ cost => amount <= Len(objects)
           first == SubSeq(objects, 1, IF amount < Len(objects) THEN amount ELSE Len(objects))
<1>1. IF valid THEN MoveAll(f, to, first, TRUE) ELSE MoveAll(f, to, <<>>, FALSE)
  BY Zenon DEF Move
<1>2. PICK wanted, good : MoveAll(f, to, wanted, good) /\ Len(wanted) \in {0, 1}
        /\ good \in BOOLEAN /\ (~good => Len(wanted) = 0)
  <2>1. CASE ~valid
    <3>1. MoveAll(f, to, <<>>, FALSE)
      BY <1>1, <2>1
    <3>2. Len(<<>>) = 0
      OBVIOUS
    <3> QED
      BY <3>1, <3>2
  <2>2. CASE valid
    <3>1. MoveAll(f, to, first, TRUE)
      BY <1>1, <2>2
    <3>2. amount = 1
      BY NoneIsNone
    <3>3. Wordy(fr) /\ FieldsIn(fields) /\ S(f) \in Word /\ ZonesIn(zones)
      BY DEF Fetches, Poised, WInv
    <3>4. objects \in Seq(Word)
      <4>1. CASE LevelOf(from) = CardLevel
        <5>1. PICK o \in Word : o = from
          BY <3>3, ReadsWord
        <5>2. <<o>> \in Seq(Word)
          OBVIOUS
        <5> QED
          BY <4>1, <5>1, <5>2
      <4>2. CASE LevelOf(from) # CardLevel
        BY <2>2, <3>3, <4>2, MembersAreWords
      <4> QED
        BY <4>1, <4>2
    <3> HIDE DEF amount, objects, valid
    <3>5. PICK list \in Seq(Word) : list = objects
      BY <3>4
    <3>6. PICK size \in Nat : size = Len(list)
      BY LenProperties
    <3>7. PICK n : n = IF amount < size THEN amount ELSE size
      OBVIOUS
    <3>8. n \in 0 .. 1 /\ n <= size
      BY <3>2, <3>7
    <3>9. Len(SubSeq(list, 1, n)) = n
      BY <3>6, <3>8
    <3>10. PICK wanted : wanted = first
      OBVIOUS
    <3>11. wanted = SubSeq(list, 1, n)
      BY <3>5, <3>6, <3>7, <3>10
    <3> HIDE DEF first
    <3>12. MoveAll(f, to, wanted, TRUE)
      BY <3>1, <3>10
    <3>13. Len(wanted) \in {0, 1}
      BY <3>8, <3>9, <3>11
    <3> QED
      BY <3>12, <3>13
  <2> QED
    BY <2>1, <2>2
<1> HIDE DEF to
<1> DEFINE b(done) == good /\ done = Len(wanted)
<1>3. \E done \in 0 .. Len(wanted) :
        /\ moves' = [moves EXCEPT ![f] = @ + done]
        /\ Proceeds(f, Results(f, done, b(done)), b(done))
  BY <1>2, Zenon DEF MoveAll, Count, Results, Proceeds
<1>4. PICK done \in 0 .. Len(wanted) :
        /\ moves' = [moves EXCEPT ![f] = @ + done]
        /\ Proceeds(f, Results(f, done, b(done)), b(done))
  <2> HIDE DEF b
  <2> QED
    BY <1>3
<1>5. PICK size \in 0 .. 1 : size = Len(wanted)
  BY <1>2
<1>6. done \in 0 .. size
  BY <1>4, <1>5
<1>7. done \in {0, 1}
  BY <1>6
<1>8. PICK c \in BOOLEAN : c = b(done) /\ (~c => done = 0)
  <2>1. good \in BOOLEAN /\ (~good => size = 0)
    BY <1>2, <1>5
  <2>2. b(done) \in BOOLEAN
    BY <2>1
  <2>3. b(done) <=> good /\ done = size
    BY <1>5
  <2> HIDE DEF b
  <2>4. ~b(done) => done = 0
    BY <1>6, <2>1, <2>3
  <2> QED
    BY <2>2, <2>4
<1>9. PICK after : after = Results(f, done, c)
  OBVIOUS
<1>10. Proceeds(f, after, c)
  <2> HIDE DEF b
  <2> QED
    BY <1>4, <1>8, <1>9
<1>11. BanksOK(frames[f])
  BY DEF Fetches, Going, Sound
<1>12. Stays(frames[f], Fr(f)) /\ BanksOK(Fr(f))
  BY <1>11, StartsAlike
<1>13. /\ BanksOK(after) /\ after.pc = frames[f].pc /\ after.value = frames[f].value
       /\ after.control[ResultCount] = Imm(done)
  <2>1. PICK mid : mid = With(Fr(f), ResultCount, done)
    OBVIOUS
  <2>2. /\ BanksOK(mid) /\ mid.pc = frames[f].pc /\ mid.value = frames[f].value
        /\ mid.control[ResultCount] = Imm(done)
    BY <1>12, <2>1 DEF BanksOK, With, FrameFields, ControlCells, ResultCount, Stays
  <2>3. after = With(mid, ResultSuccess, Bit(c))
    BY <1>9, <2>1 DEF Results
  <2> QED
    BY <2>2, <2>3 DEF BanksOK, With, FrameFields, ControlCells, ResultCount, ResultSuccess
<1>14. CASE c
  <2>1. PICK m : m = [frame |-> after, fields |-> fields] /\ Continue(f, m)
    BY <1>10, <1>14 DEF Proceeds
  <2>2. m.frame = after
    BY <2>1
  <2>3. /\ frames'[f].pc = frames[f].pc + 1 /\ frames'[f].value = after.value
        /\ frames'[f].control = after.control
    BY <1>13, <2>1, <2>2, GoesTo DEF Continue
  <2> QED
    BY <1>4, <1>7, <1>13, <2>3
<1>15. CASE ~c
  <2>1. Stop(f, after, "fault")
    BY <1>10, <1>15 DEF Proceeds
  <2>2. /\ frames'[f].pc = after.pc /\ frames'[f].value = after.value
        /\ frames'[f].control = after.control
    BY <1>13, <2>1, StopsAt
  <2> QED
    BY <1>4, <1>7, <1>8, <1>13, <1>15, <2>2
<1> QED
  BY <1>14, <1>15
-----------------------------------------------------------------------------
(* How far a random move has come, before each of its instructions.        *)

\* Where a random move of n cards is after m: what remains to be moved is in V(0), and from the
\* MOVE to the SUBTRACT what it has just moved is still in there.
Left(fr) == ImmediateValue(fr.value[0])
Drawing(fr, n, m) ==
  /\ m \in 0 .. n
  /\ fr.pc = 0 => m = 0
  /\ fr.pc \in 1 .. 13 => IsImmediate(fr.value[0])
  /\ fr.pc \in 1 .. 8 \cup {13} => m + Left(fr) <= n
  /\ fr.pc = 4 => IsImmediate(fr.flag[0]) /\ (ImmediateValue(fr.flag[0]) = 0 => Left(fr) >= 1)
  /\ fr.pc \in 5 .. 8 => Left(fr) >= 1
  /\ fr.pc = 9 => /\ IsImmediate(fr.control[ResultCount])
                  /\ m + Left(fr) - ImmediateValue(fr.control[ResultCount]) <= n
  /\ fr.pc \in 10 .. 12 => /\ IsImmediate(fr.value[1])
                           /\ m + Left(fr) - ImmediateValue(fr.value[1]) <= n

\* The step of such a frame, by the instruction that it is at.
LEMMA DrawingSteps ==
  ASSUME IInv, WInv, NEW f \in DOMAIN frames, f \in DOMAIN moves, NEW n \in 0 .. ImmediateMax,
         RegisterCount >= 4, Draws(frames[f].program, n), Drawing(frames[f], n, moves[f]), Step(f)
  PROVE  Drawing(frames'[f], n, moves'[f])
<1> DEFINE code == frames[f].program
           fr == frames[f]
           fr2 == frames'[f]
           m == moves[f]
<1>1. PICK most \in Nat : most = ImmediateMax /\ ImmediateMin = -(most + 1) /\ most >= 31
  BY PayloadIsWide
<1>2. n \in Int /\ n \in ImmediateMin .. ImmediateMax /\ m \in 0 .. n
  BY <1>1 DEF Drawing
<1>3. Sound(fr) /\ BanksOK(fr) /\ Runnable(f)
  <2>1. Runnable(f)
    BY DEF Step, Nop, Finished, Set, Select, Load, Store, Swap, Attribute, Compute, Compare, Branch,
       Query, At, AppendTo, Length, Ask, Resume, Random, Recall, Register, Cancel, Announce, Move, On
  <2> QED
    BY <2>1 DEF IInv, FramesOK, ToSet, Sound
<1>4. Len(code) = 15 /\ fr.pc \in 0 .. 15
  BY <1>3 DEF Draws, Sound, PlaceOK, Runnable
<1>5. DOMAIN fr.value = Indices /\ DOMAIN fr.flag = Indices /\ {0, 1, 2, 3} \subseteq Indices
  BY <1>3, DrawRegisters DEF BanksOK
<1>6. fr.value[0] \in Word /\ fr.value[1] \in Word /\ fr.control[ResultCount] \in Word
  BY <1>5 DEF WInv, ToSet, FrameWords, Wordy, ControlCells, ResultCount
<1>7. Left(fr) \in Int /\ ImmediateValue(fr.value[1]) \in Int
      /\ ImmediateValue(fr.control[ResultCount]) \in Int
  BY <1>1, <1>6, PartsOfWord DEF Left
<1>8. ASSUME Stays(fr, fr2), moves' = moves PROVE Drawing(fr2, n, moves'[f])
  BY <1>8 DEF Drawing, Stays, Left
<1>9. CASE fr.pc \in {14, 15}
  <2>1. Finished(f)
    <3>1. CASE fr.pc = 15
      BY <1>4, <3>1 DEF Step, Nop, Finished, Set, Select, Load, Store, Swap, Attribute, Compute, Compare,
         Branch, Query, At, AppendTo, Length, Ask, Resume, Random, Recall, Register, Cancel, Announce,
         Move, On
    <3>2. CASE fr.pc = 14
      <4>1. I(f) = code[15] /\ fr.pc # Len(code)
        BY <1>4, <3>2 DEF I
      <4> QED
        BY <4>1, StepIs DEF Draws
    <3> QED
      BY <1>9, <3>1, <3>2
  <2>2. moves' = moves
    BY <2>1 DEF Finished, shared
  <2>3. PICK last : last \in {fr, Fr(f)} /\ Stop(f, last, "halted")
    BY <2>1 DEF Finished
  <2>4. Stays(fr, Fr(f)) /\ BanksOK(Fr(f))
    BY <1>3, StartsAlike
  <2>5. Stays(fr, last) /\ BanksOK(last)
    BY <1>3, <2>3, <2>4 DEF Stays
  <2>6. Stays(fr, fr2)
    BY <2>3, <2>5, StopsAt DEF Stays
  <2> QED
    BY <1>8, <2>2, <2>6
<1> HIDE DEF m, code
<1>10. CASE fr.pc \in 0 .. 13
  <2>1. fr.pc # Len(code) /\ fr.pc < Len(code) /\ On(f, {OpcodeOf(I(f))})
    BY <1>3, <1>4, <1>10 DEF On, code
  <2>2. OpcodeOf(I(f)) # "CHOOSE" => Fetches(f)
    BY <2>1, FetchesWords DEF IInv
  <2>3. CASE fr.pc = 0
    <3>1. I(f) = code[1]
      BY <2>3 DEF I, code
    <3>2. OpcodeOf(I(f)) = "SET" /\ D(f) = V(0) /\ S(f) = Imm(n)
      BY <3>1 DEF Draws, D, S, code
    <3>3. Set(f)
      BY <2>1, <3>2, StepIs DEF code
    <3>4. Stays(fr, fr2) \/ Puts(fr, fr2, D(f), Imm(n))
      BY <1>2, <2>2, <3>2, <3>3, SetPuts
    <3>5. moves' = moves
      BY <3>3 DEF Set, shared
    <3>6. CASE Puts(fr, fr2, D(f), Imm(n))
      <4>1. fr2.pc = 1 /\ fr2.value[0] = Imm(n)
        BY <1>5, <2>3, <3>2, <3>6, DrawRegisters DEF Puts, PutsIn
      <4>2. IsImmediate(fr2.value[0]) /\ Left(fr2) = n
        BY <1>2, <4>1, ImmediateBack DEF Left
      <4>3. m = 0
        BY <2>3 DEF Drawing, m
      <4> QED
        BY <1>2, <3>5, <4>1, <4>2, <4>3 DEF Drawing, m
    <3> QED
      BY <1>8, <3>4, <3>5, <3>6
  <2>4. CASE fr.pc = 1
    <3>1. I(f) = code[2]
      BY <2>4 DEF I, code
    <3>2. OpcodeOf(I(f)) = "COUNT" /\ D(f) = V(1)
      BY <3>1 DEF Draws, D, code
    <3>3. Query(f)
      BY <2>1, <3>2, StepIs DEF code
    <3>4. Stays(fr, fr2) \/ \E w : Puts(fr, fr2, D(f), w)
      BY <2>2, <3>2, <3>3, QueryPuts, DrawRegisters
    <3>5. moves' = moves
      BY <3>3 DEF Query, shared
    <3>6. ASSUME NEW w, Puts(fr, fr2, D(f), w) PROVE Drawing(fr2, n, moves'[f])
      <4>1. fr2.pc = 2 /\ fr2.value[0] = fr.value[0]
        BY <1>5, <2>4, <3>2, <3>6, DrawRegisters DEF Puts, PutsIn
      <4>2. m + Left(fr) <= n /\ IsImmediate(fr.value[0])
        BY <2>4 DEF Drawing, m
      <4> QED
        BY <1>2, <1>7, <3>5, <4>1, <4>2 DEF Drawing, m, Left
    <3> QED
      BY <1>8, <3>4, <3>5, <3>6
  <2>5. CASE fr.pc = 2
    <3>1. I(f) = code[3]
      BY <2>5 DEF I, code
    <3>2. OpcodeOf(I(f)) = "ALU" /\ MethodOf(I(f)) = "MINIMUM" /\ D(f) = V(0) /\ S(f) = V(0)
      BY <3>1 DEF Draws, D, S, code
    <3>3. Compute(f)
      BY <2>1, <3>2, StepIs DEF code
    <3>4. \/ Stays(fr, fr2)
          \/ \E a, b, x \in Int :
              /\ IsImmediate(fr.value[0]) /\ a = ImmediateValue(fr.value[0])
              /\ T(f) = V(1) /\ ~IsNone(T(f)) => b = ImmediateValue(fr.value[1])
              /\ x = Arithmetic(MethodOf(I(f)), a, b) /\ x \in ImmediateMin .. ImmediateMax
              /\ Puts(fr, fr2, D(f), Imm(x))
      BY <2>2, <3>2, <3>3, ComputePuts
    <3>5. moves' = moves
      BY <3>3 DEF Compute, shared
    <3>6. ASSUME NEW a \in Int, NEW b \in Int, NEW x \in Int,
                 a = ImmediateValue(fr.value[0]), x = Arithmetic(MethodOf(I(f)), a, b),
                 x \in ImmediateMin .. ImmediateMax, Puts(fr, fr2, D(f), Imm(x))
          PROVE  Drawing(fr2, n, moves'[f])
      <4>1. fr2.pc = 3 /\ fr2.value[0] = Imm(x)
        BY <1>5, <2>5, <3>2, <3>6, DrawRegisters DEF Puts, PutsIn
      <4>2. IsImmediate(fr2.value[0]) /\ Left(fr2) = x
        BY <3>6, <4>1, ImmediateBack DEF Left
      <4>3. x = IF a < b THEN a ELSE b
        BY <3>2, <3>6 DEF Arithmetic
      <4>4. m + a <= n
        BY <2>5, <3>6 DEF Drawing, m, Left
      <4>5. m + x <= n
        BY <1>2, <4>3, <4>4
      <4> QED
        BY <1>2, <3>5, <4>1, <4>2, <4>5 DEF Drawing, m
    <3> QED
      BY <1>8, <3>4, <3>5, <3>6
  <2>6. CASE fr.pc = 3
    <3>1. I(f) = code[4]
      BY <2>6 DEF I, code
    <3>2. /\ OpcodeOf(I(f)) = "COMPARE" /\ MethodOf(I(f)) = "LESS_EQUAL"
          /\ D(f) = F(0) /\ S(f) = V(0) /\ T(f) = Imm(0)
      BY <3>1 DEF Draws, D, S, T, code
    <3>3. Compare(f)
      BY <2>1, <3>2, StepIs DEF code
    <3>4. IsFlagRegister(D(f))
      BY <2>2, <3>2 DEF Fetches, Poised, ValidInstruction, ValidForm, D
    <3>5. moves' = moves
      BY <3>3 DEF Compare, shared
    <3>6. \/ Stays(fr, fr2)
          \/ \E x \in {0, 1} : /\ Puts(fr, fr2, D(f), Imm(x))
                               /\ x = 0 => ImmediateValue(fr.value[0]) > 0
      BY <2>2, <3>2, <3>3, <3>4, ComparePuts
    <3>7. ASSUME NEW x \in {0, 1}, Puts(fr, fr2, D(f), Imm(x)), x = 0 => Left(fr) > 0
          PROVE  Drawing(fr2, n, moves'[f])
      <4>1. fr2.pc = 4 /\ fr2.value = fr.value /\ fr2.flag[0] = Imm(x)
        BY <1>5, <2>6, <3>2, <3>4, <3>7, DrawRegisters DEF Puts, PutsIn
      <4>2. IsImmediate(Imm(x)) /\ ImmediateValue(Imm(x)) = x
        <5>1. x \in ImmediateMin .. ImmediateMax
          BY <1>1
        <5> QED
          BY <5>1, ImmediateBack
      <4>3. m + Left(fr) <= n /\ IsImmediate(fr.value[0])
        BY <2>6 DEF Drawing, m
      <4>4. Left(fr2) = Left(fr)
        BY <4>1 DEF Left
      <4> QED
        BY <1>2, <1>7, <3>5, <3>7, <4>1, <4>2, <4>3, <4>4 DEF Drawing, m
    <3> QED
      BY <1>8, <3>5, <3>6, <3>7 DEF Left
  <2>7. CASE fr.pc = 4
    <3>1. I(f) = code[5]
      BY <2>7 DEF I, code
    <3>2. /\ OpcodeOf(I(f)) = "JUMPIF" /\ MethodOf(I(f)) = "TRUE" /\ S(f) = F(0)
          /\ ImmediateValue(T(f)) = 14
      BY <3>1 DEF Draws, S, T, code
    <3>3. Branch(f)
      BY <2>1, <3>2, StepIs DEF code
    <3>4. IsFlagRegister(F(0))
      BY <2>2, <3>2 DEF Fetches, Poised, ValidInstruction, ValidForm, S
    <3>5. moves' = moves
      BY <3>3 DEF Branch, shared
    <3>6. Number(Fr(f), S(f)) = ImmediateValue(fr.flag[0])
      BY <1>3, <3>2, <3>4, DrawRegisters, StartsAlike DEF Number, Stays
    <3>7. PICK pc : \/ Stays(fr, fr2)
                    \/ /\ Stays([fr EXCEPT !.pc = pc], fr2)
                       /\ pc = 14 \/ (pc = 5 /\ ImmediateValue(fr.flag[0]) = 0)
      <4>1. Fetches(f)
        BY <2>2, <3>2
      <4>2. \/ Stays(fr, fr2)
            \/ \E pc : /\ Stays([fr EXCEPT !.pc = pc], fr2)
                       /\ \/ pc = ImmediateValue(T(f))
                          \/ pc = fr.pc + 1 /\ Number(Fr(f), S(f)) = 0
        BY <3>2, <3>3, <4>1, BranchGoes
      <4>3. ASSUME NEW pc, \/ pc = ImmediateValue(T(f))
                           \/ pc = fr.pc + 1 /\ Number(Fr(f), S(f)) = 0
            PROVE  pc = 14 \/ (pc = 5 /\ ImmediateValue(fr.flag[0]) = 0)
        BY <2>7, <3>2, <3>6, <4>3
      <4> QED
        BY <4>2, <4>3
    <3>8. CASE Stays([fr EXCEPT !.pc = pc], fr2) /\ (pc = 14 \/ (pc = 5 /\ ImmediateValue(fr.flag[0]) = 0))
      <4>1. fr2.pc = pc /\ fr2.value = fr.value
        BY <1>3, <3>8 DEF Stays, BanksOK, FrameFields
      <4>2. m + Left(fr) <= n /\ IsImmediate(fr.value[0]) /\ (pc = 5 => Left(fr) >= 1)
        BY <2>7, <3>8 DEF Drawing, m
      <4>3. Left(fr2) = Left(fr)
        BY <4>1 DEF Left
      <4> QED
        BY <1>2, <1>7, <3>5, <3>8, <4>1, <4>2, <4>3 DEF Drawing, m
    <3> QED
      BY <1>8, <3>5, <3>7, <3>8
  <2>8. CASE fr.pc \in {5, 6, 7}
    <3>1. /\ fr.pc = 5 => I(f) = code[6]
          /\ fr.pc = 6 => I(f) = code[7]
          /\ fr.pc = 7 => I(f) = code[8]
      BY DEF I, code
    <3>2. /\ fr.pc = 5 => OpcodeOf(I(f)) = "ENUMERATE" /\ D(f) = V(2)
          /\ fr.pc = 6 => OpcodeOf(I(f)) = "RANDOM" /\ D(f) = V(3)
          /\ fr.pc = 7 => OpcodeOf(I(f)) = "AT" /\ D(f) = A(0)
      BY <3>1 DEF Draws, D, code
    <3>3. \/ Query(f) /\ fr.pc = 5
          \/ Random(f) /\ fr.pc = 6
          \/ At(f) /\ fr.pc = 7
      <4>1. frames[f].pc # Len(frames[f].program)
        BY <2>1 DEF code
      <4>2. CASE fr.pc = 5
        <5>1. OpcodeOf(I(f)) = "ENUMERATE"
          BY <3>2, <4>2
        <5>2. Query(f)
          BY <4>1, <5>1, StepIs
        <5> QED
          BY <4>2, <5>2
      <4>3. CASE fr.pc = 6
        <5>1. OpcodeOf(I(f)) = "RANDOM"
          BY <3>2, <4>3
        <5>2. Random(f)
          BY <4>1, <5>1, StepIs
        <5> QED
          BY <4>3, <5>2
      <4>4. CASE fr.pc = 7
        BY <3>2, <4>1, <4>4, StepIs
      <4> QED
        BY <2>8, <4>2, <4>3, <4>4
    <3>4. /\ D(f) = V(2) \/ D(f) = V(3) => IsValueRegister(D(f))
          /\ fr.pc = 7 => IsAddressRegister(D(f))
      <4>1. fr.pc = 7 => IsAddressRegister(D(f))
        BY <2>2, <3>2 DEF Fetches, Poised, ValidInstruction, ValidForm, D
      <4> QED
        BY <4>1, DrawRegisters
    <3>5. moves' = moves
      BY <3>3 DEF Query, Random, At, shared
    <3>6. Stays(fr, fr2) \/ \E w : Puts(fr, fr2, D(f), w)
      <4>1. Fetches(f)
        BY <2>2, <2>8, <3>2
      <4>2. CASE Query(f) /\ fr.pc = 5
        BY <3>2, <3>4, <4>1, <4>2, QueryPuts
      <4>3. CASE Random(f) \/ At(f)
        BY <2>8, <3>2, <3>4, <4>1, <4>3, OthersPut DEF Random, At, On
      <4> QED
        BY <3>3, <4>2, <4>3
    <3>7. ASSUME NEW w, Puts(fr, fr2, D(f), w) PROVE Drawing(fr2, n, moves'[f])
      <4>1. fr2.pc \in 6 .. 8 /\ fr2.value[0] = fr.value[0]
        BY <1>5, <2>8, <3>2, <3>4, <3>7, DrawRegisters DEF Puts, PutsIn
      <4>2. m + Left(fr) <= n /\ IsImmediate(fr.value[0]) /\ Left(fr) >= 1
        BY <2>8 DEF Drawing, m
      <4>3. Left(fr2) = Left(fr)
        BY <4>1 DEF Left
      <4> QED
        BY <1>2, <1>7, <3>5, <4>1, <4>2, <4>3 DEF Drawing, m
    <3> QED
      BY <1>8, <3>5, <3>6, <3>7
  <2>9. CASE fr.pc = 8
    <3>1. I(f) = code[9]
      BY <2>9 DEF I, code
    <3>2. OpcodeOf(I(f)) = "MOVE" /\ T(f) = None
      BY <3>1 DEF Draws, T, code
    <3>3. Move(f)
      BY <2>1, <3>2, StepIs DEF code
    <3>4. PICK done \in {0, 1} :
            /\ moves' = [moves EXCEPT ![f] = @ + done]
            /\ fr2.value = fr.value
            /\ fr2.control[ResultCount] = Imm(done)
            /\ fr2.pc = fr.pc + 1 \/ (fr2.pc = fr.pc /\ done = 0)
      BY <2>2, <3>2, <3>3, MoveDraws
    <3>5. moves'[f] = m + done
      BY <3>4 DEF m
    <3>6. IsImmediate(Imm(done)) /\ ImmediateValue(Imm(done)) = done
      <4>1. done \in ImmediateMin .. ImmediateMax
        BY <1>1
      <4> QED
        BY <4>1, ImmediateBack
    <3>7. m + Left(fr) <= n /\ IsImmediate(fr.value[0]) /\ Left(fr) >= 1
      BY <2>9 DEF Drawing, m
    <3>8. Left(fr2) = Left(fr)
      BY <3>4 DEF Left
    <3>9. m + done \in 0 .. n
      BY <1>2, <1>7, <3>7
    <3>10. CASE fr2.pc = 9
      BY <1>2, <1>7, <3>4, <3>5, <3>6, <3>7, <3>8, <3>9, <3>10 DEF Drawing
    <3>11. CASE fr2.pc = 8 /\ done = 0
      BY <1>2, <1>7, <3>4, <3>5, <3>7, <3>8, <3>9, <3>11 DEF Drawing
    <3> QED
      BY <2>9, <3>4, <3>10, <3>11
  <2>10. CASE fr.pc = 9
    <3>1. I(f) = code[10]
      BY <2>10 DEF I, code
    <3>2. OpcodeOf(I(f)) = "LOAD" /\ D(f) = V(1) /\ S(f) = Control(ResultCount)
      BY <3>1 DEF Draws, D, S, code
    <3>3. Load(f)
      BY <2>1, <3>2, StepIs DEF code
    <3>4. IsValueRegister(D(f))
      BY <3>2, DrawRegisters
    <3>5. moves' = moves
      BY <3>3 DEF Load, shared
    <3>6. Stays(fr, fr2) \/ Puts(fr, fr2, D(f), fr.control[ResultCount])
      BY <2>2, <3>2, <3>3, <3>4, OthersPut
    <3>7. CASE Puts(fr, fr2, D(f), fr.control[ResultCount])
      <4>1. fr2.pc = 10 /\ fr2.value[0] = fr.value[0] /\ fr2.value[1] = fr.control[ResultCount]
        BY <1>5, <2>10, <3>2, <3>4, <3>7, DrawRegisters DEF Puts, PutsIn
      <4>2. /\ IsImmediate(fr.value[0]) /\ IsImmediate(fr.control[ResultCount])
            /\ m + Left(fr) - ImmediateValue(fr.control[ResultCount]) <= n
        BY <2>10 DEF Drawing, m
      <4>3. Left(fr2) = Left(fr)
        BY <4>1 DEF Left
      <4> QED
        BY <1>2, <1>7, <3>5, <4>1, <4>2, <4>3 DEF Drawing, m
    <3> QED
      BY <1>8, <3>5, <3>6, <3>7
  <2>11. CASE fr.pc = 10
    <3>1. I(f) = code[11]
      BY <2>11 DEF I, code
    <3>2. OpcodeOf(I(f)) = "COMPARE"
      BY <3>1 DEF Draws, code
    <3>3. Compare(f)
      BY <2>1, <3>2, StepIs DEF code
    <3>4. IsFlagRegister(D(f))
      BY <2>2, <3>2 DEF Fetches, Poised, ValidInstruction, ValidForm, D
    <3>5. moves' = moves
      BY <3>3 DEF Compare, shared
    <3>6. Stays(fr, fr2) \/ \E w : Puts(fr, fr2, D(f), w)
      BY <2>2, <3>2, <3>3, <3>4, ComparePuts
    <3>7. ASSUME NEW w, Puts(fr, fr2, D(f), w) PROVE Drawing(fr2, n, moves'[f])
      <4>1. fr2.pc = 11 /\ fr2.value = fr.value
        BY <2>11, <3>4, <3>7 DEF Puts, PutsIn
      <4>2. /\ IsImmediate(fr.value[0]) /\ IsImmediate(fr.value[1])
            /\ m + Left(fr) - ImmediateValue(fr.value[1]) <= n
        BY <2>11 DEF Drawing, m
      <4>3. Left(fr2) = Left(fr)
        BY <4>1 DEF Left
      <4> QED
        BY <1>2, <1>7, <3>5, <4>1, <4>2, <4>3 DEF Drawing, m
    <3> QED
      BY <1>8, <3>5, <3>6, <3>7
  <2>12. CASE fr.pc = 11
    <3>1. I(f) = code[12]
      BY <2>12 DEF I, code
    <3>2. OpcodeOf(I(f)) = "JUMPIF" /\ ImmediateValue(T(f)) = 14
      BY <3>1 DEF Draws, T, code
    <3>3. Branch(f)
      BY <2>1, <3>2, StepIs DEF code
    <3>4. moves' = moves
      BY <3>3 DEF Branch, shared
    <3>5. PICK pc : \/ Stays(fr, fr2)
                    \/ Stays([fr EXCEPT !.pc = pc], fr2) /\ (pc = 14 \/ pc = 12)
      <4>1. Fetches(f)
        BY <2>2, <3>2
      <4>2. \/ Stays(fr, fr2)
            \/ \E pc : /\ Stays([fr EXCEPT !.pc = pc], fr2)
                       /\ pc = ImmediateValue(T(f)) \/ pc = fr.pc + 1
        BY <3>2, <3>3, <4>1, BranchGoes
      <4>3. ASSUME NEW pc, pc = ImmediateValue(T(f)) \/ pc = fr.pc + 1
            PROVE  pc = 14 \/ pc = 12
        BY <2>12, <3>2, <4>3
      <4> QED
        BY <4>2, <4>3
    <3>6. CASE Stays([fr EXCEPT !.pc = pc], fr2) /\ (pc = 14 \/ pc = 12)
      <4>1. fr2.pc = pc /\ fr2.value = fr.value
        BY <1>3, <3>6 DEF Stays, BanksOK, FrameFields
      <4>2. /\ IsImmediate(fr.value[0]) /\ IsImmediate(fr.value[1])
            /\ m + Left(fr) - ImmediateValue(fr.value[1]) <= n
        BY <2>12 DEF Drawing, m
      <4>3. Left(fr2) = Left(fr)
        BY <4>1 DEF Left
      <4> QED
        BY <1>2, <1>7, <3>4, <3>6, <4>1, <4>2, <4>3 DEF Drawing, m
    <3> QED
      BY <1>8, <3>4, <3>5, <3>6
  <2>13. CASE fr.pc = 12
    <3>1. I(f) = code[13]
      BY <2>13 DEF I, code
    <3>2. /\ OpcodeOf(I(f)) = "ALU" /\ MethodOf(I(f)) = "SUBTRACT"
          /\ D(f) = V(0) /\ S(f) = V(0) /\ T(f) = V(1)
      BY <3>1 DEF Draws, D, S, T, code
    <3>3. Compute(f) /\ ~IsNone(T(f))
      <4>1. IsValueRegister(V(1))
        BY DrawRegisters
      <4> QED
        BY <2>1, <3>2, <4>1, StepIs
           DEF code, IsNone, IsValueRegister, IsBank, IsRegister, NoneTag, RegisterTag
    <3>4. \/ Stays(fr, fr2)
          \/ \E a, b, x \in Int :
              /\ IsImmediate(fr.value[0]) /\ a = ImmediateValue(fr.value[0])
              /\ T(f) = V(1) /\ ~IsNone(T(f)) => b = ImmediateValue(fr.value[1])
              /\ x = Arithmetic(MethodOf(I(f)), a, b) /\ x \in ImmediateMin .. ImmediateMax
              /\ Puts(fr, fr2, D(f), Imm(x))
      BY <2>2, <3>2, <3>3, ComputePuts
    <3>5. moves' = moves
      BY <3>3 DEF Compute, shared
    <3>6. ASSUME NEW a \in Int, NEW b \in Int, NEW x \in Int,
                 a = ImmediateValue(fr.value[0]), b = ImmediateValue(fr.value[1]),
                 x = Arithmetic(MethodOf(I(f)), a, b),
                 x \in ImmediateMin .. ImmediateMax, Puts(fr, fr2, D(f), Imm(x))
          PROVE  Drawing(fr2, n, moves'[f])
      <4>1. fr2.pc = 13 /\ fr2.value[0] = Imm(x)
        BY <1>5, <2>13, <3>2, <3>6, DrawRegisters DEF Puts, PutsIn
      <4>2. IsImmediate(fr2.value[0]) /\ Left(fr2) = x
        BY <3>6, <4>1, ImmediateBack DEF Left
      <4>3. x = a - b
        BY <3>2, <3>6 DEF Arithmetic
      <4>4. m + a - b <= n
        BY <2>13, <3>6 DEF Drawing, m, Left
      <4>5. m + x <= n
        BY <1>2, <4>3, <4>4
      <4> QED
        BY <1>2, <3>5, <4>1, <4>2, <4>5 DEF Drawing, m
    <3> QED
      BY <1>8, <3>2, <3>3, <3>4, <3>5, <3>6
  <2>14. CASE fr.pc = 13
    <3>1. I(f) = code[14]
      BY <2>14 DEF I, code
    <3>2. OpcodeOf(I(f)) = "JUMP" /\ ImmediateValue(S(f)) = 1
      BY <3>1 DEF Draws, S, code
    <3>3. Branch(f)
      BY <2>1, <3>2, StepIs DEF code
    <3>4. moves' = moves
      BY <3>3 DEF Branch, shared
    <3>5. PICK pc : Stays(fr, fr2) \/ (Stays([fr EXCEPT !.pc = pc], fr2) /\ pc = 1)
      BY <2>2, <3>2, <3>3, BranchGoes
    <3>6. CASE Stays([fr EXCEPT !.pc = pc], fr2) /\ pc = 1
      <4>1. fr2.pc = 1 /\ fr2.value = fr.value
        BY <1>3, <3>6 DEF Stays, BanksOK, FrameFields
      <4>2. m + Left(fr) <= n /\ IsImmediate(fr.value[0])
        BY <2>14 DEF Drawing, m
      <4>3. Left(fr2) = Left(fr)
        BY <4>1 DEF Left
      <4> QED
        BY <1>2, <1>7, <3>4, <4>1, <4>2, <4>3 DEF Drawing, m
    <3> QED
      BY <1>8, <3>4, <3>5, <3>6
  <2>15. \/ fr.pc = 0 \/ fr.pc = 1 \/ fr.pc = 2 \/ fr.pc = 3 \/ fr.pc = 4 \/ fr.pc \in {5, 6, 7}
         \/ fr.pc = 8 \/ fr.pc = 9 \/ fr.pc = 10 \/ fr.pc = 11 \/ fr.pc = 12 \/ fr.pc = 13
    BY <1>10
  <2> QED
    BY <2>3, <2>4, <2>5, <2>6, <2>7, <2>8, <2>9, <2>10, <2>11, <2>12, <2>13, <2>14, <2>15
<1> QED
  BY <1>4, <1>9, <1>10
-----------------------------------------------------------------------------
(* Plans of such queries: a program for each.                              *)

\* Parts of at most one element each that make as many elements as they are: each has one.
LEMMA FlattenSingles ==
  ASSUME NEW E, NEW s \in Seq(Seq(E)), \A n \in 1 .. Len(s) : Len(s[n]) <= 1,
         Len(FlattenSeq(s)) = Len(s)
  PROVE  \A n \in 1 .. Len(s) : Len(s[n]) = 1 /\ FlattenSeq(s)[n] = s[n][1]
<1>1. Len(s) \in Nat /\ \A n \in 1 .. Len(s) : s[n] \in Seq(E) /\ Len(s[n]) \in Nat
  BY LenProperties, ElementOfSeq
<1>2. CASE Len(s) = 0
  BY <1>2
<1>3. CASE Len(s) # 0
  <2>1. s \in Seq(ToSet(s)) /\ s # <<>>
    BY <1>3, OwnElements
  <2>2. PICK g : /\ g[1] = s[1] /\ \A i \in 2 .. Len(s) : g[i] = g[i - 1] \o s[i]
                 /\ FlattenSeq(s) = g[Len(s)]
    BY <2>1, FlattenGoes
  <2> DEFINE Fit(n) == /\ g[n] \in Seq(E) /\ Len(g[n]) <= n
                       /\ Len(g[n]) = n => \A i \in 1 .. n : Len(s[i]) = 1 /\ g[n][i] = s[i][1]
             P == {n \in 0 .. Len(s) : n = 0 \/ Fit(n)}
  <2>3. 0 \in P
    BY <1>1
  <2>4. ASSUME NEW n \in 1 .. Len(s), n - 1 \in P PROVE n \in P
    <3>1. CASE n = 1
      <4>1. g[n] = s[n] /\ s[n] \in Seq(E) /\ Len(s[n]) <= 1
        BY <1>1, <2>2, <3>1
      <4>2. \A i \in 1 .. n : i = n
        BY <3>1
      <4>3. Fit(n)
        BY <3>1, <4>1, <4>2
      <4> QED
        BY <1>1, <4>3
    <3>2. CASE n # 1
      <4>0. n - 1 # 0 /\ n \in 2 .. Len(s)
        BY <1>1, <3>2
      <4>1. n - 1 # 0 /\ n \in 2 .. Len(s) /\ Fit(n - 1)
        <5> HIDE DEF Fit
        <5> QED
          BY <2>4, <4>0
      <4>2. PICK a \in Seq(E) : a = g[n - 1]
        BY <4>1
      <4>3. PICK b \in Seq(E) : b = s[n] /\ Len(b) <= 1
        BY <1>1
      <4>4. PICK c : c = a \o b
        OBVIOUS
      <4>5. /\ c \in Seq(E) /\ Len(c) = Len(a) + Len(b)
            /\ \A i \in 1 .. Len(a) + Len(b) : c[i] = IF i <= Len(a) THEN a[i] ELSE b[i - Len(a)]
        BY <4>4, ConcatProperties
      <4>6. g[n] = c
        BY <2>2, <4>1, <4>2, <4>3, <4>4
      <4>7. Len(a) \in Nat /\ Len(b) \in Nat /\ Len(a) <= n - 1
        BY <4>1, <4>2, LenProperties
      <4>8. Len(c) <= n
        BY <1>1, <4>3, <4>5, <4>7
      <4>9. ASSUME Len(c) = n, NEW i \in 1 .. n PROVE Len(s[i]) = 1 /\ c[i] = s[i][1]
        <5>1. Len(a) = n - 1 /\ Len(b) = 1
          <6>1. PICK la \in Nat : la = Len(a)
            BY <4>7
          <6>2. PICK lb \in Nat : lb = Len(b)
            BY <4>7
          <6>3. la + lb = n
            BY <4>5, <4>9, <6>1, <6>2
          <6>4. la <= n - 1 /\ lb <= 1
            BY <4>3, <4>7, <6>1, <6>2
          <6>5. n \in Int
            OBVIOUS
          <6>6. la = n - 1 /\ lb = 1
            BY <6>3, <6>4, <6>5
          <6> QED
            BY <6>1, <6>2, <6>6
        <5>2. CASE i = n
          <6>1. c[n] = b[1]
            BY <1>1, <4>5, <5>1
          <6> QED
            BY <4>3, <5>1, <5>2, <6>1
        <5>3. CASE i # n
          <6>1. i \in 1 .. n - 1 /\ c[i] = a[i]
            BY <1>1, <4>5, <5>1, <5>3
          <6>2. Len(s[i]) = 1 /\ g[n - 1][i] = s[i][1]
            BY <4>1, <4>2, <5>1, <6>1
          <6> QED
            BY <4>2, <6>1, <6>2
        <5> QED
          BY <5>2, <5>3
      <4>10. Fit(n)
        BY <4>5, <4>6, <4>8, <4>9
      <4> HIDE DEF Fit
      <4> QED
        BY <1>1, <4>10
    <3> QED
      BY <3>1, <3>2
  <2>5. 0 .. Len(s) \subseteq P
    <3> HIDE DEF P
    <3> QED
      BY <1>1, <2>3, <2>4, Induction
  <2>6. Fit(Len(s))
    BY <1>1, <1>3, <2>5
  <2> QED
    BY <2>2, <2>6
<1> QED
  BY <1>2, <1>3

\* A recipe that lowers a query makes one program at most.
LEMMA LowersOne ==
  ASSUME NEW recipe, recipe.how = "lower"
  PROVE  LET b == Finish(FoldLeft(Lower, NewBuilder, recipe.calls))
         IN  \/ Built(recipe).programs = <<>>
             \/ b.ok /\ Built(recipe).programs = <<[name |-> <<>>, trace |-> b.code]>>
<1> DEFINE b == Finish(FoldLeft(Lower, NewBuilder, recipe.calls))
           p == [name |-> <<>>, trace |-> b.code]
<1>1. Built(recipe) = Finally(b)
  BY DEF Built
<1> HIDE DEF b
<1>2. Finally(b).programs \in {<<>>, <<p>>} /\ (~b.ok => Finally(b).programs = <<>>)
  BY DEF Finally, All
<1> HIDE DEF p
<1>3. Built(recipe).programs = <<>> \/ (b.ok /\ Built(recipe).programs = <<p>>)
  BY <1>1, <1>2
<1> QED
  BY <1>3 DEF b, p

\* A query of one random move of an immediate count.
MovesAtRandom(recipe, n) ==
  /\ recipe.how = "lower" /\ n \in 0 .. ImmediateMax
  /\ \E call : recipe.calls = <<call>> /\ call.name = "RandomMove" /\ call.count = Imm(n)

\* Its program draws that many cards.
LEMMA RecipeDraws ==
  ASSUME NEW recipe, NEW n, MovesAtRandom(recipe, n), NEW p, Built(recipe).programs = <<p>>
  PROVE  Draws(p.trace, n) /\ RegisterCount >= 4
<1>1. PICK call : recipe.calls = <<call>> /\ call.name = "RandomMove" /\ call.count = Imm(n)
  BY DEF MovesAtRandom
<1>2. PICK done : done = Finish(Lower(NewBuilder, call))
  OBVIOUS
<1>3. Finish(FoldLeft(Lower, NewBuilder, recipe.calls)) = done
  BY <1>1, <1>2, FoldOne
<1>4. \/ Built(recipe).programs = <<>>
      \/ done.ok /\ Built(recipe).programs = <<[name |-> <<>>, trace |-> done.code]>>
  BY <1>3, LowersOne DEF MovesAtRandom
<1>5. done.ok /\ p.trace = done.code
  <2>1. <<p>> # <<>>
    OBVIOUS
  <2>2. PICK q : q = [name |-> <<>>, trace |-> done.code]
    OBVIOUS
  <2>3. done.ok /\ <<p>> = <<q>>
    BY <1>4, <2>1, <2>2
  <2>4. p = q
    BY <2>3
  <2> QED
    BY <2>2, <2>3, <2>4
<1> QED
  BY <1>1, <1>2, <1>5, RandomMoveDraws

\* What an instruction adds to the cards that its frame has moved.
Moving(f) == moves' = moves \/ \E done \in Nat : moves' = [moves EXCEPT ![f] = @ + done]

\* Only a MOVE adds anything.
LEMMA StepMoving ==
  ASSUME IInv, WInv, NEW f \in DOMAIN frames, Step(f)
  PROVE  Moving(f)
<1>1. CASE Move(f)
  <2>1. On(f, {"MOVE"})
    BY <1>1 DEF Move
  <2>2. Fetches(f)
    BY <2>1, FetchesWords DEF IInv
  <2>3. PICK to, valid : \E wanted \in Seq(Word) : MoveAll(f, to, wanted, valid)
    BY <1>1, <2>2, MoveWants
  <2>4. PICK wanted \in Seq(Word) : MoveAll(f, to, wanted, valid)
    BY <2>3
  <2>5. \E done \in 0 .. Len(wanted) : moves' = [moves EXCEPT ![f] = @ + done]
    BY <2>4, Zenon DEF MoveAll
  <2>6. PICK done \in 0 .. Len(wanted) : moves' = [moves EXCEPT ![f] = @ + done]
    BY <2>5
  <2>7. done \in Nat
    BY LenProperties
  <2> QED
    BY <2>6, <2>7 DEF Moving
<1>2. CASE moves' = moves
  BY <1>2 DEF Moving
<1>3. moves' = moves \/ Move(f)
  BY DEF Step, Nop, Finished, Set, Select, Load, Store, Swap, Attribute, Compute, Compare,
         Branch, Query, At, AppendTo, Length, Ask, Resume, Random, Recall, Register, Cancel, Announce,
         shared
<1> QED
  BY <1>1, <1>2, <1>3

-----------------------------------------------------------------------------
(* The frames that the host started, at the head of all.                   *)

Counted == moves \in Seq(Int) /\ Len(moves) = Len(frames)
Started ==
  frames # <<>> =>
    /\ Len(result.programs) <= Len(frames)
    /\ \A k \in 1 .. Len(result.programs) : frames[k].program = result.programs[k].trace
DrawsOn(k) ==
  \A n \in 0 .. ImmediateMax :
    RegisterCount >= 4 /\ Draws(frames[k].program, n) => Drawing(frames[k], n, moves[k])
Waited == frames = <<>> => ready = <<>>
\* Each runs the program it was started with, and if that is a random move it is on its way.
LInv ==
  /\ Counted /\ Started /\ Waited
  /\ \A k \in DOMAIN frames : k <= Len(result.programs) => DrawsOn(k)

\* As many counters as frames.
LEMMA FramesCounted ==
  ASSUME IInv, Counted
  PROVE  Len(frames) \in Nat /\ DOMAIN frames = 1 .. Len(frames) /\ DOMAIN moves = DOMAIN frames
BY LenProperties DEF IInv, FramesOK, Counted

\* What one frame does to itself keeps that of the others.
LEMMA OneMoves ==
  ASSUME IInv, LInv, result' = result, NEW f \in DOMAIN frames, Moves(f), Moving(f),
         f <= Len(result.programs) => DrawsOn(f)'
  PROVE  LInv'
<1>1. Len(frames) \in Nat /\ DOMAIN frames = 1 .. Len(frames) /\ DOMAIN moves = DOMAIN frames
  BY FramesCounted DEF LInv
<1>2. PICK fr : fr.program = frames[f].program /\ frames' = [frames EXCEPT ![f] = fr]
  BY DEF Moves
<1>3. Len(frames') = Len(frames) /\ DOMAIN frames' = DOMAIN frames
      /\ \A k \in DOMAIN frames : frames'[k] = IF k = f THEN fr ELSE frames[k]
  <2>1. frames \in Seq(ToSet(frames) \cup {fr}) /\ f \in 1 .. Len(frames) /\ fr \in ToSet(frames) \cup {fr}
    BY <1>1, SeqMonotonic DEF IInv, FramesOK
  <2>2. Len([frames EXCEPT ![f] = fr]) = Len(frames)
    BY <2>1, ExceptSeq
  <2> QED
    BY <1>2, <2>2
<1>4. moves' \in Seq(Int) /\ Len(moves') = Len(moves) /\ \A k \in DOMAIN frames : k # f => moves'[k] = moves[k]
  <2>1. CASE moves' = moves
    BY <2>1 DEF LInv, Counted
  <2>2. CASE \E done \in Nat : moves' = [moves EXCEPT ![f] = @ + done]
    <3>1. PICK done \in Nat : moves' = [moves EXCEPT ![f] = @ + done]
      BY <2>2
    <3>2. f \in 1 .. Len(moves) /\ moves \in Seq(Int)
      BY <1>1 DEF LInv, Counted
    <3>3. moves[f] \in Int
      BY <3>2, ElementOfSeq
    <3>4. PICK m \in Int : m = moves[f] + done
      BY <3>3
    <3>5. moves' = [moves EXCEPT ![f] = m]
      BY <3>1, <3>4
    <3>6. moves' \in Seq(Int) /\ Len(moves') = Len(moves)
      BY <3>2, <3>5, ExceptSeq
    <3> QED
      BY <1>1, <3>5, <3>6
  <2> QED
    BY <2>1, <2>2 DEF Moving
<1>5. Counted'
  BY <1>3, <1>4 DEF LInv, Counted
<1>6. Started'
  <2>1. frames # <<>>
    OBVIOUS
  <2>2. Len(result.programs) <= Len(frames)
        /\ \A k \in 1 .. Len(result.programs) : frames[k].program = result.programs[k].trace
    BY <2>1 DEF LInv, Started
  <2>3. ASSUME NEW k \in 1 .. Len(result.programs) PROVE frames'[k].program = result.programs[k].trace
    <3>1. k \in DOMAIN frames /\ frames[k].program = result.programs[k].trace
      BY <1>1, <2>2
    <3> QED
      BY <1>2, <1>3, <3>1
  <2> QED
    BY <1>3, <2>2, <2>3 DEF Started
<1>7. ASSUME NEW k \in DOMAIN frames', k <= Len(result'.programs) PROVE DrawsOn(k)'
  <2>1. CASE k = f
    BY <1>7, <2>1
  <2>2. CASE k # f
    <3>1. frames'[k] = frames[k] /\ moves'[k] = moves[k] /\ DrawsOn(k)
      BY <1>3, <1>4, <1>7, <2>2 DEF LInv
    <3> QED
      BY <3>1 DEF DrawsOn, Drawing, Left
  <2> QED
    BY <2>1, <2>2
<1>8. Waited'
  <2>1. f \in DOMAIN frames'
    BY <1>3
  <2>2. frames' # <<>>
    BY <2>1
  <2> QED
    BY <2>2 DEF Waited
<1> QED
  BY <1>5, <1>6, <1>7, <1>8 DEF LInv

\* An instruction.
LEMMA RunLInv ==
  ASSUME IInv, WInv, LInv, NEW f \in DOMAIN frames, Run(f)
  PROVE  LInv'
<1>1. Step(f) /\ result' = result
  BY DEF Run, host
<1>2. Moves(f) /\ Moving(f)
  BY <1>1, StepMoves, StepMoving DEF IInv
<1>3. f \in DOMAIN moves
  BY FramesCounted DEF LInv
<1>4. frames'[f].program = frames[f].program
  BY <1>2 DEF Moves
<1>5. ASSUME f <= Len(result.programs) PROVE DrawsOn(f)'
  <2>1. DrawsOn(f)
    BY <1>5 DEF LInv
  <2>2. ASSUME NEW n \in 0 .. ImmediateMax, RegisterCount >= 4, Draws(frames'[f].program, n)
        PROVE  Drawing(frames'[f], n, moves'[f])
    <3>1. Draws(frames[f].program, n)
      BY <1>4, <2>2
    <3>2. Drawing(frames[f], n, moves[f])
      BY <2>1, <2>2, <3>1 DEF DrawsOn
    <3> QED
      BY <1>1, <1>3, <2>2, <3>1, <3>2, DrawingSteps
  <2> QED
    BY <2>2 DEF DrawsOn
<1> QED
  BY <1>1, <1>2, <1>5, OneMoves

\* An answer.
LEMMA AnswerLInv ==
  ASSUME IInv, LInv, NEW f \in DOMAIN frames, NEW index, Answer(f, index)
  PROVE  LInv'
<1>1. AnswerWith(f, index) /\ result' = result /\ moves' = moves
  BY DEF Answer, AnswerWith, host, shared
<1>2. Moves(f) /\ Moving(f)
  BY <1>1, AnswerMoves DEF IInv, Moving
<1>3. frames'[f] = [frames[f] EXCEPT !.answer = <<index>>]
  BY <1>1 DEF AnswerWith
<1>4. Sound(frames[f])
  BY DEF IInv, FramesOK, ToSet
<1>5. PICK fr : fr = frames'[f]
  OBVIOUS
<1>6. /\ fr.program = frames[f].program /\ fr.pc = frames[f].pc /\ fr.value = frames[f].value
      /\ fr.flag = frames[f].flag /\ fr.control = frames[f].control
  BY <1>3, <1>4, <1>5 DEF Sound, BanksOK, FrameFields
<1>7. ASSUME f <= Len(result.programs) PROVE DrawsOn(f)'
  <2>1. DrawsOn(f)
    BY <1>7 DEF LInv
  <2>2. ASSUME NEW n \in 0 .. ImmediateMax, RegisterCount >= 4, Draws(frames'[f].program, n)
        PROVE  Drawing(frames'[f], n, moves'[f])
    <3>1. Drawing(frames[f], n, moves[f])
      BY <1>5, <1>6, <2>1, <2>2 DEF DrawsOn
    <3>2. Drawing(fr, n, moves[f])
      BY <1>6, <3>1 DEF Drawing, Left
    <3> QED
      BY <1>1, <1>5, <3>2
  <2> QED
    BY <2>2 DEF DrawsOn
<1> QED
  BY <1>1, <1>2, <1>7, OneMoves

\* Frames that start.
LEMMA LaunchLInv ==
  ASSUME HInv, NEW route \in Routes, Launch(route)
  PROVE  LInv'
<1> DEFINE carried(k) == NewFrame(Carried(route, result.programs[k].trace))
<1>1. /\ frames' = [k \in 1 .. Len(result.programs) |-> carried(k)]
      /\ moves' = [k \in DOMAIN result.programs |-> 0] /\ result' = result
  BY DEF Launch, host
<1>2. result.programs \in Seq(ToSet(result.programs))
  BY DEF HInv, Publishable
<1>3. PICK count \in Nat : count = Len(result.programs) /\ DOMAIN result.programs = 1 .. count
  BY <1>2, LenProperties
<1>4. ASSUME NEW k \in 1 .. count
      PROVE  carried(k).program = result.programs[k].trace /\ carried(k).pc = 0
  <2>1. ValidTrace(result.programs[k].trace)
    BY <1>3 DEF HInv, Publishable, ToSet
  <2>2. Carried(route, result.programs[k].trace) = result.programs[k].trace
    BY <2>1, CarriedIntact
  <2> QED
    BY <2>2 DEF NewFrame
<1> HIDE DEF carried
<1>5. Len(frames') = count /\ DOMAIN frames' = 1 .. count
  BY <1>1, <1>3
<1>6. moves' \in Seq(Int) /\ Len(moves') = count /\ \A k \in 1 .. count : moves'[k] = 0
  BY <1>1, <1>3, SeqDef
<1>7. ASSUME NEW k \in 1 .. count
      PROVE  frames'[k].program = result'.programs[k].trace /\ frames'[k].pc = 0
  BY <1>1, <1>3, <1>4
<1>8. Counted'
  BY <1>5, <1>6 DEF Counted
<1>9. Started'
  BY <1>1, <1>3, <1>5, <1>7 DEF Started
<1>10. ASSUME NEW k \in 1 .. count PROVE DrawsOn(k)'
  <2>1. frames'[k].pc = 0 /\ moves'[k] = 0
    BY <1>6, <1>7
  <2>2. \A n \in 0 .. ImmediateMax : 0 \in 0 .. n
    OBVIOUS
  <2>3. \A n \in 0 .. ImmediateMax : Drawing(frames'[k], n, moves'[k])
    BY <2>1, <2>2 DEF Drawing
  <2> QED
    BY <2>3 DEF DrawsOn
<1>11. Waited'
  <2>1. 1 \in DOMAIN frames'
    BY <1>3, <1>5 DEF Launch
  <2>2. frames' # <<>>
    BY <2>1
  <2> QED
    BY <2>2 DEF Waited
<1> QED
  BY <1>1, <1>3, <1>5, <1>8, <1>9, <1>10, <1>11 DEF LInv

\* Frames that were ready.
LEMMA TakeLInv ==
  ASSUME IInv, HInv, LInv, Take
  PROVE  LInv'
<1>1. /\ frames' = frames \o ready /\ moves' = moves \o [n \in DOMAIN ready |-> 0]
      /\ ready # <<>> /\ result' = result
  BY DEF Take, TakeReady, host
<1>2. Len(frames) \in Nat /\ DOMAIN frames = 1 .. Len(frames) /\ DOMAIN moves = DOMAIN frames
      /\ moves \in Seq(Int) /\ Len(moves) = Len(frames)
  BY FramesCounted DEF LInv, Counted
<1> DEFINE Elements == ToSet(frames) \cup ToSet(ready)
<1>3. frames \in Seq(Elements) /\ ready \in Seq(Elements)
  BY SeqMonotonic DEF IInv, FramesOK, ReadyOK
<1>4. PICK count \in Nat : count = Len(ready) /\ DOMAIN ready = 1 .. count
  BY <1>3, LenProperties
<1>5. PICK zeros : zeros = [n \in DOMAIN ready |-> 0]
  OBVIOUS
<1>6. zeros \in Seq(Int) /\ Len(zeros) = count
  BY <1>4, <1>5, SeqDef
<1>7. frames' \in Seq(Elements) /\ Len(frames') = Len(frames) + count
      /\ \A k \in 1 .. Len(frames) : frames'[k] = frames[k]
  BY <1>1, <1>2, <1>3, <1>4, ConcatProperties
<1>8. moves' \in Seq(Int) /\ Len(moves') = Len(frames) + count
      /\ \A k \in 1 .. Len(frames) : moves'[k] = moves[k]
  <2>1. moves' = moves \o zeros
    BY <1>1, <1>5
  <2>2. /\ moves \o zeros \in Seq(Int) /\ Len(moves \o zeros) = Len(moves) + Len(zeros)
        /\ \A k \in 1 .. Len(moves) + Len(zeros) :
             (moves \o zeros)[k] = IF k <= Len(moves) THEN moves[k] ELSE zeros[k - Len(moves)]
    BY <1>2, <1>6, ConcatProperties
  <2>3. \A k \in 1 .. Len(frames) : k \in 1 .. Len(moves) + Len(zeros) /\ k <= Len(moves)
    BY <1>2, <1>6
  <2> QED
    BY <1>2, <1>6, <2>1, <2>2, <2>3
<1>9. Counted'
  BY <1>7, <1>8 DEF Counted
<1>10. frames # <<>>
  BY <1>1 DEF LInv, Waited
<1>11. Len(result.programs) <= Len(frames)
       /\ \A k \in 1 .. Len(result.programs) : frames[k].program = result.programs[k].trace
  BY <1>10 DEF LInv, Started
<1>12. Len(result.programs) \in Nat
  BY LenProperties DEF HInv, Publishable
<1>13. Started'
  <2>1. \A k \in 1 .. Len(result.programs) : k \in 1 .. Len(frames)
    BY <1>2, <1>11, <1>12
  <2> QED
    BY <1>1, <1>2, <1>4, <1>7, <1>11, <1>12, <2>1 DEF Started
<1>14. ASSUME NEW k \in DOMAIN frames', k <= Len(result'.programs) PROVE DrawsOn(k)'
  <2>1. k \in Nat \ {0}
    BY <1>2, <1>4, <1>7, LenProperties
  <2>2. k \in 1 .. Len(frames)
    BY <1>1, <1>2, <1>11, <1>12, <1>14, <2>1
  <2>3. DrawsOn(k) /\ frames'[k] = frames[k] /\ moves'[k] = moves[k]
    BY <1>1, <1>2, <1>7, <1>8, <1>14, <2>2 DEF LInv
  <2> QED
    BY <2>3 DEF DrawsOn, Drawing, Left
<1>15. Waited'
  BY <1>1 DEF Take, TakeReady, Waited
<1> QED
  BY <1>9, <1>13, <1>14, <1>15 DEF LInv

\* At first nothing runs.
LEMMA InitLInv == Init => LInv
<1> SUFFICES ASSUME Init PROVE LInv
  OBVIOUS
<1>1. frames = <<>> /\ moves = <<>> /\ ready = <<>>
  BY DEF Init
<1>2. <<>> \in Seq(Int) /\ Len(<<>>) = 0 /\ DOMAIN <<>> = {}
  OBVIOUS
<1> QED
  BY <1>1, <1>2 DEF LInv, Counted, Started, Waited

\* The frames, their counters and the programs are all that it is about.
LEMMA UnchangedLInv ==
  ASSUME LInv, frames' = frames, moves' = moves, result' = result, frames = <<>> => ready' = ready
  PROVE  LInv'
BY DEF LInv, Counted, Started, Waited, DrawsOn

\* A step keeps it.
LEMMA NextLInv ==
  ASSUME IInv, HInv, WInv, LInv, [Next]_vars
  PROVE  LInv'
<1>1. CASE UNCHANGED vars
  BY <1>1, UnchangedLInv DEF vars, host, machine, shared
<1>2. CASE \/ \E p \in Plans : Build(p)
           \/ \E alphabet \in Alphabets : \E line \in alphabet : Type(line)
  <2>1. frames = <<>> /\ frames' = <<>> /\ moves' = moves /\ ready' = ready
    BY <1>2 DEF HInv, Build, Type, machine, shared
  <2>2. DOMAIN <<>> = {}
    OBVIOUS
  <2> QED
    BY <2>1, <2>2 DEF LInv, Counted, Started, Waited
<1>3. CASE \E route \in Routes : Launch(route)
  BY <1>3, LaunchLInv
<1>4. CASE \E f \in DOMAIN frames : Run(f)
  BY <1>4, RunLInv
<1>5. CASE \E f \in DOMAIN frames : \E index \in 0 .. Offered(f) - 1 : Answer(f, index)
  BY <1>5, AnswerLInv
<1>6. CASE PostNext
  BY <1>6, UnchangedLInv DEF PostNext, Post
<1>7. CASE Take
  BY <1>7, TakeLInv
<1> QED
  BY <1>1, <1>2, <1>3, <1>4, <1>5, <1>6, <1>7 DEF Next
-----------------------------------------------------------------------------
(* The programs are those of the plan.                                     *)

\* Those of each recipe in turn.
Parts == [k \in DOMAIN plan[1].recipes |-> Built(plan[1].recipes[k]).programs]
BuiltAs == plan # <<>> => result.programs = FlattenSeq(Parts)

\* Building makes them, and nothing else changes them.
LEMMA NextBuiltAs ==
  ASSUME BuiltAs, [Next]_vars
  PROVE  BuiltAs'
<1>1. CASE plan' = plan /\ result' = result
  BY <1>1 DEF BuiltAs, Parts
<1>2. CASE \E p \in Plans : Build(p)
  <2>1. PICK p \in Plans : Build(p)
    BY <1>2
  <2> DEFINE built == [k \in DOMAIN p.recipes |-> Built(p.recipes[k])]
             programs == [k \in DOMAIN built |-> built[k].programs]
  <2>2. result' = [programs |-> FlattenSeq(programs),
                   errors |-> FlattenSeq([k \in DOMAIN built |-> built[k].errors])]
    BY <2>1, Zenon DEF Build
  <2>3. programs = [k \in DOMAIN p.recipes |-> Built(p.recipes[k]).programs]
    OBVIOUS
  <2> HIDE DEF built
  <2>4. result'.programs = FlattenSeq(programs)
    BY <2>2
  <2> HIDE DEF programs
  <2>5. plan' = <<p>> /\ plan'[1] = p
    BY <2>1 DEF Build
  <2>6. programs = Parts'
    BY <2>3, <2>5 DEF Parts
  <2> QED
    BY <2>4, <2>6 DEF BuiltAs
<1>3. CASE \E alphabet \in Alphabets : \E line \in alphabet : Type(line)
  BY <1>3 DEF Type, BuiltAs
<1> QED
  BY <1>1, <1>2, <1>3 DEF Next, Launch, Run, Answer, PostNext, Take, vars, host

\* A recipe without a random move, nor one in a handler of its own.
Quiet(recipe) ==
  \A call \in ToSet(recipe.calls) :
    /\ call.name # "RandomMove"
    /\ call.name = "OnceOnEvent" => \A inner \in ToSet(call.body) : inner.name # "RandomMove"

\* If each recipe of a plan is one program, that is the program that its frame was started with.
LEMMA OwnProgram ==
  ASSUME NEW p, p.recipes \in Seq(ToSet(p.recipes)), plan = <<p>>,
         \A recipe \in ToSet(p.recipes) : recipe.how = "lower",
         HInv, BuiltAs, Len(p.recipes) = Len(result.programs), NEW k \in 1 .. Len(p.recipes)
  PROVE  Built(p.recipes[k]).programs = <<result.programs[k]>>
<1>1. PICK count \in Nat : count = Len(p.recipes) /\ DOMAIN p.recipes = 1 .. count
  BY LenProperties
<1>2. PICK parts : parts = [j \in 1 .. count |-> Built(p.recipes[j]).programs]
  OBVIOUS
<1>3. result.programs = FlattenSeq(parts)
  <2>1. plan # <<>> /\ plan[1] = p
    OBVIOUS
  <2>2. Parts = parts
    BY <1>1, <1>2, <2>1 DEF Parts
  <2> QED
    BY <2>1, <2>2 DEF BuiltAs
<1> DEFINE Elements == {parts[j][1] : j \in 1 .. count}
<1>4. ASSUME NEW j \in 1 .. count
      PROVE  parts[j] = <<>> \/ \E x : parts[j] = <<x>>
  <2>1. PICK recipe : recipe = p.recipes[j]
    OBVIOUS
  <2>2. recipe.how = "lower"
    BY <1>1, <2>1 DEF ToSet
  <2>3. \/ Built(recipe).programs = <<>>
        \/ \E x : Built(recipe).programs = <<x>>
    BY <2>2, LowersOne
  <2> QED
    BY <1>2, <2>1, <2>3
<1>5. ASSUME NEW j \in 1 .. count
      PROVE  parts[j] \in Seq(Elements) /\ Len(parts[j]) <= 1
  <2>1. CASE parts[j] = <<>>
    BY <2>1
  <2>2. CASE \E x : parts[j] = <<x>>
    <3>1. PICK x : parts[j] = <<x>>
      BY <2>2
    <3>2. x \in Elements
      BY <3>1
    <3> HIDE DEF Elements
    <3> QED
      BY <3>1, <3>2
  <2> QED
    BY <1>4, <2>1, <2>2
<1> HIDE DEF Elements
<1>6. parts \in Seq(Seq(Elements)) /\ Len(parts) = count
  BY <1>2, <1>5, SeqDef
<1>7. Len(FlattenSeq(parts)) = Len(parts)
  BY <1>1, <1>3, <1>6
<1>8. \A j \in 1 .. Len(parts) : Len(parts[j]) <= 1
  BY <1>5, <1>6
<1>9. \A j \in 1 .. Len(parts) : Len(parts[j]) = 1 /\ FlattenSeq(parts)[j] = parts[j][1]
  BY <1>6, <1>7, <1>8, FlattenSingles
<1>10. Len(parts[k]) = 1 /\ parts[k][1] = result.programs[k]
  BY <1>1, <1>3, <1>6, <1>9
<1>11. parts[k] # <<>>
  <2>1. Len(<<>>) = 0
    OBVIOUS
  <2> QED
    BY <1>10, <2>1
<1>12. PICK x : parts[k] = <<x>>
  BY <1>1, <1>4, <1>11
<1>13. x = result.programs[k]
  BY <1>10, <1>12
<1> QED
  BY <1>1, <1>2, <1>12, <1>13

\* Plans of lowered queries, each one random move of an immediate count or none at all, and
\* plans of any recipes without a random move.
Ruled(p) ==
  \/ \A recipe \in ToSet(p.recipes) : Quiet(recipe)
  \/ \A recipe \in ToSet(p.recipes) :
       /\ recipe.how = "lower"
       /\ Quiet(recipe) \/ \E n : MovesAtRandom(recipe, n)

\* A random move never moves more cards than it was asked to, whatever the other frames move
\* meanwhile and however often it is run again, as long as the host follows a plan that is
\* Ruled (RandomMove); a random move after other calls is left to the runs.
THEOREM RandomMovesKeepToTheirCount ==
  Spec => [](plan # <<>> /\ Ruled(plan[1]) => MovesWithinRequest)
<1>1. ASSUME IInv, HInv, Follows, LInv, BuiltAs, plan # <<>>, Ruled(plan[1]), NEW f \in DOMAIN frames,
             NEW call \in CallsOf(f), call.name = "RandomMove", Len(Recipes) = Len(result.programs)
      PROVE  moves[f] <= Number(frames[f], call.count)
  <2>1. PICK p \in Plans : plan = <<p>>
    BY <1>1 DEF Follows
  <2>2. Recipes = p.recipes /\ p.recipes \in Seq(ToSet(p.recipes))
    BY <2>1, ProgramsAssumption DEF Recipes
  <2>3. DOMAIN p.recipes = 1 .. Len(p.recipes) /\ Len(p.recipes) \in Nat
    BY <2>2, LenProperties
  <2>4. Ruled(p)
    BY <1>1, <2>1
  <2>5. \A recipe \in ToSet(p.recipes) : Quiet(recipe) \/ \E n : MovesAtRandom(recipe, n)
    BY <2>4 DEF Ruled
  <2>6. f \in Nat \ {0} /\ DOMAIN frames = 1 .. Len(frames)
    BY FramesCounted, <1>1 DEF LInv
  <2>7. f <= Len(p.recipes)
    <3> SUFFICES ASSUME ~(f <= Len(p.recipes)) PROVE FALSE
      OBVIOUS
    <3>1. call \in Handlers
      BY <1>1, <2>2 DEF CallsOf
    <3>2. PICK recipe \in ToSet(p.recipes) :
            \E c \in ToSet(recipe.calls) : c.name = "OnceOnEvent" /\ call \in ToSet(c.body)
      BY <2>2, <3>1 DEF Handlers
    <3>3. PICK c \in ToSet(recipe.calls) : c.name = "OnceOnEvent" /\ call \in ToSet(c.body)
      BY <3>2
    <3>4. ~Quiet(recipe)
      BY <1>1, <3>3 DEF Quiet
    <3>5. PICK n : MovesAtRandom(recipe, n)
      BY <2>5, <3>4
    <3>6. \A d \in ToSet(recipe.calls) : d.name = "RandomMove"
      BY <3>5 DEF MovesAtRandom, ToSet
    <3> QED
      BY <3>3, <3>6
  <2>8. f \in 1 .. Len(p.recipes)
    BY <2>3, <2>6, <2>7
  <2>9. PICK recipe \in ToSet(p.recipes) : recipe = p.recipes[f]
    BY <2>3, <2>8 DEF ToSet
  <2>10. call \in ToSet(recipe.calls)
    BY <1>1, <2>2, <2>7, <2>9 DEF CallsOf
  <2>11. ~Quiet(recipe)
    BY <1>1, <2>10 DEF Quiet
  <2>12. PICK n : MovesAtRandom(recipe, n)
    BY <2>5, <2>11
  <2>13. call.count = Imm(n) /\ n \in 0 .. ImmediateMax
    BY <2>10, <2>12 DEF MovesAtRandom, ToSet
  <2>14. \A other \in ToSet(p.recipes) : other.how = "lower"
    BY <2>4, <2>11 DEF Ruled
  <2>15. Built(recipe).programs = <<result.programs[f]>>
    BY <1>1, <2>1, <2>2, <2>8, <2>9, <2>14, OwnProgram
  <2>16. PICK program : program = result.programs[f]
    OBVIOUS
  <2>17. Draws(program.trace, n) /\ RegisterCount >= 4
    BY <2>12, <2>15, <2>16, RecipeDraws
  <2>18. frames # <<>>
    BY <1>1
  <2>19. frames[f].program = program.trace /\ f <= Len(result.programs)
    BY <1>1, <2>2, <2>7, <2>8, <2>16, <2>18 DEF LInv, Started
  <2>20. Drawing(frames[f], n, moves[f])
    BY <1>1, <2>13, <2>17, <2>19 DEF LInv, DrawsOn
  <2>21. PICK most \in Nat : most = ImmediateMax /\ ImmediateMin = -(most + 1)
    BY PayloadIsWide
  <2>22. n \in ImmediateMin .. ImmediateMax
    BY <2>13, <2>21
  <2>23. Number(frames[f], Imm(n)) = n
    BY <2>22, ReadsConstant
  <2>24. n \in Int /\ moves[f] \in 0 .. n
    BY <2>13, <2>20, <2>21 DEF Drawing
  <2> QED
    BY <2>13, <2>23, <2>24
<1>2. IInv /\ HInv /\ Follows /\ LInv /\ BuiltAs
        => (plan # <<>> /\ Ruled(plan[1]) => MovesWithinRequest)
  BY <1>1 DEF MovesWithinRequest
<1>3. Init => HInv /\ Follows /\ WInv /\ LInv /\ BuiltAs
  BY InitHInv, InitFollows, InitWInv, InitLInv DEF Init, BuiltAs
<1>4. IInv /\ HInv /\ [Next]_vars => HInv'
  BY NextHInv
<1>5. Follows /\ [Next]_vars => Follows'
  BY NextFollows
<1>6. IInv /\ HInv /\ Follows /\ WInv /\ [Next]_vars => WInv'
  BY NextWInv
<1>7. IInv /\ HInv /\ WInv /\ LInv /\ [Next]_vars => LInv'
  BY NextLInv
<1>8. BuiltAs /\ [Next]_vars => BuiltAs'
  BY NextBuiltAs
<1> QED
  BY Inductive, <1>2, <1>3, <1>4, <1>5, <1>6, <1>7, <1>8, PTL DEF Spec
=============================================================================

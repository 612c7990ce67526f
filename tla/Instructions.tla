---------------------------- MODULE Instructions ----------------------------
(***************************************************************************)
(* Instructions, their validation and their binary form.  An instruction   *)
(* is the four words <<operation, dst, src0, src1>>.  Enumerators have     *)
(* their assembly spelling here, in the order of Opcode.hpp, so a name     *)
(* stands for its position minus one.                                      *)
(***************************************************************************)
EXTENDS Words, Sequences, SequencesExt

Opcodes == <<
  "NOP", "SET", "LOAD", "STORE", "COPY", "SWAP", "SELECT", "COUNT", "MOVE", "SUMMON",
  "POSITION", "EQUIP", "COUNTER", "CONTROL", "NEGATE", "RESTRICT", "ALU", "COMPARE",
  "JUMP", "JUMPIF", "DAMAGE", "GAIN_LP", "PAY_LP", "RANDOM", "EVENT", "CHAIN", "HALT",
  "ENUMERATE", "AT", "APPEND", "LENGTH", "ATTRIBUTE", "CHOOSE", "SCHEDULE", "SUBSCRIBE",
  "CANCEL", "MODIFY", "HISTORY", "STAGE", "COMMIT", "UNMODIFY">>
\* A static assertion of Operation.hpp.
ASSUME OpcodesAssumption == Len(Opcodes) <= 2^OpBits

HistoryFields == <<"COUNT", "KIND", "SUBJECT", "OBJECT", "CONTEXT">>
ModifierOps == <<"ADD", "SET", "MULTIPLY", "DIVIDE">>
MoveMethods == <<
  "RELOCATE", "DRAW", "SEARCH", "MILL", "DISCARD", "TRIBUTE", "DESTROY", "SEND",
  "BANISH", "RETURN", "ATTACH_MATERIAL", "DETACH_MATERIAL">>
SummonMethods == <<"NORMAL", "TRIBUTE", "FLIP", "SPECIAL", "FUSION", "RITUAL", "TOKEN">>
SummonModes == <<
  "DEFAULT", "FACE_UP_ATTACK", "FACE_UP_DEFENSE", "FACE_DOWN_DEFENSE", "SET">>
AluOps == <<
  "ADD", "SUBTRACT", "MULTIPLY", "DIVIDE", "MODULO", "MINIMUM", "MAXIMUM", "NEGATE",
  "ABSOLUTE">>
CompareOps == <<"EQUAL", "NOT_EQUAL", "LESS", "LESS_EQUAL", "GREATER", "GREATER_EQUAL">>
PositionOps == <<
  "ATTACK", "DEFENSE", "FACE_UP", "FACE_DOWN", "FACE_UP_ATTACK", "FACE_UP_DEFENSE",
  "FACE_DOWN_DEFENSE", "TOGGLE">>
NegateOps == <<"ACTIVATION", "EFFECT", "SUMMON", "ATTACK">>
EquipOps == <<"ATTACH", "DETACH", "TRANSFER">>
CounterOps == <<"PLACE", "REMOVE", "TRANSFER", "SET">>
ControlOps == <<"TAKE", "GIVE", "SWAP", "RETURN">>
RestrictOps == <<"APPLY", "CLEAR", "INCREMENT", "DECREMENT">>
RandomKinds == <<"DIE", "COIN", "CHOICE", "RANDOM_CARD", "SHUFFLE_SWAP", "CUT_POINT">>
ChainOps == <<
  "BEGIN", "PUSH", "PASS", "BEGIN_RESOLVE", "RESOLVE_LINK", "POP", "END_RESOLVE", "END">>
JumpConditions == <<
  "ALWAYS", "ZERO", "NOT_ZERO", "TRUE", "FALSE", "EQUAL", "NOT_EQUAL", "LESS",
  "LESS_EQUAL", "GREATER", "GREATER_EQUAL">>
EventKinds == <<
  "NONE", "TURN_BEGIN", "TURN_END", "PHASE_BEGIN", "PHASE_END", "STEP_BEGIN",
  "STEP_END", "TRIGGER", "ACTIVATE", "RESOLVE_BEGIN", "RESOLVE_END",
  "ACTIVATION_NEGATED", "EFFECT_NEGATED", "DECLARE", "SELECT", "TARGET", "REVEAL",
  "INSPECT", "EXCAVATE", "DIE_ROLLED", "COIN_TOSSED", "SHUFFLE", "CUT", "WOULD_MOVE",
  "MOVED", "REPLACEMENT", "WOULD_SUMMON", "SUMMONED", "POSITION_CHANGED",
  "CONTROL_CHANGED", "EQUIPPED", "UNEQUIPPED", "COUNTER_CHANGED", "ATTACK_DECLARED",
  "ATTACK_TARGETED", "ATTACK_DIRECT", "ATTACK_CANCELED", "BATTLE_REPLAY", "BATTLE",
  "BATTLE_DAMAGE", "DECK_OUT", "WIN", "DRAW">>
\* Another one, for the longest enumeration of a subcode.
ASSUME EventsAssumption == Len(EventKinds) <= 2^SubBits
Causes == 8
FlagCost == 2^2

\* The enumeration that the subcode of an opcode belongs to.
Methods ==
  [HISTORY |-> HistoryFields, MODIFY |-> ModifierOps, MOVE |-> MoveMethods,
   SUMMON |-> SummonMethods, ALU |-> AluOps, COMPARE |-> CompareOps,
   POSITION |-> PositionOps, NEGATE |-> NegateOps, EQUIP |-> EquipOps,
   COUNTER |-> CounterOps, CONTROL |-> ControlOps, RESTRICT |-> RestrictOps,
   RANDOM |-> RandomKinds, CHAIN |-> ChainOps, JUMPIF |-> JumpConditions,
   EVENT |-> EventKinds]

Bad == -1
Name(names, value) == IF value < Len(names) THEN names[value + 1] ELSE "?"
Enum(names, name) == IF Contains(names, name)
                     THEN (CHOOSE n \in DOMAIN names : names[n] = name) - 1 ELSE Bad

(* Instructions and their builders. *)
Operation(i) == i[1]
Dst(i) == i[2]
Src0(i) == i[3]
Src1(i) == i[4]
OpcodeOf(i) == Name(Opcodes, CodeOf(Operation(i)))
Sub(i) == SubcodeOf(Operation(i))
MethodOf(i) == Name(Methods[OpcodeOf(i)], Sub(i))

MakeInstruction(op, sub, d, s, t) == <<Op(Enum(Opcodes, op), sub, 0, 0, 0), d, s, t>>
Plain(op, d, s, t) == MakeInstruction(op, 0, d, s, t)
Using(op, method, d, s, t) == MakeInstruction(op, Enum(Methods[op], method), d, s, t)
\* A target that no immediate holds becomes -1, which ValidTrace refuses.
JumpTarget(pc) == Imm(IF pc <= ImmediateMax THEN pc ELSE -1)
Jump(pc) == Plain("JUMP", None, JumpTarget(pc), None)
JumpIf(flag, pc, condition) == Using("JUMPIF", condition, None, flag, JumpTarget(pc))
Halt == Plain("HALT", None, None, None)

(* Operands. *)
IsNone(o) == TagOf(o) = NoneTag
IsBank(o, bank) == IsRegister(o) /\ BankOf(o) = bank
IsValueRegister(o) == IsBank(o, ValueBank)
IsAddressRegister(o) == IsBank(o, AddressBank)
IsFlagRegister(o) == IsBank(o, FlagBank)
IsAddressSource(o) == IsAddress(o) \/ IsAddressRegister(o)
IsValueSource(o) ==
  IsImmediate(o) \/ IsControl(o) \/ IsValueRegister(o) \/ IsFlagRegister(o) \/ IsAttribute(o)
IsWritable(o) == IsRegister(o) \/ IsControl(o) \/ IsAttribute(o)

-----------------------------------------------------------------------------
(* Validation. *)

ValidOperand(o) ==
  \/ o = None
  \/ ValidAddress(o)
  \/ IsRegister(o) /\ BankOf(o) \in {ValueBank, AddressBank, FlagBank}
  \/ IsImmediate(o)
  \/ IsControl(o) /\ ControlRegOf(o) < ControlCount

NoSubcode ==
  {"ENUMERATE", "AT", "APPEND", "LENGTH", "ATTRIBUTE", "CHOOSE", "STAGE", "SCHEDULE",
   "SUBSCRIBE", "CANCEL", "COMMIT", "UNMODIFY"}
ValidSubcode(op, sub) ==
  CASE op = "SUMMON" -> /\ SummonMethodOf(sub) < Len(SummonMethods)
                        /\ SummonModeOf(sub) < Len(SummonModes)
    [] op \in DOMAIN Methods \ {"SUMMON"} -> sub < Len(Methods[op])
    [] op \in NoSubcode -> sub = 0
    [] OTHER -> TRUE

MutRegisters(d) == IsRegister(d)
\* The destination of an instruction that hands out an id.
Registers(d) == IsValueRegister(d)

ValidForm(op, sub, d, s, t) ==
  CASE op \in {"NOP", "HALT"} -> IsNone(d) /\ IsNone(s) /\ IsNone(t)
    [] op \in {"SET", "COPY"} -> IsWritable(d) /\ ~IsNone(s)
    [] op = "LOAD" -> IsRegister(d) /\ ~IsNone(s)
    [] op = "STORE" -> (IsControl(d) \/ IsAttribute(d) \/ IsAddressRegister(d)) /\ ~IsNone(s)
    [] op = "SWAP" -> ~IsNone(d) /\ ~IsNone(s)
    [] op = "SELECT" -> IsAddressRegister(d) /\ IsAddressSource(s)
    [] op = "COUNT" -> IsValueRegister(d) /\ IsAddressSource(s)
    [] op = "MOVE" -> /\ \A o \in {d, s} : IsAddressRegister(o) \/ IsObject(o)
                      /\ IsNone(t) \/ IsValueSource(t)
    [] op = "SUMMON" -> /\ \/ IsAddressRegister(d)
                           \/ IsObject(d) /\ LevelOf(d) \in {SlotLevel, CardLevel}
                        /\ ~IsNone(s)
    [] op \in {"POSITION", "NEGATE"} -> IsAddressSource(d)
    [] op \in {"EQUIP", "CONTROL"} -> IsAddressSource(d) /\ IsAddressSource(s)
    [] op = "COUNTER" ->
         IF Name(CounterOps, sub) = "TRANSFER"
         THEN IsAddressSource(d) /\ IsAddressSource(s) /\ (IsNone(t) \/ IsValueSource(t))
         ELSE IsAddressSource(d) /\ IsValueSource(s) /\ IsNone(t)
    [] op = "RESTRICT" -> (IsAddressRegister(d) \/ IsAttribute(d)) /\ ~IsNone(s)
    [] op = "ALU" -> /\ IsValueRegister(d) /\ IsValueSource(s)
                     /\ IF Name(AluOps, sub) \in {"NEGATE", "ABSOLUTE"}
                        THEN IsNone(t) ELSE IsValueSource(t)
    [] op = "COMPARE" -> IsFlagRegister(d) /\ ~IsNone(s) /\ ~IsNone(t)
    [] op = "JUMP" -> IsNone(d) /\ IsImmediate(s) /\ IsNone(t)
    [] op = "JUMPIF" -> IsNone(d) /\ IsFlagRegister(s) /\ IsImmediate(t)
    [] op \in {"DAMAGE", "GAIN_LP", "PAY_LP"} -> IsAddressSource(d) /\ IsValueSource(s)
    [] op = "HISTORY" -> /\ IsRegister(d) /\ IsNone(t)
                         /\ IF Name(HistoryFields, sub) = "COUNT"
                            THEN IsNone(s) ELSE IsValueSource(s)
    [] op = "ENUMERATE" -> IsValueRegister(d) /\ (IsNone(s) \/ IsAddressSource(s)) /\ IsNone(t)
    [] op = "AT" -> IsAddressRegister(d) /\ IsValueRegister(s) /\ IsValueSource(t)
    [] op = "APPEND" -> IsValueRegister(d) /\ IsAddressSource(s) /\ IsNone(t)
    [] op = "LENGTH" -> IsValueRegister(d) /\ IsValueRegister(s) /\ IsNone(t)
    [] op = "ATTRIBUTE" -> IsAddressRegister(d) /\ IsAddressSource(s) /\ IsValueSource(t)
    [] op = "CHOOSE" -> /\ \/ IsAddressRegister(d) /\ IsValueRegister(s)
                           \/ IsValueRegister(d) /\ IsValueSource(s)
                        /\ IsValueSource(t)
    [] op = "MODIFY" -> IsValueRegister(d) /\ IsAddressSource(s) /\ IsValueSource(t)
    [] op \in {"STAGE", "SCHEDULE", "SUBSCRIBE"} ->
         Registers(d) /\ IsImmediate(s) /\ IsValueSource(t)
    [] op \in {"COMMIT", "UNMODIFY", "CANCEL"} -> IsNone(d) /\ IsValueSource(s) /\ IsNone(t)
    [] op = "RANDOM" ->  \* without src0 a draw below src1, with it a recorded result
         IF IsNone(s) THEN IsValueRegister(d) /\ IsValueSource(t)
         ELSE \/ IsValueRegister(d) /\ IsImmediate(s)
              \/ IsAddressRegister(d) /\ IsAddress(s)
    [] op = "EVENT" -> Name(EventKinds, sub) # "NONE"
    [] op = "CHAIN" -> TRUE
    [] OTHER -> FALSE

ValidInstruction(i) ==
  /\ TagOf(Operation(i)) = OperationTag
  /\ ValidOperand(Dst(i)) /\ ValidOperand(Src0(i)) /\ ValidOperand(Src1(i))
  /\ ValidSubcode(OpcodeOf(i), Sub(i))
  /\ ValidForm(OpcodeOf(i), Sub(i), Dst(i), Src0(i), Src1(i))

MutTargets(i) ==
  CASE OpcodeOf(i) \in {"JUMP", "STAGE", "SCHEDULE", "SUBSCRIBE"} -> {ImmediateValue(Src0(i))}
    [] OpcodeOf(i) = "CHAIN" /\ MethodOf(i) = "PUSH" /\ IsImmediate(Src0(i)) ->
         {ImmediateValue(Src0(i))}
    [] OTHER -> {}
\* The program counters that an instruction names.
Targets(i) ==
  CASE OpcodeOf(i) \in {"JUMP", "STAGE", "SCHEDULE", "SUBSCRIBE"} -> {ImmediateValue(Src0(i))}
    [] OpcodeOf(i) = "CHAIN" /\ MethodOf(i) = "PUSH" /\ IsImmediate(Src0(i)) ->
         {ImmediateValue(Src0(i))}
    [] OpcodeOf(i) = "JUMPIF" -> {ImmediateValue(Src1(i))}
    [] OTHER -> {}

Word == 0 .. 2^WordBits - 1
Traces == Seq(Word \X Word \X Word \X Word)
\* The instructions that ValidateTrace objects to, and the first of them, 0 when there is none.
Faulty(trace) == {n \in DOMAIN trace : ~ValidInstruction(trace[n])
                                       \/ ~(Targets(trace[n]) \subseteq 0 .. Len(trace) - 1)}
Earliest(S) == IF S = {} THEN 0 ELSE CHOOSE n \in S : \A k \in S : n <= k
FirstFault(trace) == Earliest(Faulty(trace))
ValidTrace(trace) == trace \in Traces /\ Faulty(trace) = {}

-----------------------------------------------------------------------------
(* Binary form: four words for each instruction. *)

Encode(trace) == FlattenSeq(trace)

\* The valid prefix, and whether it is everything.  Targets are not checked.
ValidPrefix(whole, bad) ==
  [trace |-> IF bad = 0 THEN whole ELSE SubSeq(whole, 1, bad - 1), ok |-> bad = 0]
Decode(words) ==
  LET whole == [n \in 1 .. Len(words) \div 4 |-> SubSeq(words, 4 * n - 3, 4 * n)]
  IN  IF Len(words) % 4 # 0 THEN [trace |-> <<>>, ok |-> FALSE]
      ELSE ValidPrefix(whole, Earliest({n \in DOMAIN whole : ~ValidInstruction(whole[n])}))
=============================================================================

----------------------------- MODULE Assembler -----------------------------
(***************************************************************************)
(* The two-pass assembler and the disassembler.                            *)
(*                                                                         *)
(* A source is a sequence of lines, each a record by its kind:             *)
(*   blank      empty or a comment                                         *)
(*   header     "PC ...", the first line of a listing                      *)
(*   directive  ".text" that the assembler does not know                   *)
(*   program    ".program name", name <<>> when it is not one word         *)
(*   end        ".end"                                                     *)
(*   symbol     ".symbol name value"                                       *)
(*   label      "name:"                                                    *)
(*   code       "pc name args | notes"; pc is Bad when the line has none   *)
(*   malformed  a symbol without value, a pc without instruction, ...      *)
(* Words of the text are tokens: <<"NONE">>, <<"immediate", v>>,           *)
(* <<"register", bank, n>>, <<"control", selector>>, <<"address", fields>>,*)
(* <<"number", n>> and <<"name", text>>.  How they are spelled and trimmed *)
(* is left out.                                                            *)
(***************************************************************************)
EXTENDS Instructions

\* What the parser makes of a word and of a line.
IsToken(token) ==
  /\ token[1] = "immediate" => token[2] \in Int
  /\ token[1] = "register" => token[2] \in Int /\ token[3] \in Nat
  /\ token[1] = "control" => token[2] \in Nat
  /\ token[1] = "address" => token[2] \in Seq(Int)
IsLine(line) ==
  /\ line.kind \in {"blank", "header", "directive", "program", "end", "symbol", "label", "code",
                   "malformed"}
  /\ line.kind = "symbol" => IsToken(line.value)
  /\ line.kind = "code" => /\ line.args \in Seq(ToSet(line.args))
                           /\ \A n \in DOMAIN line.args : IsToken(line.args[n])
                           /\ line.annotated \/ line.notes = <<>>
IsText(lines) == lines \in Seq(ToSet(lines)) /\ \A n \in DOMAIN lines : IsLine(lines[n])

NoPC == Bad
CodeLine(pc, name, args, notes) ==
  [kind |-> "code", pc |-> pc, name |-> name, args |-> args,
   annotated |-> notes # <<>>, notes |-> notes]

(* Arguments. *)

Unsigned(token) == IF token[1] = "number" /\ token[2] \in Word THEN token[2] ELSE Bad

FitsAddress(fields) ==
  LET n == Len(fields)
      width == <<PlayerBits, ZoneBits, SlotBits, CardBits>>
  IN  /\ n \in 1 .. 5
      /\ fields[n] \in 0 .. Largest(AttributeBits)
      /\ \A k \in 1 .. n - 1 : fields[k] \in 0 .. Largest(width[k])
\* The last field is the attribute, the number of the others is the level.
AddressOf(fields) ==
  LET n == Len(fields)
      field(k) == IF k < n THEN fields[k] ELSE 0
  IN  MakeAddress(n - 1, field(1), field(2), field(3), field(4), fields[n])

\* A symbol wins over every other reading of a token but NONE.
OperandOf(token, symbols) ==
  CASE token = <<"NONE">> -> None
    [] token # <<"NONE">> /\ token \in DOMAIN symbols -> symbols[token]
    [] OTHER ->
         CASE token[1] = "immediate" /\ token[2] \in ImmediateMin .. ImmediateMax -> Imm(token[2])
           [] token[1] = "register" /\ token[3] < RegisterCount -> Reg(token[2], token[3])
           [] token[1] = "control" /\ token[2] < ControlCount -> Control(token[2])
           [] token[1] = "address" /\ FitsAddress(token[2]) -> AddressOf(token[2])
           [] OTHER -> Bad

TargetOf(token, labels) ==
  CASE token \in DOMAIN labels -> JumpTarget(labels[token])
    [] token \notin DOMAIN labels /\ Unsigned(token) # Bad -> JumpTarget(Unsigned(token))
    [] OTHER -> Bad

-----------------------------------------------------------------------------
(* First pass: symbols, labels and program counters.                       *)

Knows(table, name) == name \in DOMAIN table
Enter(table, name, value) ==
  IF Knows(table, name) THEN table
  ELSE [x \in {name} \cup DOMAIN table |-> IF x = name THEN value ELSE table[x]]
Fail(pass, n) == [pass EXCEPT !.errors = Append(@, n)]

DefineSymbol(pass, n, line) ==
  LET value == OperandOf(line.value, pass.symbols)
      to == [pass EXCEPT !.symbols = Enter(@, line.name, value)]
  IN  IF value = Bad THEN Fail(pass, n)
      ELSE IF Knows(pass.symbols, line.name) \/ Knows(pass.labels, line.name) THEN Fail(to, n)
      ELSE to

MutLabel(pass, n, line) ==
  IF Knows(pass.symbols, line.name) \/ Knows(pass.labels, line.name) THEN Fail(pass, n)
  ELSE [pass EXCEPT !.labels = Enter(@, line.name, n - 1)]
\* A label stands for the pc of the next instruction.
Label(pass, n, line) ==
  IF Knows(pass.symbols, line.name) \/ Knows(pass.labels, line.name) THEN Fail(pass, n)
  ELSE [pass EXCEPT !.labels = Enter(@, line.name, Len(pass.lines))]

\* An explicit pc must be the number of lines kept so far.
Keep(pass, n, line) ==
  IF line.pc \in {NoPC, Len(pass.lines)}
  THEN [pass EXCEPT !.lines = Append(@, [source |-> n, text |-> line])]
  ELSE Fail(pass, n)

Scan(pass, n, line) ==
  CASE line.kind \in {"blank", "header"} -> pass
    [] line.kind = "symbol" -> DefineSymbol(pass, n, line)
    [] line.kind = "label" -> Label(pass, n, line)
    [] line.kind = "code" -> Keep(pass, n, line)
    [] OTHER -> Fail(pass, n)

FirstPass(source, supplied) ==
  FoldLeftDomain(LAMBDA pass, n : Scan(pass, n, source[n]),
                 [symbols |-> supplied, labels |-> <<>>, lines |-> <<>>, errors |-> <<>>], source)

-----------------------------------------------------------------------------
(* Second pass: one instruction for each line kept.                        *)

\* The operand slots that the arguments of an opcode fill, for each arity it has.  d, s and
\* t are operands; S and T are targets in src0 and src1, L is a target in src0 when it is a
\* known label and an operand otherwise; m is a method and n a summon mode.
Forms(op) ==
  CASE op \in {"NOP", "HALT"} -> {<<>>}
    [] op = "JUMP" -> {<<"S">>}
    [] op = "JUMPIF" -> {<<"s", "T">>, <<"s", "T", "m">>}
    [] op \in {"COMPARE", "MODIFY"} -> {<<"d", "s", "t", "m">>}
    [] op = "ALU" -> {<<"d", "s", "m">>, <<"d", "s", "t", "m">>}
    [] op \in {"MOVE", "RANDOM", "COUNTER"} -> {<<"m", "d", "s">>, <<"m", "d", "s", "t">>}
    [] op = "SUMMON" -> {<<"m", "n", "d", "s">>}
    [] op \in {"POSITION", "NEGATE"} -> {<<"m", "d">>}
    [] op \in {"EQUIP", "CONTROL", "RESTRICT"} -> {<<"m", "d", "s">>}
    [] op = "EVENT" -> {<<"m">>, <<"m", "d">>, <<"m", "d", "s">>, <<"m", "d", "s", "t">>}
    [] op = "CHAIN" -> {<<"m">>, <<"m", "d">>, <<"m", "d", "L">>}
    [] op \in {"AT", "ATTRIBUTE", "CHOOSE"} -> {<<"d", "s", "t">>}
    [] op \in {"STAGE", "SCHEDULE", "SUBSCRIBE"} -> {<<"d", "S", "t">>}
    [] op = "HISTORY" -> {<<"d", "m">>, <<"d", "m", "s">>}
    [] op \in {"UNMODIFY", "COMMIT", "CANCEL"} -> {<<"s">>}
    [] OTHER -> {<<"d", "s">>}

FieldValue(field, arg, op, method, pass) ==
  CASE field \in {"S", "T"} -> TargetOf(arg, pass.labels)
    [] field = "L" -> IF method = <<"name", "PUSH">> /\ Knows(pass.labels, arg)
                      THEN TargetOf(arg, pass.labels) ELSE OperandOf(arg, pass.symbols)
    [] field = "m" -> IF arg[1] = "name" THEN Enum(Methods[op], arg[2]) ELSE Bad
    [] field = "n" -> IF arg[1] = "name" THEN Enum(SummonModes, arg[2]) ELSE Bad
    [] OTHER -> OperandOf(arg, pass.symbols)

\* At least one note, each a known key once, its value in range.
Limits == [flags |-> Largest(FlagsBits), cause |-> Causes - 1, aux |-> Largest(AuxBits)]
GoodNotes(line) ==
  line.annotated =>
    /\ line.notes # <<>>
    /\ \A n \in DOMAIN line.notes :
         LET note == line.notes[n]
         IN  /\ note[1] \in DOMAIN Limits
             /\ note[2] \in 0 .. Limits[note[1]]
             /\ \A k \in 1 .. n - 1 : line.notes[k][1] # note[1]
NoteOf(line, key) ==
  LET at == {n \in DOMAIN line.notes : line.notes[n][1] = key}
  IN  IF at = {} THEN 0 ELSE line.notes[CHOOSE n \in at : TRUE][2]

\* The instruction of a WORDS line, and of any other line; <<>> when it is refused.
FromWords(line) ==
  LET words == [n \in DOMAIN line.args |-> Unsigned(line.args[n])]
  IN  IF ~line.annotated /\ Len(words) = 4 /\ ~Contains(words, Bad) THEN words ELSE <<>>
FromFields(line, pass) ==
  LET op == line.name
      forms == {form \in Forms(op) : Len(form) = Len(line.args)}
      form == CHOOSE f \in forms : TRUE
      values == [n \in DOMAIN form |-> FieldValue(form[n], line.args[n], op, line.args[1], pass)]
      In(names, default) ==
        LET at == {n \in DOMAIN form : form[n] \in names}
        IN  IF at = {} THEN default ELSE values[CHOOSE n \in at : TRUE]
      method == In({"m"}, IF op = "JUMPIF" THEN Enum(JumpConditions, "TRUE") ELSE 0)
      sub == IF op = "SUMMON" THEN SummonSubcode(method, In({"n"}, 0)) ELSE method
      refused == \/ ~Contains(Opcodes, op) \/ forms = {} \/ ~GoodNotes(line)
                 \/ Contains(values, Bad)
                 \/ op = "COUNTER" /\ Len(line.args) = 4 /\ method # Enum(CounterOps, "TRANSFER")
  IN  IF refused THEN <<>>
      ELSE <<Op(Enum(Opcodes, op), sub, NoteOf(line, "flags"), NoteOf(line, "cause"),
                NoteOf(line, "aux")),
             In({"d"}, None), In({"s", "S", "L"}, None), In({"t", "T"}, None)>>
Checked(i) == IF i # <<>> /\ ValidInstruction(i) THEN i ELSE <<>>
Translate(line, pass) ==
  Checked(IF line.name = "WORDS" THEN FromWords(line) ELSE FromFields(line, pass))

\* Failure never returns an executable prefix.
Returned(trace, errors) == [trace |-> IF errors = <<>> THEN trace ELSE <<>>, errors |-> errors]

\* The trace and the lines of the diagnostics; ValidateTrace comes last.
Blame(pass, n) == IF n = 0 THEN <<>> ELSE <<pass.lines[n].source>>
Conclude(pass, to) ==
  Returned(to.trace, IF to.errors = <<>> THEN Blame(pass, FirstFault(to.trace)) ELSE to.errors)
Add(to, line, i) ==
  IF i = <<>> THEN [to EXCEPT !.errors = Append(@, line.source)]
  ELSE [to EXCEPT !.trace = Append(@, i)]
Instructed(pass) ==
  FoldLeft(LAMBDA to, line : Add(to, line, Translate(line.text, pass)),
           [trace |-> <<>>, errors |-> pass.errors], pass.lines)
SecondPass(pass) == Conclude(pass, Instructed(pass))
Assemble(source, supplied) == SecondPass(FirstPass(source, supplied))

-----------------------------------------------------------------------------
(* Modules: ".program name" ... ".end" blocks, each with its own scope.    *)

Object(m, n) == [m EXCEPT !.errors = Append(@, n)]

OpenProgram(m, n, line) ==
  LET to == [m EXCEPT !.module = TRUE]
  IN  IF m.active \/ m.plain \/ line.name = <<>> \/ line.name \in m.names THEN Object(to, n)
      ELSE [to EXCEPT !.name = line.name, !.names = @ \cup {line.name}, !.body = <<>>,
                      !.start = n, !.active = TRUE]

MutHome(m, line) == line
\* A line of a program's diagnostics, in the module.
Home(m, line) == line + m.start
Include(m, result) ==
  [m EXCEPT !.active = FALSE,
            !.programs = Append(@, [name |-> m.name, trace |-> result.trace]),
            !.errors = @ \o [k \in DOMAIN result.errors |-> Home(m, result.errors[k])]]
EndProgram(m, n, symbols) ==
  IF m.active THEN Include(m, Assemble(m.body, symbols)) ELSE Object(m, n)

\* Outside of a program even a header is a line that does not belong there.
Collect(m, n, line, symbols) ==
  CASE line.kind = "program" -> OpenProgram(m, n, line)
    [] line.kind = "end" -> EndProgram(m, n, symbols)
    [] line.kind \notin {"program", "end"} /\ m.active -> [m EXCEPT !.body = Append(@, line)]
    [] OTHER -> IF line.kind = "blank" THEN m
                ELSE IF m.module THEN Object(m, n) ELSE [m EXCEPT !.plain = TRUE]

\* A source without ".program" is one program; a module is published whole or not at all.
All(programs, errors) ==
  [programs |-> IF errors = <<>> THEN programs ELSE <<>>, errors |-> errors]
Only(whole) == All(<<[name |-> <<>>, trace |-> whole.trace]>>, whole.errors)
Collected(source, symbols) ==
  FoldLeftDomain(LAMBDA to, n : Collect(to, n, source[n], symbols),
    [name |-> <<>>, names |-> {}, body |-> <<>>, start |-> 0, active |-> FALSE,
     module |-> FALSE, plain |-> FALSE, programs |-> <<>>, errors |-> <<>>], source)
AssembleModule(source, symbols) ==
  LET m == Collected(source, symbols)
  IN  IF ~m.module THEN Only(Assemble(source, symbols))
      ELSE All(m.programs, IF m.active THEN Append(m.errors, m.start) ELSE m.errors)

-----------------------------------------------------------------------------
(* Disassembler.                                                           *)

OperandText(o) ==
  CASE IsNone(o) -> <<"NONE">>
    [] IsImmediate(o) -> <<"immediate", ImmediateValue(o)>>
    [] IsRegister(o) ->
         <<"register", IF BankOf(o) \in {ValueBank, AddressBank} THEN BankOf(o) ELSE FlagBank,
           IndexOf(o)>>
    [] IsControl(o) /\ ControlRegOf(o) < ControlCount -> <<"control", ControlRegOf(o)>>
    [] IsAddress(o) ->
         LET fields == <<PlayerOf(o), ZoneOf(o), SlotOf(o), CardOf(o)>>
             level == IF LevelOf(o) < CardLevel THEN LevelOf(o) ELSE CardLevel
         IN  <<"address", Append(SubSeq(fields, 1, level), AttributeOf(o))>>
    [] OTHER -> <<"name", "?">>

WordsLine(pc, i) == CodeLine(pc, "WORDS", [n \in 1 .. 4 |-> <<"number", i[n]>>], <<>>)

\* How many arguments are written: a form with an optional operand leaves out NONE.
Written(op, i) ==
  LET lengths == {Len(form) : form \in Forms(op)}
      optional == CASE op \in {"ALU", "MOVE", "RANDOM", "COUNTER"} -> IsNone(Src1(i))
                    [] op = "HISTORY" -> IsNone(Src0(i))
                    [] OTHER -> FALSE
  IN  IF optional THEN CHOOSE n \in lengths : \A k \in lengths : n <= k
      ELSE CHOOSE n \in lengths : \A k \in lengths : k <= n

FieldText(field, op, i) ==
  CASE field = "S" -> <<"number", ImmediateValue(Src0(i))>>
    [] field = "T" -> <<"number", ImmediateValue(Src1(i))>>
    [] field = "d" -> OperandText(Dst(i))
    [] field \in {"s", "L"} -> OperandText(Src0(i))
    [] field = "t" -> OperandText(Src1(i))
    [] field = "m" -> LET method == IF op = "SUMMON" THEN SummonMethodOf(Sub(i)) ELSE Sub(i)
                      IN  <<"name", Name(Methods[op], method)>>
    [] field = "n" -> <<"name", Name(SummonModes, SummonModeOf(Sub(i)))>>

\* Reserved bits of the operation have no spelling.
InstructionText(pc, i) ==
  LET w == Operation(i)
      op == OpcodeOf(i)
      form == CHOOSE f \in Forms(op) : Len(f) = Written(op, i)
      notes == <<<<"flags", FlagsOf(w)>>, <<"cause", CauseOf(w)>>, <<"aux", AuxOf(w)>> >>
  IN  IF w # Op(CodeOf(w), Sub(i), FlagsOf(w), CauseOf(w), AuxOf(w)) THEN WordsLine(pc, i)
      ELSE CodeLine(pc, op, [n \in DOMAIN form |-> FieldText(form[n], op, i)],
                    IF \E n \in DOMAIN notes : notes[n][2] # 0 THEN notes ELSE <<>>)

\* A listing begins with a header.
Listing(lines) == <<[kind |-> "header"]>> \o lines
Readable(trace) == Listing([n \in DOMAIN trace |-> InstructionText(n - 1, trace[n])])
Numbers(trace) == Listing([n \in DOMAIN trace |-> WordsLine(n - 1, trace[n])])
Restores(text, trace) == Assemble(text, <<>>) = [trace |-> trace, errors |-> <<>>]

MutDisassemble(trace) == Readable(trace)
\* Readable when that loses nothing, four numbers for each instruction otherwise.
Disassemble(trace) == IF Restores(Readable(trace), trace) THEN Readable(trace) ELSE Numbers(trace)
=============================================================================

------------------------------ MODULE Programs ------------------------------
(***************************************************************************)
(* From a text or a query to a run: programs are assembled or lowered,     *)
(* carried to the interpreter in memory, as a listing or in binary form,   *)
(* and executed by frames that share the storage, the history and the      *)
(* scheduler.                                                              *)
(*                                                                         *)
(* Either an author types a text, line by line, and the assembler answers  *)
(* to every version of it; or a host follows one of Plans: it builds the   *)
(* programs of the plan, starts a frame for each, runs the frames as it    *)
(* likes, answers their questions, posts events and takes ready frames.    *)
(***************************************************************************)
EXTENDS Interpreter, Lowering, Assembler

CONSTANTS
  Alphabets,  \* sets of lines: a text is written with those of one set
  MaxLines,   \* bound on the lines of a text (not in the code)
  Plans       \* records [zones, fields, recipes, posts]; posts are kinds of events

ASSUME ProgramsAssumption ==
  /\ \A alphabet \in Alphabets : \A line \in alphabet : IsLine(line)
  /\ \A p \in Plans : /\ \A place \in Places : p.zones[place] \in Seq(Nat)
                      /\ \A key \in DOMAIN p.fields : p.fields[key] \in Word
                      /\ p.posts \in Seq(Nat)
                      /\ p.recipes \in Seq(ToSet(p.recipes))
                      /\ \A recipe \in ToSet(p.recipes) :
                           recipe.how = "assemble" => IsText(recipe.text)

VARIABLES
  source,   \* the text that is being written
  plan,     \* <<>>, or the plan that the host follows
  result,   \* what the assembler or the builder returned
  posted    \* how many events the host has posted

host == <<source, plan, result, posted>>
vars == <<host, machine>>

Nothing == [programs |-> <<>>, errors |-> <<>>]
Init ==
  /\ source = <<>> /\ plan = <<>> /\ result = Nothing /\ posted = 0
  /\ frames = <<>> /\ moves = <<>> /\ ready = <<>> /\ history = <<>>
  /\ zones = [place \in Places |-> <<>>] /\ fields = <<>>
  /\ entries = <<>> /\ next = 1 /\ refusals = 0

-----------------------------------------------------------------------------
(* Building and starting programs.                                         *)

Type(line) ==
  /\ plan = <<>> /\ Len(source) < MaxLines
  /\ source' = Append(source, line)
  /\ result' = AssembleModule(source', <<>>)
  /\ UNCHANGED <<plan, posted, machine>>

\* One call of the builder.
Call(b, call) ==
  CASE call.name = "Emit" -> Emit(b, call.code)
    [] call.name = "Filter" -> Filter(b, call.container, call.conditions)
    [] call.name = "DrawToSize" -> DrawToSize(b, call.hand, call.deck, call.size)
    [] call.name = "RandomMove" ->
         RandomMove(b, call.source, call.destination, call.count, call.method)
Lower(b, call) ==
  IF call.name = "OnceOnEvent"
  THEN EndHandler(FoldLeft(Call, OnceOnEvent(b, call.event), call.body), Here(b))
  ELSE Call(b, call)

\* A recipe [how, text, calls] is a text or the calls that lower a query.
Finally(b) == All(<<[name |-> <<>>, trace |-> b.code]>>, IF b.ok THEN <<>> ELSE <<0>>)
Built(recipe) ==
  IF recipe.how = "assemble" THEN AssembleModule(recipe.text, <<>>)
  ELSE Finally(Finish(FoldLeft(Lower, NewBuilder, recipe.calls)))
Build(p) ==
  /\ plan = <<>> /\ source = <<>>
  /\ plan' = <<p>> /\ zones' = p.zones /\ fields' = p.fields
  /\ LET built == [n \in DOMAIN p.recipes |-> Built(p.recipes[n])]
     IN  result' = [programs |-> FlattenSeq([n \in DOMAIN built |-> built[n].programs]),
                    errors |-> FlattenSeq([n \in DOMAIN built |-> built[n].errors])]
  /\ UNCHANGED <<source, posted, frames, history, entries, next, ready, refusals, moves>>

\* What arrives of a trace that is handed over as it is, as a listing or in binary form.
Carried(route, trace) ==
  CASE route = "memory" -> trace
    [] route = "text" -> Assemble(Disassemble(trace), <<>>).trace
    [] route = "words" -> Decode(Encode(trace)).trace
Routes == {"memory", "text", "words"}
Launch(route) ==
  /\ plan # <<>> /\ frames = <<>> /\ Len(result.programs) \in 1 .. MaxFrames
  /\ frames' = [n \in 1 .. Len(result.programs) |-> NewFrame(Carried(route, result.programs[n].trace))]
  /\ moves' = [n \in DOMAIN result.programs |-> 0]
  /\ UNCHANGED <<host, fields, zones, history, entries, next, ready, refusals>>

-----------------------------------------------------------------------------
(* Running them.                                                           *)

Run(f) == f \in DOMAIN frames /\ Step(f) /\ UNCHANGED host
Answer(f, index) == AnswerWith(f, index) /\ UNCHANGED host
PostNext ==
  /\ frames # <<>> /\ posted < Len(plan[1].posts)
  /\ Post([kind |-> plan[1].posts[posted + 1], subject |-> None, object |-> None,
           context |-> None])
  /\ posted' = posted + 1
  /\ UNCHANGED <<source, plan, result>>
Take == TakeReady /\ UNCHANGED host

Offered(f) == IF frames[f].decision = <<>> THEN 0 ELSE frames[f].decision[1].count

Next ==
  \/ \E alphabet \in Alphabets : \E line \in alphabet : ToSet(source) \subseteq alphabet /\ Type(line)
  \/ \E p \in Plans : Build(p)
  \/ \E route \in Routes : Launch(route)
  \/ \E f \in DOMAIN frames : Run(f)
  \/ \E f \in DOMAIN frames : \E index \in 0 .. Offered(f) - 1 : Answer(f, index)
  \/ PostNext
  \/ Take
\* The host runs each of its frames again and again.
Fairness == \A f \in 1 .. MaxFrames : WF_vars(Run(f))
Spec == Init /\ [][Next]_vars /\ Fairness

-----------------------------------------------------------------------------
(* Properties of texts.                                                    *)

Codes(n) == Cardinality({k \in 1 .. n - 1 : source[k].kind = "code"})
Of(kind) == {n \in DOMAIN source : source[n].kind = kind}

\* A symbol whose value is not a symbol itself.
Literal(k) == \A j \in Of("symbol") : source[j].name # source[k].value
\* A text either is refused whole, with a line that is to blame, or each of its code lines
\* is the instruction at the pc that counts the code lines before it: an explicit pc agrees
\* with that, a jump to a label leads to the code line after the label, wherever blank lines,
\* comments and definitions stand, a symbol is replaced by its value, and no name means two
\* things (Assemble).
AssembledAsWritten ==
  plan = <<>> =>
    /\ result.errors = <<>> <=> (result.programs # <<>> \/ source = <<>>)
    /\ ToSet(result.errors) \subseteq DOMAIN source
    /\ (Of("program") = {} /\ result.programs # <<>>) =>
         LET trace == result.programs[1].trace
             Instr(n) == trace[Codes(n) + 1]
         IN  /\ Len(trace) = Codes(Len(source) + 1)
             /\ Of("malformed") = {} /\ Of("directive") = {}
             /\ \A a, b \in Of("label") \cup Of("symbol") :
                  a # b => source[a].name # source[b].name
             /\ \A n \in Of("code") :
                  /\ source[n].pc \in {NoPC, Codes(n)}
                  /\ source[n].name # "WORDS" => OpcodeOf(Instr(n)) = source[n].name
                  /\ \A k \in Of("label") :
                       source[n].name = "JUMP" /\ source[n].args = <<source[k].name>>
                         => Src0(Instr(n)) = JumpTarget(Codes(k))
                  /\ \A k \in Of("symbol") :
                       (/\ source[n].name = "SET" /\ source[n].args[2] = source[k].name
                        /\ source[k].name # <<"NONE">> /\ Literal(k))
                         => Src0(Instr(n)) = OperandOf(source[k].value, <<>>)

\* The programs of a module.
Blocks == {b \in Of("program") \X Of("end") :
             /\ b[1] < b[2]
             /\ \A n \in b[1] + 1 .. b[2] - 1 : source[n].kind \notin {"program", "end"}}
\* Its ".program" lines are named, distinct and not nested, and nothing but blank lines comes
\* before the first.
Regular ==
  /\ \A n \in Of("program") :
       /\ source[n].name # <<>>
       /\ \A k \in Of("program") : k < n => /\ source[k].name # source[n].name
                                            /\ \E e \in Of("end") : k < e /\ e < n
  /\ \A n \in Of("code") \cup Of("label") \cup Of("symbol") \cup Of("malformed")
                \cup Of("directive") \cup Of("header") : \E k \in Of("program") : k < n
\* A program of a module is what its lines are alone: its labels, symbols and program
\* counters are its own, the module blames exactly the lines that the program alone blames,
\* and publishes all programs or none.  A module with anything else in it, be it only the
\* header of a listing before, between or after the programs, is refused (AssembleModule).
ModulesAreScoped ==
  /\ (Of("program") # {} /\ result.programs # <<>>) =>
       \A n \in DOMAIN source :
         source[n].kind = "blank" \/ \E b \in Blocks : n \in b[1] .. b[2]
  /\ Regular => \A b \in Blocks :
       LET alone == Assemble(SubSeq(source, b[1] + 1, b[2] - 1), <<>>)
       IN  /\ \A n \in 1 .. b[2] - b[1] - 1 :
                b[1] + n \in ToSet(result.errors) <=> n \in ToSet(alone.errors)
           /\ result.programs # <<>> =>
                [name |-> source[b[1]].name, trace |-> alone.trace] \in ToSet(result.programs)

\* A program that was built survives every route: as a listing, which falls back to words
\* for what has no spelling, and in binary form.  A frame runs one of the programs built
\* (Disassemble, Encode, Decode).
PublishedIntact ==
  /\ \A n \in DOMAIN result.programs : \A route \in Routes :
       plan = <<>> => Carried(route, result.programs[n].trace) = result.programs[n].trace
  /\ \A f \in DOMAIN frames :
       \E n \in DOMAIN result.programs : frames[f].program = result.programs[n].trace

-----------------------------------------------------------------------------
(* Properties of frames.                                                   *)

Captures == {entries[id].frame : id \in DOMAIN entries}
AllFrames == ToSet(frames) \cup ToSet(ready) \cup Captures

Indices == 0 .. RegisterCount - 1
\* Whatever an instruction, an event or an answer writes, address registers hold addresses
\* that are valid or nothing and flag registers 0, 1 or nothing, so no later instruction
\* meets a word that its bank excludes (WriteOperand).
TypeOK ==
  \A fr \in AllFrames :
    /\ \A n \in DOMAIN fr.address : fr.address[n] = None \/ ValidAddress(fr.address[n])
    /\ \A n \in DOMAIN fr.flag :
         fr.flag[n] = None \/ (IsImmediate(fr.flag[n]) /\ ImmediateValue(fr.flag[n]) \in {0, 1})
    /\ DOMAIN fr.value = Indices /\ DOMAIN fr.address = Indices /\ DOMAIN fr.flag = Indices
    /\ DOMAIN fr.control = ControlCells

\* No frame that passed validation ever leaves its trace, not by a branch and not by being
\* captured at a target, run by an event or run again after a fault (ValidateTrace).
PcInTrace ==
  \A fr \in AllFrames : fr.status # "invalid" => fr.pc \in 0 .. Len(fr.program)

\* A question is open only at the instruction that asked it: no answer is left over for the
\* next question, and a frame that was captured or is ready has neither (CHOOSE, Register).
DecisionMatchesPc ==
  /\ \A f \in DOMAIN frames :
       LET fr == frames[f]
       IN  IF fr.decision = <<>> THEN fr.answer = <<>>
           ELSE /\ fr.decision[1].pc = fr.pc
                /\ \A n \in DOMAIN fr.answer : fr.answer[n] < fr.decision[1].count
  /\ \A fr \in ToSet(ready) \cup Captures : fr.decision = <<>> /\ fr.answer = <<>>

\* Every draw that a frame is about to make is uniform: each result below the bound has
\* equally many accepted samples (Bounded).
DrawIsUniform ==
  \A f \in DOMAIN frames :
    LET bound == Number(frames[f], T(f))
        Ways(n) == Cardinality({x \in Accepted(bound) : x % bound = n})
    IN  (/\ On(f, {"RANDOM"}) /\ IsNone(S(f))
         /\ IsNumber(frames[f], T(f)) /\ bound > 0)
          => \A n \in 0 .. bound - 1 : Ways(n) = Ways(0) /\ Ways(n) > 0

\* An instruction of f: its only frame that changes, and not by an answer.
Ran(f) == frames'[f] # frames[f] /\ frames'[f].answer \in {frames[f].answer, <<>>}
\* A MOVE reports exactly the cards it moved, no more when it faults half way: RESULT_COUNT
\* is the number of events it announced, RESULT_SUCCESS whether it went on, and each card
\* announced is where the event says (Execute, MOVE).
ReportedMoves ==
  [][\A f \in DOMAIN frames : (On(f, {"MOVE"}) /\ Ran(f)) =>
       LET control == frames'[f].control
           announced == SubSeq(history', Len(history) + 1, Len(history'))
       IN  /\ control[ResultCount] = Imm(Len(announced))
           /\ control[ResultSuccess] = Imm(1) <=> frames'[f].pc = frames[f].pc + 1
           /\ \A event \in ToSet(announced) :
                \E place \in Places : /\ event.object = AddressIn(place, CardOf(event.subject))
                                      /\ Contains(zones'[place], CardOf(event.subject))]_vars

\* Who registers gets to know it: SUBSCRIBE and SCHEDULE never fault once they have
\* registered, and leave the new id in their destination and in the frame that they
\* captured, so both can cancel (Execute, Scheduler::Register).
RegisteredIsReported ==
  [][next' # next =>
       \E f \in DOMAIN frames :
         /\ On(f, {"SCHEDULE", "SUBSCRIBE"}) /\ frames'[f].pc = frames[f].pc + 1
         /\ IsValueRegister(D(f))
         /\ Cell(frames'[f], D(f)) = Imm(next) /\ Cell(entries'[next].frame, D(f)) = Imm(next)]_vars

-----------------------------------------------------------------------------
(* Properties of lowered queries.                                          *)

\* The calls that frame f runs: those of its recipe, or the body of a handler.
Recipes == plan[1].recipes
Handlers == UNION {ToSet(call.body) : call \in
              {c \in UNION {ToSet(r.calls) : r \in ToSet(Recipes)} : c.name = "OnceOnEvent"}}
CallsOf(f) == IF f <= Len(Recipes) THEN ToSet(Recipes[f].calls) ELSE Handlers

Cardinal(place) == Len(plan[1].zones[place])
Lesser(a, b) == IF a < b THEN a ELSE b
Passes(object, conditions) ==
  \A n \in DOMAIN conditions :
    LET c == conditions[n]
    IN  Holds(c.comparison, ImmediateValue(plan[1].fields[FieldKey(WithAttribute(object, c.field))]),
              ImmediateValue(c.value))
\* What a query promises when it runs alone, on the storage of the plan.
Promise(call) ==
  LET old == plan[1].zones
      fr == frames[1]
  IN  CASE call.name = "Filter" ->
             LET all == [n \in DOMAIN old[call.container] |->
                           AddressIn(call.container, old[call.container][n])]
             IN  Collection(fr, V(1)) = SelectSeq(all, LAMBDA o : Passes(o, call.conditions))
        [] call.name = "DrawToSize" ->
             LET missing == ImmediateValue(call.size) - Cardinal(call.hand)
                 drawn == IF missing < 0 THEN 0 ELSE Lesser(missing, Cardinal(call.deck))
             IN  /\ fr.value[0] = Imm(drawn)
                 /\ zones[call.hand] = old[call.hand] \o SubSeq(old[call.deck], 1, drawn)
        [] call.name = "RandomMove" ->
             LET count == Lesser(ImmediateValue(call.count), Cardinal(call.source))
             IN  /\ Len(zones[call.source]) = Cardinal(call.source) - count
                 /\ Len(zones[call.destination]) = Cardinal(call.destination) + count
                 /\ ToSet(zones[call.source]) \cap ToSet(zones[call.destination]) = {}
        [] OTHER -> TRUE
\* A query that runs alone never faults, unless the storage refuses, and does what it is
\* for: Filter collects the objects that pass, in order, DrawToSize draws what is missing
\* and RandomMove moves as many different cards as there are (class Lowering).
QueriesExact ==
  (/\ plan # <<>> /\ Len(frames) = 1 /\ refusals = 0
   /\ Len(Recipes) = 1 /\ Recipes[1].how = "lower") =>
    /\ frames[1].status # "fault"
    /\ frames[1].status = "halted" =>
         \A call \in ToSet(Recipes[1].calls) : Promise(call)

\* A random move never moves more cards than it was asked to, whatever the other frames
\* move meanwhile and however often it is run again; a handler that undoes a draw is asked
\* for as many as its creator drew (RandomMove, OnceOnEvent).
MovesWithinRequest ==
  plan # <<>> => \A f \in DOMAIN frames : \A call \in CallsOf(f) :
    call.name = "RandomMove" /\ Len(Recipes) = Len(result.programs)
      => moves[f] <= Number(frames[f], call.count)

Settled(f) == f \in DOMAIN frames => frames[f].status # "running"
\* The loops of lowered queries end: run again and again, each frame comes to a HALT, a
\* question or a fault and stays there (Filter, RandomMove and OnceOnEvent patch their branches).
QueriesEnd ==
  \A f \in 1 .. MaxFrames : <>[]Settled(f)
=============================================================================

---------------------------- MODULE Interpreter ----------------------------
(***************************************************************************)
(* The interpreter loop (Runtime::Execute) on the register, collection,    *)
(* query, decision, random, movement and event instructions.               *)
(*                                                                         *)
(* A step is one instruction of one frame: the host's budgets are any, so  *)
(* frames that share the storage, the history and the scheduler interleave *)
(* at every instruction.  A frame that faulted keeps its pc and may be run *)
(* again.  STAGE, COMMIT, CHAIN, MODIFY and the card operations have their *)
(* own modules, the CONTROL.PENDING_* cells are absent outside a handler.  *)
(***************************************************************************)
EXTENDS Instructions, FiniteSets

CONSTANTS
  Places,       \* addresses of the zones that the storage knows
  RandomBits,   \* width of a sample of Bounded: 64 in the code, as that of a word
  MaxRefusals,  \* bound on the requests that the storage refuses (not in the code)
  MaxFrames     \* bound on the frames of a run (not in the code)

ASSUME InterpreterAssumption ==
  /\ \A place \in Places : place \in Word /\ IsObject(place) /\ LevelOf(place) = ZoneLevel
  /\ RandomBits \in 0 .. WordBits /\ MaxRefusals \in Nat /\ MaxFrames \in Nat

VARIABLES
  frames,     \* the frames that the host holds
  zones,      \* storage: the cards of each place, first the one on top
  fields,     \* storage: attributes by <<card identity, attribute>>
  history,    \* Runtime::history
  entries,    \* Scheduler::entries_
  next,       \* Scheduler::next_
  ready,      \* Runtime::ready_
  refusals,   \* requests refused so far
  moves       \* history: cards moved by each frame

shared == <<zones, history, entries, next, ready, refusals, moves>>
machine == <<frames, fields, shared>>

\* A frame, its status being the last Result; "invalid" when ValidateTrace, which every Run
\* repeats on the immutable program, refuses it.  decision and answer are optional.
Bank == [n \in 0 .. RegisterCount - 1 |-> None]
ControlCells == 0 .. 11
NewFrame(trace) ==
  [program |-> trace, pc |-> 0, value |-> Bank, address |-> Bank, flag |-> Bank,
   control |-> [r \in ControlCells |-> None], collections |-> <<>>,
   decision |-> <<>>, answer |-> <<>>,
   status |-> IF ValidTrace(trace) THEN "running" ELSE "invalid"]

-----------------------------------------------------------------------------
(* Storage of the host: identities are stable, coordinates may be old.     *)

Cards(zs) == UNION {ToSet(zs[place]) : place \in Places}
AddressIn(place, card) == Card(PlayerOf(place), ZoneOf(place), 0, card)
Members(place) == [n \in DOMAIN zones[place] |-> AddressIn(place, zones[place][n])]
FieldKey(attribute) == <<CardOf(attribute), AttributeOf(attribute)>>
HasField(attribute) == LevelOf(attribute) = CardLevel /\ FieldKey(attribute) \in DOMAIN fields
Movable(object, place) == place \in Places /\ CardOf(object) \in Cards(zones)
\* A request for the current location succeeds and changes nothing.
Relocated(zs, card, place) ==
  [p \in Places |-> IF Contains(zs[p], card) /\ p # place THEN RemoveFirst(zs[p], card)
                    ELSE IF p = place /\ ~Contains(zs[p], card) THEN Append(zs[p], card)
                    ELSE zs[p]]

-----------------------------------------------------------------------------
(* References.  m is a frame about to change with the fields.              *)

IsCell(o) ==
  \/ IsControl(o) /\ ControlRegOf(o) \in ControlCells
  \/ IsValueRegister(o) \/ IsAddressRegister(o) \/ IsFlagRegister(o)
Cell(fr, o) ==
  CASE IsControl(o) -> fr.control[ControlRegOf(o)]
    [] IsValueRegister(o) -> fr.value[IndexOf(o)]
    [] IsAddressRegister(o) -> fr.address[IndexOf(o)]
    [] IsFlagRegister(o) -> fr.flag[IndexOf(o)]
SetCell(fr, o, w) ==
  CASE IsControl(o) -> [fr EXCEPT !.control[ControlRegOf(o)] = w]
    [] IsValueRegister(o) -> [fr EXCEPT !.value[IndexOf(o)] = w]
    [] IsAddressRegister(o) -> [fr EXCEPT !.address[IndexOf(o)] = w]
    [] IsFlagRegister(o) -> [fr EXCEPT !.flag[IndexOf(o)] = w]

Resolve(fr, o) == IF IsAddressRegister(o) THEN fr.address[IndexOf(o)] ELSE o
Resolves(fr, o) == ValidAddress(Resolve(fr, o))

CanRead(fr, o) ==
  IF IsCell(o) THEN ~IsNone(Cell(fr, o))
  ELSE IF IsAttribute(o) THEN HasField(o)
  ELSE IsImmediate(o) \/ IsAddress(o)
Read(fr, o) ==
  IF IsCell(o) THEN Cell(fr, o) ELSE IF IsAttribute(o) THEN fields[FieldKey(o)] ELSE o

MutFits(o, w) == IsAddressRegister(o) => ValidAddress(w)
\* Address registers hold valid addresses only, flag registers immediate 0 or 1.
Fits(o, w) ==
  /\ IsAddressRegister(o) => ValidAddress(w)
  /\ IsFlagRegister(o) => IsImmediate(w) /\ ImmediateValue(w) \in {0, 1}
CanWrite(o, w) == Fits(o, w) /\ (IsCell(o) \/ (IsAttribute(o) /\ HasField(o)))
Write(m, o, w) ==
  IF IsCell(o) THEN [m EXCEPT !.frame = SetCell(@, o, w)]
  ELSE [m EXCEPT !.fields[FieldKey(o)] = w]

IsNumber(fr, o) == CanRead(fr, o) /\ IsImmediate(Read(fr, o))
Number(fr, o) == ImmediateValue(Read(fr, o))
IsCollection(fr, o) ==
  /\ CanRead(fr, o)
  /\ TagOf(Read(fr, o)) = CollectionTag /\ PayloadOf(Read(fr, o)) < Len(fr.collections)
Collection(fr, o) == fr.collections[PayloadOf(Read(fr, o)) + 1]

-----------------------------------------------------------------------------
(* One instruction of frame f.                                             *)

I(f) == frames[f].program[frames[f].pc + 1]
D(f) == Dst(I(f))
S(f) == Src0(I(f))
T(f) == Src1(I(f))
Runnable(f) == frames[f].status \notin {"halted", "invalid"}
On(f, opcodes) ==
  Runnable(f) /\ frames[f].pc < Len(frames[f].program) /\ OpcodeOf(I(f)) \in opcodes

\* Every instruction starts by storing its pc.
Fr(f) == [frames[f] EXCEPT !.control[ProgramCounterReg] = Imm(frames[f].pc)]
M(f) == [frame |-> Fr(f), fields |-> fields]
With(fr, reg, n) == [fr EXCEPT !.control[reg] = Imm(n)]
Bit(condition) == IF condition THEN 1 ELSE 0

Goto(f, m, pc) ==
  /\ frames' = [frames EXCEPT ![f] = [m.frame EXCEPT !.pc = pc, !.status = "running"]]
  /\ fields' = m.fields
Stop(f, fr, status) ==
  /\ frames' = [frames EXCEPT ![f] = [fr EXCEPT !.status = status]]
  /\ UNCHANGED fields
Continue(f, m) == Goto(f, m, frames[f].pc + 1)
\* The instruction writes w to its destination when it is valid, and faults otherwise.
Yield(f, valid, w) ==
  IF valid /\ CanWrite(D(f), w) THEN Continue(f, Write(M(f), D(f), w)) ELSE Stop(f, Fr(f), "fault")

Nop(f) == On(f, {"NOP"}) /\ Continue(f, M(f)) /\ UNCHANGED shared

\* HALT, or the end of the trace.
Finished(f) ==
  /\ On(f, {"HALT"}) \/ (Runnable(f) /\ frames[f].pc = Len(frames[f].program))
  /\ Stop(f, IF On(f, {"HALT"}) THEN Fr(f) ELSE frames[f], "halted")
  /\ UNCHANGED shared

Set(f) == On(f, {"SET", "COPY"}) /\ Yield(f, CanRead(Fr(f), S(f)), Read(Fr(f), S(f)))
          /\ UNCHANGED shared

Select(f) == On(f, {"SELECT"}) /\ Yield(f, Resolves(Fr(f), S(f)), Resolve(Fr(f), S(f)))
             /\ UNCHANGED shared

Load(f) ==
  /\ On(f, {"LOAD"})
  /\ LET a == Resolve(Fr(f), S(f))
     IN  IF IsAddressSource(S(f))
         THEN Yield(f, ValidAddress(a) /\ IsAttribute(a) /\ HasField(a), fields[FieldKey(a)])
         ELSE Yield(f, CanRead(Fr(f), S(f)), Read(Fr(f), S(f)))
  /\ UNCHANGED shared

\* STORE through an address register writes the field it points to.  RESULT_SUCCESS tells
\* whether it did, unless it is what was stored.
Store(f) ==
  /\ On(f, {"STORE"})
  /\ LET w == Read(Fr(f), S(f))
         to == Resolve(Fr(f), D(f))
         valid == /\ CanRead(Fr(f), S(f))
                  /\ IF IsAddressRegister(D(f))
                     THEN ValidAddress(to) /\ IsAttribute(to) /\ HasField(to)
                     ELSE CanWrite(D(f), w)
         m == IF valid THEN Write(M(f), to, w) ELSE M(f)
         done == IF D(f) = Control(ResultSuccess) THEN m
                 ELSE [m EXCEPT !.frame = With(@, ResultSuccess, Bit(valid))]
     IN  IF valid THEN Continue(f, done) ELSE Stop(f, done.frame, "fault")
  /\ UNCHANGED shared

Swap(f) ==
  /\ On(f, {"SWAP"})
  /\ LET sameBank == IsRegister(D(f)) /\ IsRegister(S(f)) /\ BankOf(D(f)) = BankOf(S(f))
     IN  IF ~sameBank THEN Stop(f, Fr(f), "unsupported")
         ELSE IF ~CanRead(Fr(f), D(f)) \/ ~CanRead(Fr(f), S(f)) THEN Stop(f, Fr(f), "fault")
         ELSE Continue(f, Write(Write(M(f), D(f), Cell(Fr(f), S(f))), S(f), Cell(Fr(f), D(f))))
  /\ UNCHANGED shared

Attribute(f) ==
  /\ On(f, {"ATTRIBUTE"})
  /\ Yield(f, /\ Resolves(Fr(f), S(f)) /\ IsNumber(Fr(f), T(f))
              /\ Number(Fr(f), T(f)) \in 0 .. Largest(AttributeBits),
           WithAttribute(Resolve(Fr(f), S(f)), Number(Fr(f), T(f))))
  /\ UNCHANGED shared

\* C++ division truncates towards zero.
Abs(a) == IF a < 0 THEN -a ELSE a
Quotient(a, b) == IF (a < 0) = (b < 0) THEN Abs(a) \div Abs(b) ELSE -(Abs(a) \div Abs(b))
Arithmetic(method, a, b) ==
  CASE method = "ADD" -> a + b
    [] method = "SUBTRACT" -> a - b
    [] method = "MULTIPLY" -> a * b
    [] method = "DIVIDE" -> Quotient(a, b)
    [] method = "MODULO" -> a - b * Quotient(a, b)
    [] method = "MINIMUM" -> IF a < b THEN a ELSE b
    [] method = "MAXIMUM" -> IF a < b THEN b ELSE a
    [] method = "NEGATE" -> -a
    [] method = "ABSOLUTE" -> Abs(a)
Computable(method, a, b) ==
  /\ method \in {"DIVIDE", "MODULO"} => b # 0
  /\ Arithmetic(method, a, b) \in ImmediateMin .. ImmediateMax

Compute(f) ==
  /\ On(f, {"ALU"})
  /\ LET a == Number(Fr(f), S(f))
         b == IF IsNone(T(f)) THEN 0 ELSE Number(Fr(f), T(f))
     IN  Yield(f, /\ IsNumber(Fr(f), S(f)) /\ (IsNone(T(f)) \/ IsNumber(Fr(f), T(f)))
                  /\ Computable(MethodOf(I(f)), a, b),
               Imm(Arithmetic(MethodOf(I(f)), a, b)))
  /\ UNCHANGED shared

\* Words compare for equality, numbers for order.
Holds(method, a, b) ==
  CASE method = "EQUAL" -> a = b
    [] method = "NOT_EQUAL" -> a # b
    [] method = "LESS" -> a < b
    [] method = "LESS_EQUAL" -> a <= b
    [] method = "GREATER" -> a > b
    [] method = "GREATER_EQUAL" -> a >= b
Compare(f) ==
  /\ On(f, {"COMPARE"})
  /\ LET fr == Fr(f)
         method == MethodOf(I(f))
     IN  IF method \in {"EQUAL", "NOT_EQUAL"}
         THEN Yield(f, CanRead(fr, S(f)) /\ CanRead(fr, T(f)),
                    Imm(Bit(Holds(method, Read(fr, S(f)), Read(fr, T(f))))))
         ELSE Yield(f, IsNumber(fr, S(f)) /\ IsNumber(fr, T(f)),
                    Imm(Bit(Holds(method, Number(fr, S(f)), Number(fr, T(f))))))
  /\ UNCHANGED shared

Branch(f) ==
  /\ On(f, {"JUMP", "JUMPIF"})
  /\ LET method == MethodOf(I(f))
         test == Number(Fr(f), S(f))
         take == CASE method = "ALWAYS" -> TRUE
                   [] method \in {"ZERO", "FALSE"} -> test = 0
                   [] method \in {"NOT_ZERO", "TRUE"} -> test # 0
     IN  CASE OpcodeOf(I(f)) = "JUMP" -> Goto(f, M(f), ImmediateValue(S(f)))
           [] OpcodeOf(I(f)) = "JUMPIF" ->
                IF method \notin {"ALWAYS", "ZERO", "FALSE", "NOT_ZERO", "TRUE"}
                THEN Stop(f, Fr(f), "unsupported")
                ELSE IF ~IsNumber(Fr(f), S(f)) THEN Stop(f, Fr(f), "fault")
                ELSE IF take THEN Goto(f, M(f), ImmediateValue(T(f))) ELSE Continue(f, M(f))
  /\ UNCHANGED shared

-----------------------------------------------------------------------------
(* Queries, collections, decisions and random draws.                       *)

\* COUNT and ENUMERATE; ENUMERATE NONE makes an empty collection.
Query(f) ==
  /\ On(f, {"COUNT", "ENUMERATE"})
  /\ LET place == Resolve(Fr(f), S(f))
         empty == OpcodeOf(I(f)) = "ENUMERATE" /\ IsNone(S(f))
         valid == empty \/ place \in Places
         members == IF empty THEN <<>> ELSE Members(place)
         handle == MakeTagged(CollectionTag, Len(frames[f].collections))
         added == [M(f) EXCEPT !.frame.collections = Append(@, members)]
     IN  IF ~valid THEN Stop(f, Fr(f), "fault")
         ELSE IF OpcodeOf(I(f)) = "COUNT" THEN Yield(f, TRUE, Imm(Len(members)))
         ELSE Continue(f, Write(added, D(f), handle))
  /\ UNCHANGED shared

At(f) ==
  /\ On(f, {"AT"})
  /\ Yield(f, /\ IsCollection(Fr(f), S(f)) /\ IsNumber(Fr(f), T(f))
              /\ Number(Fr(f), T(f)) \in 0 .. Len(Collection(Fr(f), S(f))) - 1,
           Collection(Fr(f), S(f))[Number(Fr(f), T(f)) + 1])
  /\ UNCHANGED shared

AppendTo(f) ==
  /\ On(f, {"APPEND"})
  /\ LET object == Resolve(Fr(f), S(f))
         at == PayloadOf(Read(Fr(f), D(f))) + 1
     IN  IF IsCollection(Fr(f), D(f)) /\ ValidAddress(object) /\ IsObject(object)
         THEN Continue(f, [M(f) EXCEPT !.frame.collections[at] = Append(@, object)])
         ELSE Stop(f, Fr(f), "fault")
  /\ UNCHANGED shared

Length(f) ==
  /\ On(f, {"LENGTH"})
  /\ Yield(f, IsCollection(Fr(f), S(f)), Imm(Len(Collection(Fr(f), S(f)))))
  /\ UNCHANGED shared

\* CHOOSE offers the members of a collection, or the numbers below src0, and waits.
Ask(f) ==
  /\ On(f, {"CHOOSE"}) /\ frames[f].decision = <<>>
  /\ LET fr == Fr(f)
         objects == IsAddressRegister(D(f))
         options == IF objects THEN Collection(fr, S(f)) ELSE <<>>
         count == IF objects THEN Len(options) ELSE Number(fr, S(f))
         valid == /\ IsNumber(fr, T(f)) /\ Number(fr, T(f)) >= 0
                  /\ IF objects THEN IsCollection(fr, S(f)) ELSE IsNumber(fr, S(f))
                  /\ count > 0
         decision == [pc |-> fr.pc, player |-> Number(fr, T(f)), count |-> count,
                      candidates |-> options]
     IN  IF valid THEN Stop(f, [fr EXCEPT !.decision = <<decision>>], "waiting")
         ELSE Stop(f, fr, "fault")
  /\ UNCHANGED shared

MutForget(fr) == [fr EXCEPT !.answer = <<>>]
\* What is settled must not be taken for the next question.
Forget(fr) == [fr EXCEPT !.decision = <<>>, !.answer = <<>>]
Resume(f) ==
  /\ On(f, {"CHOOSE"}) /\ frames[f].decision # <<>>
  /\ LET decision == frames[f].decision[1]
         index == frames[f].answer[1]
         w == IF IsAddressRegister(D(f)) THEN decision.candidates[index + 1] ELSE Imm(index)
     IN  CASE decision.pc # frames[f].pc -> Stop(f, Fr(f), "fault")
           [] decision.pc = frames[f].pc /\ frames[f].answer = <<>> -> Stop(f, Fr(f), "waiting")
           [] OTHER -> IF index < decision.count /\ CanWrite(D(f), w)
                       THEN LET m == Write(M(f), D(f), w)
                            IN  Continue(f, [m EXCEPT !.frame = Forget(@)])
                       ELSE Stop(f, Fr(f), "fault")
  /\ UNCHANGED shared

\* Frame::Answer, called by the host.
AnswerWith(f, index) ==
  /\ frames[f].decision # <<>> /\ frames[f].answer = <<>>
  /\ frames[f].decision[1].pc = frames[f].pc /\ index < frames[f].decision[1].count
  /\ frames' = [frames EXCEPT ![f].answer = <<index>>]
  /\ UNCHANGED <<fields, shared>>

\* Rejection sampling: the samples below the threshold are drawn again.
Samples == 0 .. 2^RandomBits - 1
MutThreshold(bound) == 0
Threshold(bound) == ((2^RandomBits - bound) % 2^RandomBits) % bound
Accepted(bound) == {x \in Samples : x >= Threshold(bound)}
Bounded(bound) == {x % bound : x \in Accepted(bound)}

\* With a source, RANDOM replays a recorded result.
Random(f) ==
  /\ On(f, {"RANDOM"})
  /\ CASE ~IsNone(S(f)) -> Yield(f, CanRead(Fr(f), S(f)), Read(Fr(f), S(f)))
       [] IsNone(S(f)) /\ IsNumber(Fr(f), T(f)) /\ Number(Fr(f), T(f)) > 0 ->
            \E n \in Bounded(Number(Fr(f), T(f))) : Yield(f, TRUE, Imm(n))
       [] OTHER -> Yield(f, FALSE, None)
  /\ UNCHANGED shared

-----------------------------------------------------------------------------
(* Events, registrations and movement.                                     *)

Subscribers(kind) == {id \in DOMAIN entries : entries[id].kind = "event" /\ entries[id].key = kind}
\* The subscribers of a kind in the order of their ids: the only increasing enumeration.
InOrder(ids) ==
  {s \in [1 .. Cardinality(ids) -> ids] : \A a, b \in DOMAIN s : a < b => s[a] < s[b]}
Copy(id, e) ==
  [entries[id].frame EXCEPT !.control = [@ EXCEPT ![8] = Imm(e.kind), ![9] = e.subject,
                                                  ![10] = e.object, ![11] = e.context]]
\* The captured frames that events of a kind queue: for each event, those of ids in turn.
Copies(ids, events) ==
  LET k == Len(ids)
  IN  [n \in 1 .. Len(events) * k |-> Copy(ids[((n - 1) % k) + 1], events[(n - 1) \div k + 1])]
Deliver(kind, events) ==
  /\ history' = history \o events
  /\ \E ids \in InOrder(Subscribers(kind)) : ready' = ready \o Copies(ids, events)

MutCount(wanted, done) == Len(wanted)
\* RESULT_COUNT is advanced after each object.
Count(wanted, done) == done

\* Moves the wanted objects in order; on the first refusal what has moved stays moved.
MoveAll(f, to, wanted, valid) ==
  LET kind == Enum(EventKinds, "MOVED")
      moved(n) == [kind |-> kind, subject |-> wanted[n],
                   object |-> AddressIn(to, CardOf(wanted[n])), context |-> Operation(I(f))]
      result(done, success) == With(With(Fr(f), ResultCount, done), ResultSuccess, Bit(success))
  IN  \E done \in 0 .. Len(wanted) :
        LET complete == done = Len(wanted)
            refused == ~complete /\ Movable(wanted[done + 1], to)
            after == result(Count(wanted, done), valid /\ complete)
        IN  /\ \A n \in 1 .. done : Movable(wanted[n], to)
            /\ refusals' = refusals + Bit(refused) /\ refusals' <= MaxRefusals
            /\ zones' = FoldLeft(LAMBDA zs, card : Relocated(zs, card, to), zones,
                                 [n \in 1 .. done |-> CardOf(wanted[n])])
            /\ Deliver(kind, [n \in 1 .. done |-> moved(n)])
            /\ moves' = [moves EXCEPT ![f] = @ + done]
            /\ IF valid /\ complete THEN Continue(f, [frame |-> after, fields |-> fields])
               ELSE Stop(f, after, "fault")

\* The first amount objects of src0; a cost needs that many.
Move(f) ==
  /\ On(f, {"MOVE"})
  /\ LET fr == Fr(f)
         to == Resolve(fr, D(f))
         from == Resolve(fr, S(f))
         amount == IF IsNone(T(f)) THEN 1 ELSE Number(fr, T(f))
         objects == IF LevelOf(from) = CardLevel THEN <<from>> ELSE Members(from)
         cost == (FlagsOf(Operation(I(f))) \div FlagCost) % 2 = 1
         valid == /\ ValidAddress(to) /\ ValidAddress(from) /\ IsObject(to) /\ IsObject(from)
                  /\ IsNone(T(f)) \/ (IsNumber(fr, T(f)) /\ amount >= 0)
                  /\ LevelOf(from) = CardLevel \/ from \in Places
                  /\ cost => amount <= Len(objects)
     IN  IF valid
         THEN MoveAll(f, to, SubSeq(objects, 1, IF amount < Len(objects) THEN amount
                                                ELSE Len(objects)), TRUE)
         ELSE MoveAll(f, to, <<>>, FALSE)
  /\ UNCHANGED <<entries, next>>

Recall(f) ==
  /\ On(f, {"HISTORY"})
  /\ LET n == Number(Fr(f), S(f)) + 1
         event == history[n]
         field == MethodOf(I(f))
     IN  IF field = "COUNT" THEN Yield(f, TRUE, Imm(Len(history)))
         ELSE Yield(f, IsNumber(Fr(f), S(f)) /\ n \in DOMAIN history,
                    CASE field = "KIND" -> Imm(event.kind)
                      [] field = "SUBJECT" -> event.subject
                      [] field = "OBJECT" -> event.object
                      [] field = "CONTEXT" -> event.context)
  /\ UNCHANGED shared

\* SUBSCRIBE and SCHEDULE capture the frame, at the target and holding its own id.  (The limit
\* on ids is in Scheduler.)
Captured(f) ==
  [Forget(IF IsValueRegister(D(f)) THEN SetCell(Fr(f), D(f), Imm(next)) ELSE Fr(f))
   EXCEPT !.pc = ImmediateValue(S(f)), !.status = "running"]
Register(f) ==
  /\ On(f, {"SCHEDULE", "SUBSCRIBE"})
  /\ LET valid == IsNumber(Fr(f), T(f)) /\ Number(Fr(f), T(f)) >= 0
         entry == [kind |-> IF OpcodeOf(I(f)) = "SCHEDULE" THEN "time" ELSE "event",
                   key |-> Number(Fr(f), T(f)), frame |-> Captured(f)]
     IN  /\ Yield(f, valid, Imm(next))
         /\ entries' = IF valid THEN [id \in {next} \cup DOMAIN entries |->
                                        IF id = next THEN entry ELSE entries[id]] ELSE entries
         /\ next' = IF valid THEN next + 1 ELSE next
  /\ UNCHANGED <<zones, history, ready, refusals, moves>>

Cancel(f) ==
  /\ On(f, {"CANCEL"})
  /\ LET id == Number(Fr(f), S(f))
     IN  IF IsNumber(Fr(f), S(f)) /\ id > 0
         THEN /\ entries' = [k \in DOMAIN entries \ {id} |-> entries[k]]
              /\ Continue(f, [M(f) EXCEPT
                   !.frame = With(@, ResultSuccess, Bit(id \in DOMAIN entries))])
         ELSE Stop(f, Fr(f), "fault") /\ UNCHANGED entries
  /\ UNCHANGED <<zones, history, next, ready, refusals, moves>>

Announce(f) ==
  /\ On(f, {"EVENT"})
  /\ LET given(o) == IF IsNone(o) THEN None ELSE Read(Fr(f), o)
         event == [kind |-> Sub(I(f)), subject |-> given(D(f)), object |-> given(S(f)),
                   context |-> given(T(f))]
     IN  IF \A o \in {D(f), S(f), T(f)} : IsNone(o) \/ CanRead(Fr(f), o)
         THEN Deliver(event.kind, <<event>>) /\ Continue(f, M(f))
         ELSE Stop(f, Fr(f), "fault") /\ UNCHANGED <<history, ready>>
  /\ UNCHANGED <<zones, entries, next, refusals, moves>>

\* Runtime::Deliver and TakeReady, called by the host.
Post(event) ==
  /\ Deliver(event.kind, <<event>>)
  /\ UNCHANGED <<frames, fields, zones, entries, next, refusals, moves>>
TakeReady ==
  /\ ready # <<>> /\ Len(frames) + Len(ready) <= MaxFrames
  /\ frames' = frames \o ready
  /\ moves' = moves \o [n \in DOMAIN ready |-> 0]
  /\ ready' = <<>>
  /\ UNCHANGED <<fields, zones, history, entries, next, refusals>>

Step(f) ==
  \/ Nop(f) \/ Finished(f) \/ Set(f) \/ Select(f) \/ Load(f) \/ Store(f) \/ Swap(f)
  \/ Attribute(f) \/ Compute(f) \/ Compare(f) \/ Branch(f) \/ Query(f) \/ At(f) \/ AppendTo(f)
  \/ Length(f) \/ Ask(f) \/ Resume(f) \/ Random(f) \/ Move(f) \/ Recall(f) \/ Register(f)
  \/ Cancel(f) \/ Announce(f)
=============================================================================

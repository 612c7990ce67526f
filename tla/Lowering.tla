------------------------------ MODULE Lowering ------------------------------
(***************************************************************************)
(* The query builder (class Lowering): it allocates scratch registers,     *)
(* emits instructions and patches branches.  A builder is a record, ok is  *)
(* FALSE once a call has thrown, and then nothing is published.            *)
(***************************************************************************)
EXTENDS Instructions

NewBuilder == [value |-> 0, address |-> 0, flag |-> 0, code |-> <<>>, ok |-> TRUE]

\* The next v value, a address and f flag registers.
Allocate(b, v, a, f) ==
  [b EXCEPT !.value = @ + v, !.address = @ + a, !.flag = @ + f,
            !.ok = @ /\ b.value + v <= RegisterCount /\ b.address + a <= RegisterCount
                     /\ b.flag + f <= RegisterCount]
Emit(b, instructions) == [b EXCEPT !.code = @ \o instructions]
Here(b) == Len(b.code)

MutPatchJump(b, at, target) == b
\* Program counters count from 0, so the branch at pc `at` is code[at + 1].
PatchJump(b, at, target) ==
  CASE at >= Here(b) -> [b EXCEPT !.ok = FALSE]
    [] OpcodeOf(b.code[at + 1]) = "JUMP" -> [b EXCEPT !.code[at + 1][3] = JumpTarget(target)]
    [] OpcodeOf(b.code[at + 1]) = "JUMPIF" -> [b EXCEPT !.code[at + 1][4] = JumpTarget(target)]
    [] OTHER -> [b EXCEPT !.ok = FALSE]

\* One field test of Filter: a failing object skips the APPEND.
Test(b, c, object, field, value, flag) ==
  [Emit(b, <<Plain("ATTRIBUTE", field, object, Imm(c.field)),
             Plain("LOAD", value, field, None),
             Using("COMPARE", c.comparison, flag, value, c.value),
             JumpIf(flag, 0, "FALSE")>>)
   EXCEPT !.ok = @ /\ c.field \in 1 .. Largest(AttributeBits)]

\* The collection of the members of container that satisfy all conditions, in V(first + 1).
Filter(b, container, conditions) ==
  LET input == V(b.value)
      output == V(b.value + 1)
      size == V(b.value + 2)
      index == V(b.value + 3)
      value == V(b.value + 4)
      object == A(b.address)
      field == A(b.address + 1)
      flag == F(b.flag)
      start == Emit(Allocate(b, 5, 2, 1),
                 <<Plain("ENUMERATE", input, container, None),
                   Plain("ENUMERATE", output, None, None),
                   Plain("LENGTH", size, input, None),
                   Plain("SET", index, Imm(0), None)>>)
      loop == Here(start)
      head == Emit(start, <<Using("COMPARE", "GREATER_EQUAL", flag, index, size),
                            JumpIf(flag, 0, "TRUE"),
                            Plain("AT", object, input, index)>>)
      tests == FoldLeft(LAMBDA to, c : Test(to, c, object, field, value, flag), head, conditions)
      body == Emit(tests, <<Plain("APPEND", output, object, None)>>)
      skips == FoldLeft(LAMBDA to, n : PatchJump(to, Here(head) + 4 * n - 1, Here(body)),
                        body, [n \in DOMAIN conditions |-> n])
      end == Emit(skips, <<Using("ALU", "ADD", index, index, Imm(1)), Jump(loop)>>)
  IN  PatchJump(end, loop + 1, Here(end))

MutDrawn(count, size) == Using("ALU", "MINIMUM", count, size, count)
\* How many cards are missing: size - count.
Drawn(count, size) == Using("ALU", "SUBTRACT", count, size, count)
\* Draws until the hand has size cards; the number actually drawn is left in V(first).
DrawToSize(b, hand, deck, size) ==
  LET count == V(b.value)
  IN  Emit(Allocate(b, 1, 0, 0),
        <<Plain("COUNT", count, hand, None),
          Drawn(count, size),
          Using("ALU", "MAXIMUM", count, count, Imm(0)),
          Using("MOVE", "DRAW", hand, deck, count),
          Plain("LOAD", count, Control(ResultCount), None)>>)

MutLimit(remaining, available) == Using("ALU", "MAXIMUM", remaining, remaining, available)
\* remaining := min(remaining, available), recomputed on every iteration.
Limit(remaining, available) == Using("ALU", "MINIMUM", remaining, remaining, available)
\* Moves count cards of source, drawn one by one, without repetition.
RandomMove(b, source, destination, count, method) ==
  LET remaining == V(b.value)
      available == V(b.value + 1)
      items == V(b.value + 2)
      index == V(b.value + 3)
      object == A(b.address)
      flag == F(b.flag)
      start == Emit(Allocate(b, 4, 1, 1), <<Plain("SET", remaining, count, None)>>)
      loop == Here(start)
      body == Emit(start,
                <<Plain("COUNT", available, source, None),
                  Limit(remaining, available),
                  Using("COMPARE", "LESS_EQUAL", flag, remaining, Imm(0)),
                  JumpIf(flag, 0, "TRUE"),
                  Plain("ENUMERATE", items, source, None),
                  Using("RANDOM", "RANDOM_CARD", index, None, available),
                  Plain("AT", object, items, index),
                  Using("MOVE", method, destination, object, None),
                  Plain("LOAD", available, Control(ResultCount), None),
                  Using("COMPARE", "EQUAL", flag, available, Imm(0)),
                  JumpIf(flag, 0, "TRUE"),
                  Using("ALU", "SUBTRACT", remaining, remaining, available),
                  Jump(loop)>>)
  IN  PatchJump(PatchJump(body, loop + 3, Here(body)), loop + 10, Here(body))

\* Subscribes to event what is emitted up to EndHandler: a CANCEL, then what the handler does.
OnceOnEvent(b, event) ==
  LET id == V(b.value)
  IN  Emit(Allocate(b, 1, 0, 0),
           <<Plain("SUBSCRIBE", id, JumpTarget(Here(b) + 2), event),
             Jump(0),
             Plain("CANCEL", None, id, None)>>)
\* Ends the handler that was registered at that pc; the program goes on behind it.
EndHandler(b, registration) ==
  LET end == Emit(b, <<Halt>>)
  IN  PatchJump(end, registration + 1, Here(end))

Finish(b) == LET done == Emit(b, <<Halt>>)
             IN  [code |-> done.code, ok |-> done.ok /\ ValidTrace(done.code)]
=============================================================================

----------------------------- MODULE Attributes -----------------------------
(***************************************************************************)
(* Numeric attributes, the modifiers on them, and the instructions that    *)
(* change them.                                                            *)
(*                                                                         *)
(* Storage holds a base value.  A read folds the modifiers of the          *)
(* attribute over it, in registration order; a write goes to the base.     *)
(* DAMAGE, GAIN_LP, PAY_LP, COUNTER and RESTRICT compute what they write   *)
(* from what they read.  A step is one instruction of any program; one     *)
(* that fails and writes nothing is a stuttering step.                     *)
(***************************************************************************)
EXTENDS Integers, FiniteSets

CONSTANTS
  Fields,    \* an attribute of an instance, wherever the instance is
  Lo, Hi,    \* kImmediateMin and kImmediateMax
  Values,    \* values that programs store and modify by, and the amounts that
  Amounts,   \* they change by (bounds: the code takes Lo..Hi, and 0..Hi)
  MaxId      \* kImmediateMax as the last modifier id

ASSUME AttributesAssumption ==
  /\ Lo \in Int /\ Hi \in Int
  /\ Lo <= 0 /\ 0 <= Hi
  /\ Values \subseteq Lo..Hi
  /\ Amounts \subseteq 0..Hi
  /\ MaxId \in Nat

Ids == 1..MaxId
NoNumber == Hi + 1   \* a word that is not an immediate, or no readable word

ModifierOps == {"ADD", "SET", "MULTIPLY", "DIVIDE"}
Entry == [field: Fields, operation: ModifierOps, value: Lo..Hi]

VARIABLES
  base,       \* the stored words
  next,       \* Modifiers::next_
  entries,    \* Modifiers::entries_, a map from ids
  ledger,     \* history: what the instructions that changed a field add up to
  modifiedBy  \* history: fields changed relative to a modified value

vars == <<base, next, entries, ledger, modifiedBy>>

-----------------------------------------------------------------------------
(* Reading.                                                                *)

MutFits(n) == TRUE
\* Arithmetic fails outside the 60-bit range.
Fits(n) == n \in Lo..Hi

Absolute(n) == IF n < 0 THEN -n ELSE n
\* Division truncates towards zero.
Quotient(a, b) ==
  LET q == Absolute(a) \div Absolute(b)
  IN IF (a < 0) = (b < 0) THEN q ELSE -q

Result(operation, a, b) ==
  CASE operation = "ADD" -> a + b
    [] operation = "SET" -> b
    [] operation = "MULTIPLY" -> a * b
    [] operation = "DIVIDE" -> Quotient(a, b)

\* One step of the fold; a failure is final.
Contribute(e, value) ==
  IF \/ value = NoNumber
     \/ e.operation = "DIVIDE" /\ e.value = 0
     \/ ~Fits(Result(e.operation, value, e.value))
  THEN NoNumber
  ELSE Result(e.operation, value, e.value)

On(f) == {id \in DOMAIN entries : entries[id].field = f}

\* Modifiers::Read of f, whose base value is b, with the modifiers E.
Fold(b, f, E) ==
  LET value[k \in 0..MaxId] ==
        IF k = 0 THEN b
        ELSE IF k \in DOMAIN E /\ E[k].field = f THEN Contribute(E[k], value[k - 1])
        ELSE value[k - 1]
  IN value[MaxId]

Read(f) == Fold(base[f], f, entries)
Readable(f) == Read(f) # NoNumber

-----------------------------------------------------------------------------
(* Modifiers.                                                              *)

\* Modifiers::Add and Modifiers::Remove on the map.
With(e) == [id \in DOMAIN entries \cup {next} |-> IF id = next THEN e ELSE entries[id]]
Without(id) == [other \in DOMAIN entries \ {id} |-> entries[other]]

MutTolerated(f, e) == TRUE
\* MODIFY keeps the modifier only if the attribute can still be read.
Tolerated(f, e) == Fold(base[f], f, With(e)) # NoNumber

\* A refused modifier is removed again, but its id is spent.
Modify(f, operation, v) ==
  LET e == [field |-> f, operation |-> operation, value |-> v]
  IN /\ Readable(f)
     /\ next <= MaxId
     /\ entries' = IF Tolerated(f, e) THEN With(e) ELSE entries
     /\ next' = next + 1
     /\ UNCHANGED <<base, ledger, modifiedBy>>

Unmodify(id) ==
  /\ id \in DOMAIN entries
  /\ entries' = Without(id)
  /\ UNCHANGED <<base, next, ledger, modifiedBy>>

-----------------------------------------------------------------------------
(* Writing.                                                                *)

\* The ledger saturates, which keeps it finite; it is exact while it is within
\* the range of the values it is compared with.
Saturated(n) == IF n > Hi THEN Hi ELSE IF n < Lo THEN Lo ELSE n

\* STORE, SET, COPY: any word.
Store(f, w) ==
  /\ base' = [base EXCEPT ![f] = w]
  /\ ledger' = [ledger EXCEPT ![f] = w]
  /\ modifiedBy' = modifiedBy \ {f}
  /\ UNCHANGED <<next, entries>>

\* The new base is the value read, plus change.
Update(f, change) ==
  /\ Fits(Read(f) + change)
  /\ base' = [base EXCEPT ![f] = Read(f) + change]
  /\ ledger' = [ledger EXCEPT ![f] = Saturated(@ + change)]
  /\ modifiedBy' = IF On(f) = {} THEN modifiedBy ELSE modifiedBy \cup {f}
  /\ UNCHANGED <<next, entries>>

Damage(f, amount) == Readable(f) /\ Update(f, -amount)
GainLp(f, amount) == Readable(f) /\ Update(f, amount)
PayLp(f, amount) == Readable(f) /\ Read(f) >= amount /\ Update(f, -amount)

\* COUNTER and RESTRICT refuse a negative count.
Countable(f) == Readable(f) /\ Read(f) >= 0

\* COUNTER PLACE, RESTRICT INCREMENT.
Place(f, amount) == Countable(f) /\ Update(f, amount)
\* COUNTER REMOVE, RESTRICT DECREMENT.
Remove(f, amount) == Countable(f) /\ amount <= Read(f) /\ Update(f, -amount)
\* COUNTER SET; RESTRICT APPLY and CLEAR, which do not look at the old value.
CounterSet(f, amount) == Countable(f) /\ Store(f, amount)
RestrictApply(f, amount) == Store(f, amount)

MutSameCounter(f, g) == FALSE
\* Both operands name the same attribute of the same instance.
SameCounter(f, g) == f = g

Transferable(to, from, amount) ==
  /\ Countable(to) /\ Countable(from)
  /\ amount <= Read(from)
  /\ Fits(Read(to) + amount)

\* Between one counter and itself nothing is written.
Transfer(to, from, amount) ==
  /\ Transferable(to, from, amount)
  /\ ~SameCounter(to, from)
  /\ base' = [[base EXCEPT ![from] = Read(from) - amount]
                   EXCEPT ![to] = Read(to) + amount]
  /\ ledger' = [f \in Fields |->
                  IF to = from THEN ledger[f]
                  ELSE IF f = to THEN Saturated(ledger[f] + amount)
                  ELSE IF f = from THEN Saturated(ledger[f] - amount)
                  ELSE ledger[f]]
  /\ modifiedBy' = modifiedBy \cup {f \in {to, from} : On(f) # {}}
  /\ UNCHANGED <<next, entries>>

\* The second storage write of a transfer fails: what left the source is lost.
TransferBreaks(to, from, amount) ==
  /\ Transferable(to, from, amount)
  /\ ~SameCounter(to, from)
  /\ Update(from, -amount)

Init ==
  /\ base = [f \in Fields |-> 0]
  /\ next = 1
  /\ entries = << >>
  /\ ledger = base
  /\ modifiedBy = {}

Next ==
  \/ \E f \in Fields :
       \/ \E operation \in ModifierOps, v \in Values : Modify(f, operation, v)
       \/ \E w \in Values \cup {NoNumber} : Store(f, w)
       \/ \E amount \in Amounts :
            \/ Damage(f, amount)
            \/ GainLp(f, amount)
            \/ PayLp(f, amount)
            \/ Place(f, amount)
            \/ Remove(f, amount)
            \/ CounterSet(f, amount)
            \/ RestrictApply(f, amount)
            \/ \E from \in Fields :
                 Transfer(f, from, amount) \/ TransferBreaks(f, from, amount)
  \/ \E id \in Ids : Unmodify(id)

Spec == Init /\ [][Next]_vars

-----------------------------------------------------------------------------
(* Properties.                                                             *)

\* The type invariant: in particular, what is stored as a number fits an
\* immediate, whatever the modifiers made of it before it was written.
TypeOK ==
  /\ base \in [Fields -> Lo..NoNumber]
  /\ next \in 1..(MaxId + 1)
  /\ DOMAIN entries \subseteq 1..(next - 1)
  /\ entries \in [DOMAIN entries -> Entry]
  /\ ledger \in [Fields -> Lo..NoNumber]
  /\ modifiedBy \subseteq Fields

\* As long as no instruction computed a field's new value from a modified one,
\* its base is what the instructions that changed it add up to: modifiers leave
\* no trace in it, and transfers neither create nor lose a counter, also from a
\* counter to itself, unless a storage write fails.
BaseMatchesLedger ==
  \A f \in Fields \ modifiedBy : base[f] = ledger[f]

\* A field that can be read stays so until its base is written or one of its
\* modifiers is removed: no MODIFY makes it unreadable, of this field or another.
ReadableUntilChanged ==
  [][\A f \in Fields :
       Readable(f) /\ base'[f] = base[f] /\ On(f) \subseteq DOMAIN entries' => Readable(f)']_vars

\* Modifiers.hpp: "Base values remain in StateAccess.  Removing a modifier
\* removes only that contribution": a field without modifiers is what the
\* instructions that changed it add up to.
ContributionsLeaveNoTrace ==
  \A f \in Fields : On(f) = {} => base[f] = ledger[f]
=============================================================================

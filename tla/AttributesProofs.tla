------------------------- MODULE AttributesProofs -------------------------
(***************************************************************************)
(* Attributes, for any fields, widths and modifiers.                       *)
(***************************************************************************)
EXTENDS Attributes, FiniteInduction, TLAPS

USE AttributesAssumption DEF Ids

-----------------------------------------------------------------------------
(* The fold.                                                               *)

\* v is what the fold computes for the first n ids.
Folded(n, b, f, E, v) ==
  v = [k \in 0..n |->
         IF k = 0 THEN b
         ELSE IF k \in DOMAIN E /\ E[k].field = f THEN Contribute(E[k], v[k - 1])
         ELSE v[k - 1]]

\* There is such a v, for any number of ids.
LEMMA FoldedExists ==
  ASSUME NEW N \in Nat, NEW b, NEW f, NEW E
  PROVE  \E v : Folded(N, b, f, E, v)
<1> DEFINE P == {n \in 0..N : \E v : Folded(n, b, f, E, v)}
<1>1. 0 \in P
  <2> DEFINE v == [k \in 0..0 |-> b]
  <2>1. Folded(0, b, f, E, v)
    BY DEF Folded
  <2> QED
    BY <2>1
<1>2. ASSUME NEW n \in 1..N, n - 1 \in P PROVE n \in P
  <2>1. PICK v : Folded(n - 1, b, f, E, v)
    BY <1>2
  <2> DEFINE last == IF n \in DOMAIN E /\ E[n].field = f THEN Contribute(E[n], v[n - 1])
                     ELSE v[n - 1]
             w == [k \in 0..n |-> IF k = n THEN last ELSE v[k]]
             step(k) == IF k = 0 THEN b
                        ELSE IF k \in DOMAIN E /\ E[k].field = f THEN Contribute(E[k], w[k - 1])
                        ELSE w[k - 1]
  <2>2. ASSUME NEW k \in 0..n PROVE w[k] = step(k)
    <3>1. CASE k = n
      <4>1. k # 0 /\ k - 1 \in 0..n /\ k - 1 # n
        BY <3>1
      <4>2. w[k - 1] = v[n - 1] /\ w[k] = last
        BY <3>1, <4>1
      <4> QED
        BY <3>1, <4>1, <4>2
    <3>2. CASE k # n
      <4>1. k \in 0..n - 1 /\ w[k] = v[k]
        BY <3>2
      <4>2. k # 0 => k - 1 \in 0..n /\ k - 1 # n
        BY <3>2
      <4>3. k # 0 => w[k - 1] = v[k - 1]
        BY <4>2
      <4>4. v[k] = IF k = 0 THEN b
                   ELSE IF k \in DOMAIN E /\ E[k].field = f THEN Contribute(E[k], v[k - 1])
                   ELSE v[k - 1]
        BY <2>1, <4>1 DEF Folded
      <4> QED
        BY <4>1, <4>3, <4>4
    <3> QED
      BY <3>1, <3>2
  <2>3. w = [k \in 0..n |-> step(k)]
    BY <2>2
  <2>4. Folded(n, b, f, E, w)
    BY <2>3 DEF Folded
  <2> QED
    BY <2>4
<1>3. 0..N \subseteq P
  <2> HIDE DEF P
  <2> QED
    BY <1>1, <1>2, Induction
<1> QED
  BY <1>3

\* Fold is the last value of one.
LEMMA FoldIs ==
  ASSUME NEW b, NEW f, NEW E
  PROVE  \E v : Folded(MaxId, b, f, E, v) /\ Fold(b, f, E) = v[MaxId]
<1> DEFINE value == CHOOSE v : Folded(MaxId, b, f, E, v)
<1>1. Folded(MaxId, b, f, E, value)
  BY FoldedExists, Zenon
<1>2. Fold(b, f, E) = value[MaxId]
  BY Zenon DEF Fold, Folded
<1> QED
  BY <1>1, <1>2

\* Each value comes from the one before.
LEMMA FoldStep ==
  ASSUME NEW b, NEW f, NEW E, NEW v, Folded(MaxId, b, f, E, v)
  PROVE  /\ v[0] = b
         /\ \A k \in 1..MaxId :
              v[k] = IF k \in DOMAIN E /\ E[k].field = f THEN Contribute(E[k], v[k - 1]) ELSE v[k - 1]
<1>1. \A k \in 0..MaxId :
        v[k] = IF k = 0 THEN b
               ELSE IF k \in DOMAIN E /\ E[k].field = f THEN Contribute(E[k], v[k - 1]) ELSE v[k - 1]
  BY DEF Folded
<1> QED
  BY <1>1

\* Two collections that modify f alike.
Alike(f, E, F) ==
  \A id \in Ids :
    /\ id \in DOMAIN E /\ E[id].field = f <=> id \in DOMAIN F /\ F[id].field = f
    /\ id \in DOMAIN E /\ E[id].field = f => E[id] = F[id]

\* The fold looks at the modifiers of f only.
LEMMA FoldAlike ==
  ASSUME NEW b, NEW f, NEW E, NEW F, Alike(f, E, F)
  PROVE  Fold(b, f, E) = Fold(b, f, F)
<1>1. PICK v : Folded(MaxId, b, f, E, v) /\ Fold(b, f, E) = v[MaxId]
  BY FoldIs
<1>2. PICK w : Folded(MaxId, b, f, F, w) /\ Fold(b, f, F) = w[MaxId]
  BY FoldIs
<1> DEFINE P == {k \in 0..MaxId : v[k] = w[k]}
<1>3. 0 \in P
  BY <1>1, <1>2, FoldStep
<1>4. ASSUME NEW k \in 1..MaxId, k - 1 \in P PROVE k \in P
  <2>1. v[k] = IF k \in DOMAIN E /\ E[k].field = f THEN Contribute(E[k], v[k - 1]) ELSE v[k - 1]
    BY <1>1, FoldStep
  <2>2. w[k] = IF k \in DOMAIN F /\ F[k].field = f THEN Contribute(F[k], w[k - 1]) ELSE w[k - 1]
    BY <1>2, FoldStep
  <2>3. v[k - 1] = w[k - 1]
    BY <1>4
  <2> QED
    BY <2>1, <2>2, <2>3 DEF Alike
<1>5. 0..MaxId \subseteq P
  <2> HIDE DEF P
  <2> QED
    BY <1>3, <1>4, Induction
<1> QED
  BY <1>1, <1>2, <1>5

\* Without modifiers a read answers the base value.
LEMMA FoldOfNone ==
  ASSUME NEW b, NEW f, NEW E, \A id \in Ids : ~(id \in DOMAIN E /\ E[id].field = f)
  PROVE  Fold(b, f, E) = b
<1>1. PICK v : Folded(MaxId, b, f, E, v) /\ Fold(b, f, E) = v[MaxId]
  BY FoldIs
<1> DEFINE P == {k \in 0..MaxId : v[k] = b}
<1>2. 0 \in P
  BY <1>1, FoldStep
<1>3. ASSUME NEW k \in 1..MaxId, k - 1 \in P PROVE k \in P
  <2>1. v[k] = v[k - 1]
    BY <1>1, FoldStep
  <2> QED
    BY <1>3, <2>1
<1>4. 0..MaxId \subseteq P
  <2> HIDE DEF P
  <2> QED
    BY <1>2, <1>3, Induction
<1> QED
  BY <1>1, <1>4

\* A contribution is a number that fits or no number.
LEMMA ContributeFits ==
  ASSUME NEW e, NEW value
  PROVE  Contribute(e, value) \in Lo..NoNumber
<1>1. NoNumber \in Lo..NoNumber
  BY DEF NoNumber
<1>2. Lo..Hi \subseteq Lo..NoNumber
  BY DEF NoNumber
<1> QED
  BY <1>1, <1>2, Zenon DEF Contribute, Fits

\* So is what a read answers.
LEMMA FoldFits ==
  ASSUME NEW b \in Lo..NoNumber, NEW f, NEW E
  PROVE  Fold(b, f, E) \in Lo..NoNumber
<1>1. PICK v : Folded(MaxId, b, f, E, v) /\ Fold(b, f, E) = v[MaxId]
  BY FoldIs
<1> DEFINE P == {k \in 0..MaxId : v[k] \in Lo..NoNumber}
<1>2. 0 \in P
  BY <1>1, FoldStep
<1>3. ASSUME NEW k \in 1..MaxId, k - 1 \in P PROVE k \in P
  BY <1>1, <1>3, FoldStep, ContributeFits
<1>4. 0..MaxId \subseteq P
  <2> HIDE DEF P
  <2> QED
    BY <1>2, <1>3, Induction
<1> QED
  BY <1>1, <1>4

-----------------------------------------------------------------------------
(* Steps.                                                                  *)

IInv == TypeOK /\ BaseMatchesLedger

\* What is read of an attribute.
LEMMA Reads ==
  ASSUME TypeOK, NEW f \in Fields
  PROVE  /\ Read(f) \in Lo..NoNumber
         /\ Readable(f) => Read(f) \in Lo..Hi
         /\ On(f) = {} => Read(f) = base[f]
<1>1. Read(f) \in Lo..NoNumber
  BY FoldFits DEF TypeOK, Read
<1>2. Readable(f) => Read(f) \in Lo..Hi
  BY <1>1 DEF Readable, NoNumber
<1>3. On(f) = {} => Read(f) = base[f]
  BY FoldOfNone DEF On, Read
<1> QED
  BY <1>1, <1>2, <1>3

\* The ledger saturates at the limits of the values it is compared with.
LEMMA Saturates ==
  ASSUME NEW n \in Int
  PROVE  Saturated(n) \in Lo..NoNumber /\ (n \in Lo..Hi => Saturated(n) = n)
BY DEF Saturated, NoNumber

\* What the types say of an attribute.
LEMMA Shapes ==
  ASSUME TypeOK
  PROVE  /\ base \in [Fields -> Lo..NoNumber] /\ ledger \in [Fields -> Lo..NoNumber]
         /\ Lo..Hi \subseteq Lo..NoNumber /\ NoNumber \in Lo..NoNumber /\ NoNumber \in Int
BY DEF TypeOK, NoNumber

\* A step that leaves the modifiers alone.
LEMMA WriteTypes ==
  ASSUME TypeOK, UNCHANGED <<next, entries>>,
         base' \in [Fields -> Lo..NoNumber], ledger' \in [Fields -> Lo..NoNumber],
         modifiedBy' \subseteq Fields
  PROVE  TypeOK'
BY DEF TypeOK

\* STORE, SET, COPY and what writes an amount.
LEMMA StoreIInv ==
  ASSUME IInv, NEW f \in Fields, NEW w \in Lo..NoNumber, Store(f, w)
  PROVE  IInv'
<1>1. /\ base' = [base EXCEPT ![f] = w] /\ ledger' = [ledger EXCEPT ![f] = w]
      /\ modifiedBy' = modifiedBy \ {f} /\ UNCHANGED <<next, entries>>
  BY DEF Store
<1>2. TypeOK /\ modifiedBy \subseteq Fields
  BY DEF IInv, TypeOK
<1>3. base' \in [Fields -> Lo..NoNumber] /\ ledger' \in [Fields -> Lo..NoNumber]
  BY <1>1, <1>2, Shapes
<1>4. TypeOK'
  BY <1>1, <1>2, <1>3, WriteTypes
<1>5. BaseMatchesLedger'
  BY <1>1, <1>2, Shapes DEF IInv, BaseMatchesLedger
<1> QED
  BY <1>4, <1>5 DEF IInv

\* What changes a field by an amount.
LEMMA UpdateIInv ==
  ASSUME IInv, NEW f \in Fields, NEW change \in Int, Readable(f), Update(f, change)
  PROVE  IInv'
<1> DEFINE new == Read(f) + change
<1>1. /\ new \in Lo..Hi /\ base' = [base EXCEPT ![f] = new]
      /\ ledger' = [ledger EXCEPT ![f] = Saturated(@ + change)]
      /\ modifiedBy' = IF On(f) = {} THEN modifiedBy ELSE modifiedBy \cup {f}
      /\ UNCHANGED <<next, entries>>
  BY DEF Update, Fits
<1>2. TypeOK /\ modifiedBy \subseteq Fields /\ ledger[f] \in Int
  BY Shapes DEF IInv, TypeOK
<1>3. Saturated(ledger[f] + change) \in Lo..NoNumber
  BY <1>2, Saturates
<1> HIDE DEF new
<1>4. base' \in [Fields -> Lo..NoNumber] /\ ledger' \in [Fields -> Lo..NoNumber]
  BY <1>1, <1>2, <1>3, Shapes
<1>5. TypeOK'
  BY <1>1, <1>2, <1>4, WriteTypes
<1>6. ASSUME NEW g \in Fields \ modifiedBy' PROVE base'[g] = ledger'[g]
  <2>1. g \notin modifiedBy /\ base[g] = ledger[g]
    BY <1>1, <1>6 DEF IInv, BaseMatchesLedger
  <2>2. CASE g # f
    BY <2>1, <2>2, <1>1, <1>2, Shapes
  <2>3. CASE g = f
    <3>1. On(f) = {}
      BY <2>3, <1>1, <1>6
    <3>2. new = ledger[f] + change
      BY <2>1, <2>3, <3>1, <1>2, Reads DEF new
    <3>3. Saturated(ledger[f] + change) = new
      BY <3>2, <1>1, <1>2, Saturates
    <3> QED
      BY <2>3, <3>3, <1>1, <1>2, Shapes
  <2> QED
    BY <2>2, <2>3
<1> QED
  BY <1>5, <1>6 DEF IInv, BaseMatchesLedger

\* COUNTER TRANSFER.
LEMMA TransferIInv ==
  ASSUME IInv, NEW to \in Fields, NEW from \in Fields, NEW amount \in 0..Hi,
         Transfer(to, from, amount)
  PROVE  IInv'
<1> DEFINE taken == Read(from) - amount
           given == Read(to) + amount
<1>1. TypeOK /\ modifiedBy \subseteq Fields /\ ledger[to] \in Int /\ ledger[from] \in Int
  BY Shapes DEF IInv, TypeOK
<1>2. /\ Readable(from) /\ Read(from) >= 0 /\ amount <= Read(from) /\ given \in Lo..Hi
      /\ to # from
  BY DEF Transfer, Transferable, Countable, Fits, SameCounter
<1>3. taken \in Lo..Hi
  BY <1>1, <1>2, Reads
<1>4. /\ base' = [[base EXCEPT ![from] = taken] EXCEPT ![to] = given]
      /\ ledger' = [f \in Fields |->
                      IF f = to THEN Saturated(ledger[f] + amount)
                      ELSE IF f = from THEN Saturated(ledger[f] - amount)
                      ELSE ledger[f]]
      /\ modifiedBy' = modifiedBy \cup {f \in {to, from} : On(f) # {}}
      /\ UNCHANGED <<next, entries>>
  BY <1>2, Zenon DEF Transfer
<1>5. Saturated(ledger[to] + amount) \in Lo..NoNumber /\ Saturated(ledger[from] - amount) \in Lo..NoNumber
  BY <1>1, Saturates
<1>6. /\ On(to) = {} => given = base[to] + amount
      /\ On(from) = {} => taken = base[from] - amount
  BY <1>1, Reads
<1> HIDE DEF taken, given
<1>7. base' \in [Fields -> Lo..NoNumber] /\ ledger' \in [Fields -> Lo..NoNumber]
  BY <1>1, <1>2, <1>3, <1>4, <1>5, Shapes
<1>8. TypeOK'
  BY <1>1, <1>4, <1>7, WriteTypes
<1>9. ASSUME NEW g \in Fields \ modifiedBy' PROVE base'[g] = ledger'[g]
  <2>1. g \notin modifiedBy /\ base[g] = ledger[g]
    BY <1>4, <1>9 DEF IInv, BaseMatchesLedger
  <2>2. CASE g # to /\ g # from
    BY <2>1, <2>2, <1>1, <1>4, Shapes
  <2>3. CASE g = to
    <3>1. given = ledger[to] + amount
      BY <2>1, <2>3, <1>4, <1>6, <1>9
    <3>2. Saturated(ledger[to] + amount) = given
      BY <3>1, <1>1, <1>2, Saturates
    <3> QED
      BY <2>3, <3>2, <1>1, <1>4, Shapes
  <2>4. CASE g = from
    <3>1. taken = ledger[from] - amount
      BY <2>1, <2>4, <1>4, <1>6, <1>9
    <3>2. Saturated(ledger[from] - amount) = taken
      BY <3>1, <1>1, <1>3, Saturates
    <3> QED
      BY <2>4, <3>2, <1>1, <1>2, <1>4, Shapes
  <2> QED
    BY <2>2, <2>3, <2>4
<1> QED
  BY <1>8, <1>9 DEF IInv, BaseMatchesLedger

\* MODIFY and UNMODIFY leave what is stored alone.
LEMMA ModifyIInv ==
  ASSUME IInv, NEW f \in Fields, NEW operation \in ModifierOps, NEW v \in Lo..Hi,
         Modify(f, operation, v)
  PROVE  IInv'
<1> DEFINE e == [field |-> f, operation |-> operation, value |-> v]
<1>1. /\ next <= MaxId /\ next' = next + 1 /\ UNCHANGED <<base, ledger, modifiedBy>>
      /\ entries' = IF Tolerated(f, e) THEN With(e) ELSE entries
  BY DEF Modify
<1>2. /\ next \in 1..MaxId + 1 /\ DOMAIN entries \subseteq 1..next - 1
      /\ entries \in [DOMAIN entries -> Entry]
  BY DEF IInv, TypeOK
<1>3. e \in Entry
  BY DEF Entry
<1> HIDE DEF e
<1>4. /\ DOMAIN With(e) = DOMAIN entries \cup {next}
      /\ With(e) \in [DOMAIN entries \cup {next} -> Entry]
  BY <1>2, <1>3 DEF With
<1>5. DOMAIN entries' \subseteq 1..next' - 1 /\ entries' \in [DOMAIN entries' -> Entry]
  BY <1>1, <1>2, <1>4
<1>6. next' \in 1..MaxId + 1
  BY <1>1, <1>2
<1> QED
  BY <1>1, <1>5, <1>6 DEF IInv, TypeOK, BaseMatchesLedger

\* UNMODIFY.
LEMMA UnmodifyIInv ==
  ASSUME IInv, NEW id, Unmodify(id)
  PROVE  IInv'
<1>1. entries' = Without(id) /\ UNCHANGED <<base, next, ledger, modifiedBy>>
  BY DEF Unmodify
<1>2. DOMAIN entries' \subseteq DOMAIN entries /\ entries' \in [DOMAIN entries' -> Entry]
  BY <1>1 DEF Without, IInv, TypeOK
<1> QED
  BY <1>1, <1>2 DEF IInv, TypeOK, BaseMatchesLedger

\* Every step keeps the invariant.
LEMMA NextIInv ==
  ASSUME IInv, [Next]_vars
  PROVE  IInv'
<1>1. ASSUME NEW f \in Fields, NEW operation \in ModifierOps, NEW v \in Values,
             Modify(f, operation, v)
      PROVE  IInv'
  BY <1>1, ModifyIInv
<1>2. ASSUME NEW f \in Fields, NEW w \in Values \cup {NoNumber}, Store(f, w)
      PROVE  IInv'
  BY <1>2, StoreIInv DEF NoNumber
<1>3. ASSUME NEW f \in Fields, NEW amount \in Amounts,
             \/ Damage(f, amount) \/ GainLp(f, amount) \/ PayLp(f, amount)
             \/ Place(f, amount) \/ Remove(f, amount)
      PROVE  IInv'
  <2>1. Readable(f) /\ (Update(f, amount) \/ Update(f, -amount)) /\ amount \in Int /\ -amount \in Int
    BY <1>3 DEF Damage, GainLp, PayLp, Place, Remove, Countable
  <2> QED
    BY <2>1, UpdateIInv
<1>4. ASSUME NEW f \in Fields, NEW amount \in Amounts,
             CounterSet(f, amount) \/ RestrictApply(f, amount)
      PROVE  IInv'
  <2>1. Store(f, amount) /\ amount \in Lo..NoNumber
    BY <1>4 DEF CounterSet, RestrictApply, NoNumber
  <2> QED
    BY <2>1, StoreIInv
<1>5. ASSUME NEW f \in Fields, NEW from \in Fields, NEW amount \in Amounts, Transfer(f, from, amount)
      PROVE  IInv'
  BY <1>5, TransferIInv
<1>6. ASSUME NEW f \in Fields, NEW from \in Fields, NEW amount \in Amounts,
             TransferBreaks(f, from, amount)
      PROVE  IInv'
  <2>1. Readable(from) /\ Update(from, -amount) /\ -amount \in Int
    BY <1>6 DEF TransferBreaks, Transferable, Countable
  <2> QED
    BY <2>1, UpdateIInv
<1>7. ASSUME NEW id \in Ids, Unmodify(id) PROVE IInv'
  BY <1>7, UnmodifyIInv
<1>8. CASE UNCHANGED vars
  BY <1>8 DEF vars, IInv, TypeOK, BaseMatchesLedger
<1> QED
  BY <1>1, <1>2, <1>3, <1>4, <1>5, <1>6, <1>7, <1>8 DEF Next

\* Nothing is stored and nothing is modified at first.
LEMMA InitIInv == Init => IInv
<1> SUFFICES ASSUME Init PROVE IInv
  OBVIOUS
<1>1. base = [f \in Fields |-> 0] /\ next = 1 /\ entries = << >> /\ ledger = base /\ modifiedBy = {}
  BY DEF Init
<1>2. 0 \in Lo..NoNumber
  BY DEF NoNumber
<1>3. DOMAIN entries = {}
  BY <1>1
<1>4. entries \in [DOMAIN entries -> Entry]
  BY <1>1
<1> QED
  BY <1>1, <1>2, <1>3, <1>4 DEF IInv, TypeOK, BaseMatchesLedger

-----------------------------------------------------------------------------
(* Reading across a step.                                                  *)

StaysReadable(f) ==
  Readable(f) /\ base'[f] = base[f] /\ On(f) \subseteq DOMAIN entries' => Readable(f)'

\* What reads a field sees nothing but its base and its modifiers.
LEMMA AlikeReads ==
  ASSUME NEW f \in Fields, Alike(f, entries, entries')
  PROVE  StaysReadable(f)
<1> SUFFICES ASSUME Readable(f), base'[f] = base[f] PROVE Readable(f)'
  BY DEF StaysReadable
<1>1. Fold(base[f], f, entries) # NoNumber
  BY DEF Readable, Read
<1>2. Fold(base'[f], f, entries') # NoNumber
  BY <1>1, FoldAlike
<1> QED
  BY <1>2 DEF Readable, Read, NoNumber

\* A write leaves the modifiers as they are.
LEMMA WriteReads ==
  ASSUME NEW f \in Fields, entries' = entries
  PROVE  StaysReadable(f)
<1>1. Alike(f, entries, entries')
  BY DEF Alike
<1> QED
  BY <1>1, AlikeReads

\* MODIFY tries a modifier of its own field and touches no other.
LEMMA ModifyReads ==
  ASSUME TypeOK, NEW g \in Fields, NEW operation \in ModifierOps, NEW v \in Lo..Hi,
         Modify(g, operation, v), NEW f \in Fields
  PROVE  StaysReadable(f)
<1> DEFINE e == [field |-> g, operation |-> operation, value |-> v]
<1>1. entries' = IF Tolerated(g, e) THEN With(e) ELSE entries
  BY DEF Modify
<1>2. e.field = g /\ next \notin DOMAIN entries
  BY DEF TypeOK
<1> HIDE DEF e
<1>3. CASE ~Tolerated(g, e)
  BY <1>1, <1>3, WriteReads
<1>4. CASE Tolerated(g, e) /\ f = g
  <2> SUFFICES ASSUME base'[f] = base[f] PROVE Readable(f)'
    BY DEF StaysReadable
  <2>1. Fold(base'[f], f, entries') # NoNumber
    BY <1>1, <1>4 DEF Tolerated
  <2> QED
    BY <2>1 DEF Readable, Read, NoNumber
<1>5. CASE Tolerated(g, e) /\ f # g
  <2>1. DOMAIN With(e) = DOMAIN entries \cup {next}
    BY DEF With
  <2>2. With(e)[next] = e /\ \A id \in DOMAIN entries : With(e)[id] = entries[id]
    BY <1>2 DEF With
  <2>3. Alike(f, entries, With(e))
    BY <2>1, <2>2, <1>2, <1>5 DEF Alike
  <2> QED
    BY <2>3, <1>1, <1>5, AlikeReads
<1> QED
  BY <1>3, <1>4, <1>5

\* UNMODIFY of a modifier of another field.
LEMMA UnmodifyReads ==
  ASSUME NEW id, Unmodify(id), NEW f \in Fields
  PROVE  StaysReadable(f)
<1> SUFFICES ASSUME On(f) \subseteq DOMAIN entries' PROVE StaysReadable(f)
  BY DEF StaysReadable
<1>1. /\ DOMAIN entries' = DOMAIN entries \ {id}
      /\ \A other \in DOMAIN entries \ {id} : entries'[other] = entries[other]
  BY DEF Unmodify, Without
<1>2. \A other \in DOMAIN entries : entries[other].field = f => other \in DOMAIN entries'
  BY DEF On
<1>3. Alike(f, entries, entries')
  BY <1>1, <1>2 DEF Alike
<1> QED
  BY <1>3, AlikeReads

\* So does every step.
LEMMA NextReads ==
  ASSUME TypeOK, [Next]_vars, NEW f \in Fields
  PROVE  StaysReadable(f)
<1>1. CASE entries' = entries
  BY <1>1, WriteReads
<1>2. ASSUME NEW g \in Fields, NEW operation \in ModifierOps, NEW v \in Values,
             Modify(g, operation, v)
      PROVE  StaysReadable(f)
  BY <1>2, ModifyReads
<1>3. ASSUME NEW id \in Ids, Unmodify(id) PROVE StaysReadable(f)
  BY <1>3, UnmodifyReads
<1>4. ASSUME NEW g \in Fields, NEW w, Store(g, w) PROVE entries' = entries
  BY <1>4 DEF Store
<1>5. ASSUME NEW g \in Fields, NEW change, Update(g, change) PROVE entries' = entries
  BY <1>5 DEF Update
<1>6. ASSUME NEW g \in Fields, NEW amount \in Amounts,
             \/ Damage(g, amount) \/ GainLp(g, amount) \/ PayLp(g, amount)
             \/ Place(g, amount) \/ Remove(g, amount)
             \/ CounterSet(g, amount) \/ RestrictApply(g, amount)
      PROVE  entries' = entries
  BY <1>4, <1>5, <1>6 DEF Damage, GainLp, PayLp, Place, Remove, CounterSet, RestrictApply
<1>7. ASSUME NEW g \in Fields, NEW from \in Fields, NEW amount \in Amounts,
             Transfer(g, from, amount) \/ TransferBreaks(g, from, amount)
      PROVE  entries' = entries
  BY <1>5, <1>7 DEF Transfer, TransferBreaks
<1>8. CASE UNCHANGED vars
  BY <1>1, <1>8 DEF vars
<1> QED
  BY <1>1, <1>2, <1>3, <1>4, <1>6, <1>7, <1>8 DEF Next

-----------------------------------------------------------------------------
(* Theorems.                                                               *)

\* The invariant holds.
THEOREM Invariance == Spec => []IInv
<1>1. Init => IInv
  BY InitIInv
<1>2. IInv /\ [Next]_vars => IInv'
  BY NextIInv
<1> QED
  BY <1>1, <1>2, PTL DEF Spec

\* The type invariant: whatever is stored as a number fits an immediate.
THEOREM TypeCorrect == Spec => []TypeOK
<1>1. IInv => TypeOK
  BY DEF IInv
<1> QED
  BY <1>1, Invariance, PTL

\* The base of an attribute is what the instructions that changed it add up to,
\* unless one of them computed it from a modified value.
THEOREM ModifiersLeaveNoTrace == Spec => []BaseMatchesLedger
<1>1. IInv => BaseMatchesLedger
  BY DEF IInv
<1> QED
  BY <1>1, Invariance, PTL

\* No MODIFY makes a field unreadable, of its own or another: a field that can be
\* read stays so until its base is written or one of its modifiers is removed.
THEOREM NoReadIsBlocked == Spec => ReadableUntilChanged
<1>1. TypeOK /\ [Next]_vars
      => [\A f \in Fields :
            Readable(f) /\ base'[f] = base[f] /\ On(f) \subseteq DOMAIN entries' => Readable(f)']_vars
  BY NextReads DEF StaysReadable
<1> QED
  BY <1>1, TypeCorrect, PTL DEF Spec, ReadableUntilChanged
=============================================================================

-------------------------- MODULE AssemblerProofs --------------------------
(***************************************************************************)
(* Words, traces and the assembler, for every width of the words: what is  *)
(* published is valid, and survives its listing and its binary form.       *)
(***************************************************************************)
EXTENDS Assembler, FiniteInduction, FiniteSetTheorems, SequenceTheorems, TLAPS

-----------------------------------------------------------------------------
(* Sequences.                                                              *)

\* Any sequence is one of its own elements.
LEMMA OwnElements ==
  ASSUME NEW Elements, NEW s \in Seq(Elements)
  PROVE  s \in Seq(ToSet(s)) /\ ToSet(s) \subseteq Elements
<1>1. s \in [1 .. Len(s) -> Elements] /\ Len(s) \in Nat /\ DOMAIN s = 1 .. Len(s)
  BY LenProperties
<1>2. s \in [1 .. Len(s) -> ToSet(s)]
  BY <1>1 DEF ToSet
<1>3. s \in Seq(ToSet(s))
  BY <1>1, <1>2, SeqDef
<1> QED
  BY <1>1, <1>3 DEF ToSet

\* What is concatenated has the elements of both.
LEMMA ConcatElements ==
  ASSUME NEW s, s \in Seq(ToSet(s)), NEW t, t \in Seq(ToSet(t))
  PROVE  /\ s \o t \in Seq(ToSet(s \o t))
         /\ ToSet(s \o t) \subseteq ToSet(s) \cup ToSet(t)
<1> DEFINE Elements == ToSet(s) \cup ToSet(t)
<1>1. s \in Seq(Elements) /\ t \in Seq(Elements)
  BY SeqMonotonic
<1>2. s \o t \in Seq(Elements)
  BY <1>1, ConcatProperties
<1> QED
  BY <1>2, OwnElements

\* What has a property in common keeps it when more is appended.
LEMMA AppendElements ==
  ASSUME NEW s, s \in Seq(ToSet(s)), NEW x
  PROVE  Append(s, x) \in Seq(ToSet(Append(s, x))) /\ ToSet(Append(s, x)) \subseteq ToSet(s) \cup {x}
<1> DEFINE Elements == ToSet(s) \cup {x}
<1>1. s \in Seq(Elements)
  BY SeqMonotonic
<1>2. Append(s, x) \in Seq(Elements)
  BY <1>1, AppendProperties
<1> HIDE DEF Elements
<1>3. Append(s, x) \in Seq(ToSet(Append(s, x))) /\ ToSet(Append(s, x)) \subseteq Elements
  BY <1>2, OwnElements
<1> QED
  BY <1>3 DEF Elements

-----------------------------------------------------------------------------
(* Folds over the lines of a source.  The provers cannot instantiate an    *)
(* operator, so a fold is a record that names the one it folds.            *)

\* A nonempty set of numbers up to n has a greatest one.
LEMMA MaxIs ==
  ASSUME NEW n \in Nat, NEW s \in SUBSET (1 .. n), s # {}
  PROVE  Max(s) \in s /\ \A x \in s : x <= Max(s)
<1> DEFINE T == {n - x : x \in s}
<1>1. T \in SUBSET Nat /\ T # {}
  <2>1. \A x \in s : n - x \in Nat
    OBVIOUS
  <2> QED
    BY <2>1
<1>2. PICK m \in T : \A x \in T : m <= x
  BY <1>1, Least
<1>3. PICK y \in s : m = n - y
  BY <1>2
<1>4. \A x \in s : n - y <= n - x
  BY <1>2, <1>3
<1>5. \A x \in s : y >= x
  BY <1>4
<1>6. \E y1 \in s : \A x \in s : y1 >= x
  BY <1>5
<1>7. Max(s) \in s /\ \A x \in s : Max(s) >= x
  BY <1>6, Zenon DEF Max
<1>8. \A x \in s : x \in Int
  OBVIOUS
<1> QED
  BY <1>7, <1>8

Apply(fold, value, n) ==
  CASE fold.of = "Scan" -> Scan(value, n, fold.source[n])
    [] fold.of = "Add" -> Add(value, fold.source[n], Translate(fold.source[n].text, fold.pass))
    [] fold.of = "Collect" -> Collect(value, n, fold.source[n], fold.symbols)

\* The table that a fold over n lines fills: the value after the lines of each set.
Folded(n, fold, v) ==
  v = [s \in SUBSET (1 .. n) |->
         IF s = {} THEN fold.start ELSE Apply(fold, v[s \ {Max(s)}], Max(s))]

\* There is such a table, for any number of steps.
LEMMA FoldedExists ==
  ASSUME NEW N \in Nat, NEW fold
  PROVE  \E v : Folded(N, fold, v)
<1> DEFINE P == {n \in 0 .. N : \E v : Folded(n, fold, v)}
<1>1. 0 \in P
  <2> DEFINE v == [s \in SUBSET (1 .. 0) |-> fold.start]
  <2>1. Folded(0, fold, v)
    BY DEF Folded
  <2> QED
    BY <2>1
<1>2. ASSUME NEW n \in 1 .. N, n - 1 \in P PROVE n \in P
  <2>1. PICK v : Folded(n - 1, fold, v)
    BY <1>2
  <2> DEFINE w == [s \in SUBSET (1 .. n) |->
                     IF n \in s THEN Apply(fold, v[s \ {n}], n) ELSE v[s]]
             step(s) == IF s = {} THEN fold.start
                        ELSE Apply(fold, w[s \ {Max(s)}], Max(s))
  <2>2. ASSUME NEW s \in SUBSET (1 .. n) PROVE w[s] = step(s)
    <3>1. CASE n \in s
      <4>1. Max(s) = n
        <5>1. n \in Nat /\ s # {}
          BY <3>1
        <5>2. Max(s) \in s /\ n <= Max(s)
          BY <3>1, <5>1, MaxIs
        <5>3. Max(s) \in 1 .. n
          BY <5>2
        <5> QED
          BY <5>2, <5>3
      <4>2. s \ {n} \in SUBSET (1 .. n) /\ n \notin s \ {n} /\ s # {}
        BY <3>1
      <4>3. w[s \ {n}] = v[s \ {n}]
        BY <4>2
      <4> QED
        BY <3>1, <4>1, <4>2, <4>3
    <3>2. CASE n \notin s
      <4>1. s \in SUBSET (1 .. n - 1) /\ w[s] = v[s]
        BY <3>2
      <4>2. v[s] = IF s = {} THEN fold.start ELSE Apply(fold, v[s \ {Max(s)}], Max(s))
        BY <2>1, <4>1 DEF Folded
      <4>3. w[s \ {Max(s)}] = v[s \ {Max(s)}]
        BY <3>2
      <4> QED
        BY <4>1, <4>2, <4>3
    <3> QED
      BY <3>1, <3>2
  <2>3. w = [s \in SUBSET (1 .. n) |-> step(s)]
    BY <2>2
  <2>4. Folded(n, fold, w)
    BY <2>3 DEF Folded
  <2> QED
    BY <2>4
<1>3. 0 .. N \subseteq P
  <2> HIDE DEF P
  <2> QED
    BY <1>1, <1>2, Induction
<1> QED
  BY <1>3

\* v is what the fold has computed after each line.
Goes(fold, v) ==
  /\ v[0] = fold.start
  /\ \A n \in 1 .. Len(fold.source) : v[n] = Apply(fold, v[n - 1], n)

\* Whatever fills such a table goes line by line.
LEMMA FoldGoes ==
  ASSUME NEW fold, fold.source \in Seq(ToSet(fold.source)), NEW table,
         Folded(Len(fold.source), fold, table)
  PROVE  \E v : Goes(fold, v) /\ table[1 .. Len(fold.source)] = v[Len(fold.source)]
<1> DEFINE N == Len(fold.source)
           v == [n \in 0 .. N |-> table[1 .. n]]
<1>1. N \in Nat
  BY LenProperties
<1>2. \A s \in SUBSET (1 .. N) :
        table[s] = IF s = {} THEN fold.start ELSE Apply(fold, table[s \ {Max(s)}], Max(s))
  BY DEF Folded
<1>3. ASSUME NEW n \in 1 .. N
      PROVE  table[1 .. n] = Apply(fold, table[1 .. n - 1], n)
  <2>0. n \in Nat /\ n \in 1 .. n /\ \A k \in 1 .. n : k \in 1 .. N
    BY <1>1
  <2>1. n \in Nat /\ n \in 1 .. n /\ 1 .. n # {} /\ 1 .. n \in SUBSET (1 .. N)
    BY <2>0
  <2>2. Max(1 .. n) = n
    <3>1. Max(1 .. n) \in 1 .. n /\ n <= Max(1 .. n)
      BY <2>1, MaxIs
    <3> QED
      BY <2>1, <3>1
  <2>3. (1 .. n) \ {n} = 1 .. n - 1
    BY <1>1
  <2> QED
    BY <1>2, <2>1, <2>2, <2>3
<1>4. v[0] = fold.start
  <2>1. 1 .. 0 = {} /\ 0 \in 0 .. N
    BY <1>1
  <2> QED
    BY <1>2, <2>1
<1>5. ASSUME NEW n \in 1 .. N PROVE v[n] = Apply(fold, v[n - 1], n)
  <2>1. n \in 0 .. N /\ n - 1 \in 0 .. N
    BY <1>1
  <2> QED
    BY <1>3, <2>1
<1>6. Goes(fold, v)
  BY <1>4, <1>5 DEF Goes
<1>7. v[N] = table[1 .. N]
  BY <1>1
<1> QED
  BY <1>6, <1>7

Start(supplied) == [symbols |-> supplied, labels |-> <<>>, lines |-> <<>>, errors |-> <<>>]
Pass(source, supplied) == [of |-> "Scan", source |-> source, start |-> Start(supplied)]

Instructing(pass) ==
  [of |-> "Add", source |-> pass.lines, pass |-> pass,
   start |-> [trace |-> <<>>, errors |-> pass.errors]]

Outside ==
  [name |-> <<>>, names |-> {}, body |-> <<>>, start |-> 0, active |-> FALSE,
   module |-> FALSE, plain |-> FALSE, programs |-> <<>>, errors |-> <<>>]
Division(source, symbols) ==
  [of |-> "Collect", source |-> source, symbols |-> symbols, start |-> Outside]

\* The first pass is such a fold.
LEMMA FirstPassGoes ==
  ASSUME NEW source, source \in Seq(ToSet(source)), NEW supplied
  PROVE  \E v : Goes(Pass(source, supplied), v) /\ FirstPass(source, supplied) = v[Len(source)]
<1> DEFINE N == Len(source)
           fold == Pass(source, supplied)
           domain == [i \in DOMAIN source |-> i]
           Fills(v) == v = [s \in SUBSET DOMAIN domain |->
                      IF s = {} THEN Start(supplied)
                      ELSE Scan(v[s \ {Max(s)}], domain[Max(s)], source[domain[Max(s)]])]
           table == CHOOSE v : Fills(v)
<1>1. N \in Nat /\ DOMAIN source = 1 .. N /\ DOMAIN domain = 1 .. N /\ \A i \in 1 .. N : domain[i] = i
  BY LenProperties
<1>2. FirstPass(source, supplied) = table[DOMAIN domain]
  BY Zenon DEF FirstPass, FoldLeftDomain, FoldLeft, MapThenFoldSet, Start
<1>3. fold.source = source /\ fold.start = Start(supplied) /\ fold.of = "Scan"
  BY DEF Pass
<1> HIDE DEF fold
<1>4. ASSUME NEW w PROVE Folded(N, fold, w) <=> Fills(w)
  <2>1. ASSUME NEW s \in SUBSET (1 .. N)
        PROVE  (IF s = {} THEN fold.start ELSE Apply(fold, w[s \ {Max(s)}], Max(s)))
             = (IF s = {} THEN Start(supplied)
                ELSE Scan(w[s \ {Max(s)}], domain[Max(s)], source[domain[Max(s)]]))
    <3>1. s # {} => Max(s) \in 1 .. N
      BY <1>1, MaxIs
    <3> QED
      BY <3>1, <1>1, <1>3 DEF Apply
  <2>2. Folded(N, fold, w) => Fills(w)
    BY <1>1, <2>1 DEF Folded
  <2>3. Fills(w) => Folded(N, fold, w)
    BY <1>1, <2>1 DEF Folded
  <2> QED
    BY <2>2, <2>3
<1>5. PICK w : Folded(N, fold, w)
  BY <1>1, FoldedExists
<1>6. Fills(table)
  <2>1. \E v : Fills(v)
    BY <1>4, <1>5
  <2> HIDE DEF Fills
  <2> QED
    BY <2>1, Zenon
<1>7. Folded(N, fold, table)
  <2> HIDE DEF Fills, table
  <2> QED
    BY <1>4, <1>6
<1> QED
  <2> HIDE DEF Fills, table, domain
  <2> QED
    BY <1>1, <1>2, <1>3, <1>7, FoldGoes DEF fold
\* So is the second pass.
LEMMA InstructedGoes ==
  ASSUME NEW pass, pass.lines \in Seq(ToSet(pass.lines))
  PROVE  \E v : Goes(Instructing(pass), v) /\ Instructed(pass) = v[Len(pass.lines)]
<1> DEFINE lines == pass.lines
           N == Len(lines)
           fold == Instructing(pass)
           start == [trace |-> <<>>, errors |-> pass.errors]
           Fills(v) == v = [s \in SUBSET DOMAIN lines |->
                      IF s = {} THEN start
                      ELSE Add(v[s \ {Max(s)}], lines[Max(s)], Translate(lines[Max(s)].text, pass))]
           table == CHOOSE v : Fills(v)
<1>1. N \in Nat /\ DOMAIN lines = 1 .. N
  BY LenProperties
<1>2. Instructed(pass) = table[DOMAIN lines]
  BY Zenon DEF Instructed, FoldLeft, MapThenFoldSet
<1>3. fold.source = lines /\ fold.pass = pass /\ fold.start = start /\ fold.of = "Add"
  BY DEF Instructing
<1> HIDE DEF fold
<1>4. ASSUME NEW w PROVE Folded(N, fold, w) <=> Fills(w)
  <2>1. ASSUME NEW s \in SUBSET (1 .. N)
        PROVE  (IF s = {} THEN fold.start ELSE Apply(fold, w[s \ {Max(s)}], Max(s)))
             = (IF s = {} THEN start
                ELSE Add(w[s \ {Max(s)}], lines[Max(s)], Translate(lines[Max(s)].text, pass)))
    <3>1. s # {} => Max(s) \in 1 .. N
      BY <1>1, MaxIs
    <3> QED
      BY <3>1, <1>1, <1>3 DEF Apply
  <2>2. Folded(N, fold, w) => Fills(w)
    BY <1>1, <2>1 DEF Folded
  <2>3. Fills(w) => Folded(N, fold, w)
    BY <1>1, <2>1 DEF Folded
  <2> QED
    BY <2>2, <2>3
<1>5. PICK w : Folded(N, fold, w)
  BY <1>1, FoldedExists
<1>6. Fills(table)
  <2>1. \E v : Fills(v)
    BY <1>4, <1>5
  <2> HIDE DEF Fills
  <2> QED
    BY <2>1, Zenon
<1>7. Folded(N, fold, table)
  <2> HIDE DEF Fills, table
  <2> QED
    BY <1>4, <1>6
<1> QED
  <2> HIDE DEF Fills, table
  <2> QED
    BY <1>1, <1>2, <1>3, <1>7, FoldGoes DEF fold
\* And so is the division of a module into its programs.
LEMMA CollectedGoes ==
  ASSUME NEW source, source \in Seq(ToSet(source)), NEW symbols
  PROVE  \E v : Goes(Division(source, symbols), v) /\ Collected(source, symbols) = v[Len(source)]
<1> DEFINE N == Len(source)
           fold == Division(source, symbols)
           domain == [i \in DOMAIN source |-> i]
           Fills(v) == v = [s \in SUBSET DOMAIN domain |->
                      IF s = {} THEN Outside
                      ELSE Collect(v[s \ {Max(s)}], domain[Max(s)], source[domain[Max(s)]], symbols)]
           table == CHOOSE v : Fills(v)
<1>1. N \in Nat /\ DOMAIN source = 1 .. N /\ DOMAIN domain = 1 .. N /\ \A i \in 1 .. N : domain[i] = i
  BY LenProperties
<1>2. Collected(source, symbols) = table[DOMAIN domain]
  BY Zenon DEF Collected, FoldLeftDomain, FoldLeft, MapThenFoldSet, Outside
<1>3. fold.source = source /\ fold.start = Outside /\ fold.of = "Collect" /\ fold.symbols = symbols
  BY DEF Division
<1> HIDE DEF fold
<1>4. ASSUME NEW w PROVE Folded(N, fold, w) <=> Fills(w)
  <2>1. ASSUME NEW s \in SUBSET (1 .. N)
        PROVE  (IF s = {} THEN fold.start ELSE Apply(fold, w[s \ {Max(s)}], Max(s)))
             = (IF s = {} THEN Outside
                ELSE Collect(w[s \ {Max(s)}], domain[Max(s)], source[domain[Max(s)]], symbols))
    <3>1. s # {} => Max(s) \in 1 .. N
      BY <1>1, MaxIs
    <3> QED
      BY <3>1, <1>1, <1>3 DEF Apply
  <2>2. Folded(N, fold, w) => Fills(w)
    BY <1>1, <2>1 DEF Folded
  <2>3. Fills(w) => Folded(N, fold, w)
    BY <1>1, <2>1 DEF Folded
  <2> QED
    BY <2>2, <2>3
<1>5. PICK w : Folded(N, fold, w)
  BY <1>1, FoldedExists
<1>6. Fills(table)
  <2>1. \E v : Fills(v)
    BY <1>4, <1>5
  <2> HIDE DEF Fills
  <2> QED
    BY <2>1, Zenon
<1>7. Folded(N, fold, table)
  <2> HIDE DEF Fills, table
  <2> QED
    BY <1>4, <1>6
<1> QED
  <2> HIDE DEF Fills, table, domain
  <2> QED
    BY <1>1, <1>2, <1>3, <1>7, FoldGoes DEF fold

-----------------------------------------------------------------------------
(* Words.                                                                  *)

\* A payload above its tag stays within the product of their ranges,
LEMMA Split ==
  ASSUME NEW a \in Nat, NEW b \in Nat, NEW q \in 0 .. b - 1, NEW t \in 0 .. a - 1
  PROVE  q * a + t \in 0 .. b * a - 1
<1>1. PICK d \in Nat : b = q + 1 + d
  OBVIOUS
<1>2. b * a = q * a + a + d * a
  BY <1>1
<1>3. q * a \in Nat /\ d * a \in Nat
  BY <1>1
<1> QED
  BY <1>2, <1>3

\* and come back as quotient and remainder.
LEMMA DivUnique ==
  ASSUME NEW a \in Nat \ {0}, NEW q \in Nat, NEW t \in 0 .. a - 1
  PROVE  (q * a + t) % a = t /\ (q * a + t) \div a = q
<1> DEFINE x == q * a + t
           r == x % a
           e == x \div a
<1>1. x \in Nat
  OBVIOUS
<1>2. r \in 0 .. a - 1 /\ e \in Int /\ x = a * e + r
  BY <1>1
<1>3. a * (e - q) = t - r
  BY <1>2
<1>4. e - q = 0
  <2>1. CASE e - q >= 1
    <3>1. a * (e - q) >= a
      BY <1>2, <2>1
    <3> QED
      BY <1>2, <1>3, <3>1
  <2>2. CASE e - q <= -1
    <3>1. a * (e - q) <= -a
      BY <1>2, <2>2
    <3> QED
      BY <1>2, <1>3, <3>1
  <2> QED
    BY <1>2, <2>1, <2>2
<1> QED
  BY <1>2, <1>4, <1>3

\* What is known of the powers up to the width of a word.
LEMMA PowersUpTo ==
  /\ WordBits \in Nat /\ 2^0 = 1
  /\ \A n \in 0 .. WordBits : 2^n \in Nat /\ 2^n # 0
  /\ \A n \in 1 .. WordBits : 2^n = 2 * 2^(n - 1)
BY WidthsAssumption, PowersAssumption

\* Shifting twice shifts by the sum.
LEMMA PowersAdd ==
  ASSUME NEW m \in Nat, NEW n \in Nat, m + n <= WordBits
  PROVE  2^(m + n) = 2^m * 2^n
<1> DEFINE P == {k \in 0 .. n : 2^(m + k) = 2^m * 2^k}
<1>0. WordBits \in Nat /\ 2^0 = 1 /\ (\A k \in 0 .. WordBits : 2^k \in Nat \ {0}) /\ \A k \in 1 .. WordBits : 2^k = 2 * 2^(k - 1)
  BY WidthsAssumption, PowersAssumption
<1>1. 0 \in P
  <2>1. 2^m \in Nat /\ m + 0 = m
    BY <1>0
  <2>2. 2^m * 1 = 2^m
    BY <2>1
  <2> QED
    BY <1>0, <2>1, <2>2
<1>2. ASSUME NEW k \in 1 .. n, k - 1 \in P PROVE k \in P
  <2>1. 2^(m + (k - 1)) = 2^m * 2^(k - 1)
    BY <1>2
  <2>2. m + k \in 1 .. WordBits /\ k \in 1 .. WordBits /\ (m + k) - 1 = m + (k - 1)
    BY <1>0
  <2>3. 2^(m + k) = 2 * 2^(m + (k - 1)) /\ 2^k = 2 * 2^(k - 1)
    BY <1>0, <2>2
  <2>4. m \in 0 .. WordBits /\ k - 1 \in 0 .. WordBits
    BY <1>0, <2>2
  <2>5. 2^m \in Nat /\ 2^(k - 1) \in Nat
    BY <1>0, <2>4
  <2>6. ASSUME NEW a \in Nat, NEW b \in Nat PROVE 2 * (a * b) = a * (2 * b)
    OBVIOUS
  <2>7. 2 * (2^m * 2^(k - 1)) = 2^m * (2 * 2^(k - 1))
    BY <2>5, <2>6
  <2> QED
    BY <2>1, <2>3, <2>7
<1>3. 0 .. n \subseteq P
  <2> HIDE DEF P
  <2> QED
    BY <1>1, <1>2, Induction
<1> QED
  BY <1>3

\* The eight tags fit in a tag.
LEMMA TagsFit ==
  /\ TagBits \in Nat /\ PayloadBits \in Nat \ {0} /\ TagBits + PayloadBits = WordBits
  /\ 2^TagBits \in Nat /\ 2^TagBits >= 8
  /\ 2^PayloadBits \in Nat \ {0} /\ 2^PayloadBits * 2^TagBits = 2^WordBits
<1>1. TagBits \in 3 .. WordBits - 1 /\ WordBits \in Nat
  BY WidthsAssumption
<1>2. TagBits \in Nat /\ PayloadBits \in Nat \ {0} /\ PayloadBits + TagBits = WordBits
  BY <1>1 DEF PayloadBits
<1>3. 2^PayloadBits * 2^TagBits = 2^WordBits
  BY <1>2, PowersAdd
<1>4. TagBits \in 0 .. WordBits /\ PayloadBits \in 0 .. WordBits
  BY <1>1, <1>2
<1>5. 2^TagBits \in Nat /\ 2^PayloadBits \in Nat \ {0}
  BY <1>4, PowersUpTo
<1>6. 2^TagBits >= 8
  <2>1. /\ TagBits \in 1 .. WordBits /\ TagBits - 1 \in 1 .. WordBits
        /\ TagBits - 2 \in 1 .. WordBits /\ TagBits - 3 \in 0 .. WordBits
        /\ (TagBits - 1) - 1 = TagBits - 2 /\ (TagBits - 2) - 1 = TagBits - 3
    BY <1>1
  <2>2. /\ 2^TagBits = 2 * 2^(TagBits - 1) /\ 2^(TagBits - 1) = 2 * 2^(TagBits - 2)
        /\ 2^(TagBits - 2) = 2 * 2^(TagBits - 3)
    BY <2>1, PowersUpTo
  <2>3. 2^(TagBits - 3) \in Nat /\ 2^(TagBits - 3) # 0
    BY <2>1, PowersUpTo
  <2> QED
    BY <2>2, <2>3
<1> QED
  BY <1>2, <1>3, <1>5, <1>6

\* A tagged word is a word, from which its tag and its payload come back.
LEMMA Tagged ==
  ASSUME NEW tag \in 0 .. 7, NEW payload \in Int
  PROVE  /\ MakeTagged(tag, payload) \in Word
         /\ TagOf(MakeTagged(tag, payload)) = tag
         /\ PayloadOf(MakeTagged(tag, payload)) = payload % 2^PayloadBits
<1> DEFINE a == 2^TagBits
           b == 2^PayloadBits
           q == payload % b
<1>1. a \in Nat \ {0} /\ b \in Nat \ {0} /\ b * a = 2^WordBits /\ tag \in 0 .. a - 1
  BY TagsFit
<1>2. MakeTagged(tag, payload) = q * a + tag
  BY DEF MakeTagged, Mask
<1> HIDE DEF a, b
<1>3. q \in 0 .. b - 1
  BY <1>1
<1> HIDE DEF q
<1>4. q * a + tag \in 0 .. b * a - 1
  BY <1>1, <1>3, Split
<1>5. (q * a + tag) % a = tag /\ (q * a + tag) \div a = q
  BY <1>1, <1>3, DivUnique
<1> QED
  BY <1>1, <1>2, <1>4, <1>5 DEF Word, TagOf, PayloadOf, Mask, a, b, q

\* The widths of fields side by side stay within a word, so their powers are numbers.
LEMMA FieldsFit ==
  /\ \A w \in {LevelBits, PlayerBits, ZoneBits, SlotBits, CardBits, AttributeBits, BankBits,
               IndexBits, OpBits, MethodBits, ModeBits, SubBits, FlagsBits, CauseBits, AuxBits,
               PlayerShift, ZoneShift, SlotShift, CardShift, AttributeShift, OpBits + SubBits,
               OpBits + SubBits + FlagsBits, OpBits + SubBits + FlagsBits + CauseBits} :
        2^w \in Nat \ {0}
<1>1. \A w \in {LevelBits, PlayerBits, ZoneBits, SlotBits, CardBits, AttributeBits, BankBits,
               IndexBits, OpBits, MethodBits, ModeBits, FlagsBits, CauseBits, AuxBits} : w \in Nat
  BY WidthsAssumption
<1>2. PayloadBits <= WordBits
  BY TagsFit
<1>3. \A w \in {LevelBits, PlayerBits, ZoneBits, SlotBits, CardBits, AttributeBits,
                PlayerShift, ZoneShift, SlotShift, CardShift, AttributeShift} : w \in 0 .. WordBits
  BY <1>1, <1>2, TagsFit, WidthsAssumption
     DEF PlayerShift, ZoneShift, SlotShift, CardShift, AttributeShift
<1>4. \A w \in {BankBits, IndexBits} : w \in 0 .. WordBits
  BY <1>1, <1>2, TagsFit, WidthsAssumption
<1>5. \A w \in {OpBits, MethodBits, ModeBits, SubBits, FlagsBits, CauseBits, AuxBits,
                OpBits + SubBits, OpBits + SubBits + FlagsBits,
                OpBits + SubBits + FlagsBits + CauseBits} : w \in 0 .. WordBits
  <2>1. /\ OpBits \in Nat /\ MethodBits \in Nat /\ ModeBits \in Nat /\ FlagsBits \in Nat
        /\ CauseBits \in Nat /\ AuxBits \in Nat
    BY <1>1
  <2>2. SubBits = MethodBits + ModeBits
    BY DEF SubBits
  <2>3. OpBits + SubBits + FlagsBits + CauseBits + AuxBits <= WordBits /\ WordBits \in Nat
    BY <1>2, <2>1, <2>2, TagsFit, PowersUpTo, WidthsAssumption
  <2> QED
    BY <2>1, <2>2, <2>3
<1> QED
  BY <1>3, <1>4, <1>5, PowersUpTo

\* A field is a number.
LEMMA Masked ==
  ASSUME NEW x \in Int, NEW w, 2^w \in Nat \ {0}
  PROVE  Mask(x, w) \in Nat
BY DEF Mask

\* The words of operands.
LEMMA OperandWords ==
  /\ None \in Word
  /\ \A n \in Int : Imm(n) \in Word
  /\ \A n \in Int : Control(n) \in Word
  /\ \A bank, n \in Int : Reg(bank, n) \in Word
<1>1. NoneTag \in 0 .. 7 /\ ImmediateTag \in 0 .. 7 /\ ControlTag \in 0 .. 7 /\ RegisterTag \in 0 .. 7
  BY DEF NoneTag, ImmediateTag, ControlTag, RegisterTag
<1>2. None \in Word
  BY <1>1, Tagged DEF None
<1>3. ASSUME NEW n \in Int PROVE Imm(n) \in Word /\ Control(n) \in Word
  BY <1>1, Tagged DEF Imm, Control
<1>4. ASSUME NEW bank \in Int, NEW n \in Int PROVE Reg(bank, n) \in Word
  <2>1. 2^BankBits \in Nat \ {0} /\ 2^IndexBits \in Nat \ {0}
    BY FieldsFit
  <2>2. Mask(bank, BankBits) \in Nat /\ Mask(n, IndexBits) \in Nat
    BY <2>1, Masked
  <2>3. Mask(bank, BankBits) + Mask(n, IndexBits) * 2^BankBits \in Int
    BY <2>1, <2>2
  <2> QED
    BY <1>1, <2>3, Tagged DEF Reg
<1> QED
  BY <1>2, <1>3, <1>4

\* The word of an address.
LEMMA MadeAddress ==
  ASSUME NEW level \in Int, NEW player \in Int, NEW zone \in Int, NEW slot \in Int,
         NEW card \in Int, NEW attribute \in Int
  PROVE  MakeAddress(level, player, zone, slot, card, attribute) \in Word
<1>1. AddressTag \in 0 .. 7
  BY DEF AddressTag
<1>2. /\ 2^LevelBits \in Nat \ {0} /\ 2^PlayerBits \in Nat \ {0} /\ 2^ZoneBits \in Nat \ {0}
      /\ 2^SlotBits \in Nat \ {0} /\ 2^CardBits \in Nat \ {0} /\ 2^AttributeBits \in Nat \ {0}
      /\ 2^PlayerShift \in Nat /\ 2^ZoneShift \in Nat /\ 2^SlotShift \in Nat
      /\ 2^CardShift \in Nat /\ 2^AttributeShift \in Nat
  BY FieldsFit
<1>3. /\ Mask(level, LevelBits) \in Nat /\ Mask(player, PlayerBits) \in Nat
      /\ Mask(zone, ZoneBits) \in Nat /\ Mask(slot, SlotBits) \in Nat
      /\ Mask(card, CardBits) \in Nat /\ Mask(attribute, AttributeBits) \in Nat
  BY <1>2, Masked
<1>4. /\ Mask(player, PlayerBits) * 2^PlayerShift \in Nat
      /\ Mask(zone, ZoneBits) * 2^ZoneShift \in Nat /\ Mask(slot, SlotBits) * 2^SlotShift \in Nat
      /\ Mask(card, CardBits) * 2^CardShift \in Nat
      /\ Mask(attribute, AttributeBits) * 2^AttributeShift \in Nat
  BY <1>2, <1>3
<1>5. Mask(level, LevelBits) + Mask(player, PlayerBits) * 2^PlayerShift
      + Mask(zone, ZoneBits) * 2^ZoneShift + Mask(slot, SlotBits) * 2^SlotShift
      + Mask(card, CardBits) * 2^CardShift + Mask(attribute, AttributeBits) * 2^AttributeShift \in Int
  BY <1>3, <1>4
<1> QED
  BY <1>1, <1>5, Tagged DEF MakeAddress

\* The word of an operation.
LEMMA MadeOperation ==
  ASSUME NEW opcode \in Int, NEW sub \in Int, NEW flags \in Int, NEW cause \in Int, NEW aux \in Int
  PROVE  Op(opcode, sub, flags, cause, aux) \in Word
<1>1. OperationTag \in 0 .. 7
  BY DEF OperationTag
<1> DEFINE subs == OpBits + SubBits
           others == OpBits + SubBits + FlagsBits
           last == OpBits + SubBits + FlagsBits + CauseBits
<1>2. /\ 2^OpBits \in Nat \ {0} /\ 2^SubBits \in Nat \ {0} /\ 2^FlagsBits \in Nat \ {0}
      /\ 2^CauseBits \in Nat \ {0} /\ 2^AuxBits \in Nat \ {0}
      /\ 2^subs \in Nat /\ 2^others \in Nat /\ 2^last \in Nat
  BY FieldsFit
<1>3. /\ Mask(opcode, OpBits) \in Nat /\ Mask(sub, SubBits) \in Nat /\ Mask(flags, FlagsBits) \in Nat
      /\ Mask(cause, CauseBits) \in Nat /\ Mask(aux, AuxBits) \in Nat
  BY <1>2, Masked
<1> HIDE DEF subs, others, last
<1>4. /\ Mask(sub, SubBits) * 2^OpBits \in Nat /\ Mask(flags, FlagsBits) * 2^subs \in Nat
      /\ Mask(cause, CauseBits) * 2^others \in Nat /\ Mask(aux, AuxBits) * 2^last \in Nat
  BY <1>2, <1>3
<1>5. Mask(opcode, OpBits) + Mask(sub, SubBits) * 2^OpBits + Mask(flags, FlagsBits) * 2^subs
      + Mask(cause, CauseBits) * 2^others + Mask(aux, AuxBits) * 2^last \in Int
  BY <1>3, <1>4
<1> QED
  BY <1>1, <1>5, Tagged DEF Op, subs, others, last

-----------------------------------------------------------------------------
(* What the assembler makes of a line.                                     *)

WordsIn(table) == \A x \in DOMAIN table : table[x] \in Word

\* No word is the mark of a refusal.
LEMMA BadIsNoWord == Bad \notin Word
BY PowersUpTo DEF Bad, Word

\* The fields of an address make a word.
LEMMA FieldsMakeAWord ==
  ASSUME NEW fields \in Seq(Int), FitsAddress(fields)
  PROVE  AddressOf(fields) \in Word
<1> DEFINE n == Len(fields)
           field(k) == IF k < n THEN fields[k] ELSE 0
<1>1. n \in 1 .. 5 /\ \A k \in 1 .. n : fields[k] \in Int
  BY LenProperties DEF FitsAddress
<1>2. \A k \in 1 .. 4 : field(k) \in Int
  BY <1>1
<1> DEFINE level == n - 1
           player == field(1)
           zone == field(2)
           slot == field(3)
           card == field(4)
           attribute == fields[n]
<1>3. /\ level \in Int /\ player \in Int /\ zone \in Int /\ slot \in Int /\ card \in Int
      /\ attribute \in Int
  BY <1>1, <1>2
<1>4. AddressOf(fields) = MakeAddress(level, player, zone, slot, card, attribute)
  BY DEF AddressOf
<1> HIDE DEF level, player, zone, slot, card, attribute
<1> QED
  BY <1>3, <1>4, MadeAddress

\* A token is read as a word or refused.
LEMMA OperandIsWord ==
  ASSUME NEW token, IsToken(token), NEW symbols, WordsIn(symbols)
  PROVE  OperandOf(token, symbols) \in Word \cup {Bad}
<1> DEFINE o == OperandOf(token, symbols)
<1>1. CASE token = <<"NONE">>
  <2>1. o = None
    BY <1>1 DEF OperandOf
  <2> QED
    BY <2>1, OperandWords
<1>2. CASE token # <<"NONE">> /\ token \in DOMAIN symbols
  <2>1. o = symbols[token]
    BY <1>2 DEF OperandOf
  <2> QED
    BY <1>2, <2>1 DEF WordsIn
<1>3. CASE token # <<"NONE">> /\ token \notin DOMAIN symbols
  <2>1. CASE token[1] = "immediate" /\ token[2] \in ImmediateMin .. ImmediateMax
    <3>1. o = Imm(token[2])
      BY <1>3, <2>1 DEF OperandOf
    <3>2. token[2] \in Int
      BY <2>1 DEF IsToken
    <3> QED
      BY <3>1, <3>2, OperandWords
  <2>2. CASE token[1] = "register" /\ token[3] < RegisterCount
    <3>1. o = Reg(token[2], token[3])
      BY <1>3, <2>2 DEF OperandOf
    <3>2. token[2] \in Int /\ token[3] \in Int
      BY <2>2 DEF IsToken
    <3> QED
      BY <3>1, <3>2, OperandWords
  <2>3. CASE token[1] = "control" /\ token[2] < ControlCount
    <3>1. o = Control(token[2])
      BY <1>3, <2>3 DEF OperandOf
    <3>2. token[2] \in Int
      BY <2>3 DEF IsToken
    <3> QED
      BY <3>1, <3>2, OperandWords
  <2>4. CASE token[1] = "address" /\ FitsAddress(token[2])
    <3>1. o = AddressOf(token[2])
      BY <1>3, <2>4 DEF OperandOf
    <3>2. token[2] \in Seq(Int)
      BY <2>4 DEF IsToken
    <3> QED
      BY <2>4, <3>1, <3>2, FieldsMakeAWord
  <2>5. CASE /\ ~(token[1] = "immediate" /\ token[2] \in ImmediateMin .. ImmediateMax)
             /\ ~(token[1] = "register" /\ token[3] < RegisterCount)
             /\ ~(token[1] = "control" /\ token[2] < ControlCount)
             /\ ~(token[1] = "address" /\ FitsAddress(token[2]))
    BY <1>3, <2>5 DEF OperandOf
  <2> QED
    BY <2>1, <2>2, <2>3, <2>4, <2>5
<1> QED
  BY <1>1, <1>2, <1>3

\* A jump target is a word.
LEMMA TargetIsWord ==
  ASSUME NEW token, NEW labels, \A x \in DOMAIN labels : labels[x] \in Nat
  PROVE  TargetOf(token, labels) \in Word \cup {Bad}
<1>1. ASSUME NEW pc \in Int PROVE JumpTarget(pc) \in Word
  <2>1. (IF pc <= ImmediateMax THEN pc ELSE -1) \in Int
    OBVIOUS
  <2> QED
    BY <2>1, OperandWords DEF JumpTarget
<1>2. Unsigned(token) # Bad => Unsigned(token) \in Int
  BY DEF Unsigned, Word
<1>3. CASE token \in DOMAIN labels
  BY <1>1, <1>3 DEF TargetOf
<1>4. CASE token \notin DOMAIN labels
  BY <1>1, <1>2, <1>4 DEF TargetOf
<1> QED
  BY <1>3, <1>4

Listed(names) == Len(names) \in Nat /\ DOMAIN names = 1 .. Len(names)

\* An enumerator is a number, refused or not.
LEMMA EnumIsNumber ==
  ASSUME NEW names, Listed(names), NEW name
  PROVE  Enum(names, name) \in Int
<1> DEFINE Is(n) == names[n] = name
           n0 == CHOOSE n \in DOMAIN names : Is(n)
<1>1. ASSUME Contains(names, name) PROVE n0 \in 1 .. Len(names)
  <2>1. \E n \in DOMAIN names : Is(n)
    BY <1>1 DEF Contains, Listed
  <2> HIDE DEF Is
  <2>2. n0 \in DOMAIN names
    BY <2>1
  <2> QED
    BY <2>2 DEF Listed
<1>2. Enum(names, name) = IF Contains(names, name) THEN n0 - 1 ELSE Bad
  BY DEF Enum
<1> HIDE DEF n0
<1> QED
  BY <1>1, <1>2 DEF Bad, Listed

\* The enumerations are listed.
LEMMA Enumerations ==
  /\ Listed(Opcodes) /\ Listed(SummonModes) /\ Listed(JumpConditions) /\ Listed(CounterOps)
  /\ \A op \in DOMAIN Methods : Listed(Methods[op])
<1>1. Listed(Opcodes)
  BY DEF Opcodes, Listed
<1>2. Listed(SummonModes) /\ Listed(JumpConditions) /\ Listed(CounterOps)
  BY DEF SummonModes, JumpConditions, CounterOps, Listed
<1>3. Listed(HistoryFields) /\ Listed(ModifierOps) /\ Listed(MoveMethods)
  BY DEF HistoryFields, ModifierOps, MoveMethods, Listed
<1>4. Listed(SummonMethods) /\ Listed(AluOps) /\ Listed(CompareOps)
  BY DEF SummonMethods, AluOps, CompareOps, Listed
<1>5. Listed(PositionOps) /\ Listed(NegateOps) /\ Listed(EquipOps)
  BY DEF PositionOps, NegateOps, EquipOps, Listed
<1>6. Listed(ControlOps) /\ Listed(RestrictOps) /\ Listed(RandomKinds) /\ Listed(ChainOps)
  BY DEF ControlOps, RestrictOps, RandomKinds, ChainOps, Listed
<1>7. Listed(EventKinds)
  BY DEF EventKinds, Listed
<1>8. \A op \in DOMAIN Methods : Listed(Methods[op])
  BY <1>2, <1>3, <1>4, <1>5, <1>6, <1>7 DEF Methods
<1> QED
  BY <1>1, <1>2, <1>8

Operands == {"d", "s", "t", "S", "T", "L"}
Fielded(form) == Listed(form) /\ \A k \in DOMAIN form : form[k] \in Operands \cup {"m", "n"}

\* What the fields of a form are, and that only an opcode with methods names one.
LEMMA FormsAre ==
  ASSUME NEW op, NEW form \in Forms(op)
  PROVE  Fielded(form) /\ \A k \in DOMAIN form : form[k] = "m" => op \in DOMAIN Methods
<1> DEFINE Plainly(f) == Fielded(f) /\ \A k \in DOMAIN f : f[k] # "m"
<1>1. Plainly(<<>>) /\ Plainly(<<"S">>) /\ Plainly(<<"s", "T">>) /\ Plainly(<<"d", "s", "t">>)
  BY DEF Operands, Fielded, Listed
<1>2. Plainly(<<"d", "S", "t">>) /\ Plainly(<<"s">>) /\ Plainly(<<"d", "s">>)
  BY DEF Operands, Fielded, Listed
<1>3. /\ Fielded(<<"s", "T", "m">>) /\ Fielded(<<"d", "s", "t", "m">>) /\ Fielded(<<"d", "s", "m">>)
      /\ Fielded(<<"m", "d", "s">>) /\ Fielded(<<"m", "d", "s", "t">>)
  BY DEF Operands, Fielded, Listed
<1>4. /\ Fielded(<<"m", "n", "d", "s">>) /\ Fielded(<<"m", "d">>) /\ Fielded(<<"m">>)
      /\ Fielded(<<"m", "d", "L">>) /\ Fielded(<<"d", "m">>) /\ Fielded(<<"d", "m", "s">>)
  BY DEF Operands, Fielded, Listed
<1>5. op \in DOMAIN Methods \/ \A f \in Forms(op) : Plainly(f)
  BY <1>1, <1>2, Zenon DEF Forms, Methods
<1>6. \A f \in Forms(op) : Fielded(f)
  BY <1>1, <1>2, <1>3, <1>4, Zenon DEF Forms
<1> QED
  BY <1>5, <1>6

\* What the first pass knows, as far as the second one relies on it.
IsKept(line) == line.source \in Nat /\ IsLine(line.text) /\ line.text.kind = "code"
PassOK(pass) ==
  /\ WordsIn(pass.symbols)
  /\ \A x \in DOMAIN pass.labels : pass.labels[x] \in Nat
  /\ pass.lines \in Seq(ToSet(pass.lines)) /\ \A line \in ToSet(pass.lines) : IsKept(line)

\* An operand field is a word or refused, a method a number.
LEMMA FieldTyped ==
  ASSUME NEW pass, PassOK(pass), NEW arg, IsToken(arg), NEW op, NEW method,
         NEW field \in Operands \cup {"m", "n"}, field = "m" => op \in DOMAIN Methods
  PROVE  /\ field \in Operands => FieldValue(field, arg, op, method, pass) \in Word \cup {Bad}
         /\ field \notin Operands => FieldValue(field, arg, op, method, pass) \in Int
<1> DEFINE value == FieldValue(field, arg, op, method, pass)
<1>1. TargetOf(arg, pass.labels) \in Word \cup {Bad} /\ OperandOf(arg, pass.symbols) \in Word \cup {Bad}
  BY TargetIsWord, OperandIsWord DEF PassOK
<1>2. CASE field \in {"S", "T"}
  <2>1. value = TargetOf(arg, pass.labels)
    BY <1>2 DEF FieldValue
  <2> QED
    BY <1>1, <1>2, <2>1 DEF Operands
<1>3. CASE field = "L"
  <2>1. value \in {TargetOf(arg, pass.labels), OperandOf(arg, pass.symbols)}
    BY <1>3 DEF FieldValue
  <2> QED
    BY <1>1, <1>3, <2>1 DEF Operands
<1>4. CASE field = "m"
  <2>1. Listed(Methods[op])
    BY <1>4, Enumerations
  <2>2. Enum(Methods[op], arg[2]) \in Int
    BY <2>1, EnumIsNumber
  <2>3. value = Enum(Methods[op], arg[2]) \/ value = Bad
    BY <1>4 DEF FieldValue
  <2> QED
    BY <1>4, <2>2, <2>3 DEF Operands, Bad
<1>5. CASE field = "n"
  <2>1. Enum(SummonModes, arg[2]) \in Int
    BY Enumerations, EnumIsNumber
  <2>2. value = Enum(SummonModes, arg[2]) \/ value = Bad
    BY <1>5 DEF FieldValue
  <2> QED
    BY <1>5, <2>1, <2>2 DEF Operands, Bad
<1>6. CASE field \in {"d", "s", "t"}
  <2>1. value = OperandOf(arg, pass.symbols)
    BY <1>6 DEF FieldValue
  <2> QED
    BY <1>1, <1>6, <2>1 DEF Operands
<1> QED
  BY <1>2, <1>3, <1>4, <1>5, <1>6 DEF Operands

\* The value of a good note is a number.
LEMMA NoteIsNumber ==
  ASSUME NEW line, IsLine(line), line.kind = "code", GoodNotes(line), NEW key
  PROVE  NoteOf(line, key) \in Int
<1> DEFINE at == {n \in DOMAIN line.notes : line.notes[n][1] = key}
           n0 == CHOOSE n \in at : TRUE
<1>1. NoteOf(line, key) = IF at = {} THEN 0 ELSE line.notes[n0][2]
  BY DEF NoteOf
<1>2. CASE at # {}
  <2>1. n0 \in DOMAIN line.notes
    BY <1>2
  <2>2. line.notes # <<>>
    BY <2>1
  <2>3. line.annotated
    BY <2>2 DEF IsLine
  <2>4. line.notes[n0][2] \in 0 .. Limits[line.notes[n0][1]]
    BY <2>1, <2>3 DEF GoodNotes
  <2> QED
    BY <1>1, <1>2, <2>4
<1>3. CASE at = {}
  BY <1>1, <1>3
<1> QED
  BY <1>2, <1>3

Code == Word \X Word \X Word \X Word

\* A line in words is refused or four words.
LEMMA WordsTranslate ==
  ASSUME NEW line, IsLine(line), line.kind = "code"
  PROVE  FromWords(line) = <<>> \/ FromWords(line) \in Code
<1> DEFINE words == [n \in DOMAIN line.args |-> Unsigned(line.args[n])]
<1>1. DOMAIN words = 1 .. Len(line.args) /\ Len(line.args) \in Nat
  BY LenProperties DEF IsLine
<1>2. Len(words) = Len(line.args)
  BY <1>1
<1>3. ASSUME Len(words) = 4, ~Contains(words, Bad) PROVE words \in Code
  <2>1. \A n \in 1 .. 4 : words[n] # Bad
    BY <1>3 DEF Contains
  <2>2. \A n \in 1 .. 4 : words[n] \in Word
    BY <1>1, <1>2, <1>3, <2>1 DEF Unsigned
  <2>3. DOMAIN words = 1 .. 4
    BY <1>1, <1>2, <1>3
  <2> QED
    BY <2>2, <2>3 DEF Code
<1> QED
  BY <1>3 DEF FromWords

\* The operation of an instruction that a name stands for.
Operates(i, name) ==
  /\ Contains(Opcodes, name)
  /\ \E sub, flags, cause, aux \in Int :
       Operation(i) = Op(Enum(Opcodes, name), sub, flags, cause, aux)

\* A line in fields is refused or four words, of which the first is an operation of its name.
LEMMA FieldsTranslate ==
  ASSUME NEW line, IsLine(line), line.kind = "code", NEW pass, PassOK(pass)
  PROVE  \/ FromFields(line, pass) = <<>>
         \/ FromFields(line, pass) \in Code /\ Operates(FromFields(line, pass), line.name)
<1> DEFINE op == line.name
           forms == {form \in Forms(op) : Len(form) = Len(line.args)}
           form == CHOOSE f \in forms : TRUE
           values == [n \in DOMAIN form |-> FieldValue(form[n], line.args[n], op, line.args[1], pass)]
           In(names, default) ==
             LET at == {n \in DOMAIN form : form[n] \in names}
             IN  IF at = {} THEN default ELSE values[CHOOSE n \in at : TRUE]
           method == In({"m"}, IF op = "JUMPIF" THEN Enum(JumpConditions, "TRUE") ELSE 0)
           sub == IF op = "SUMMON" THEN SummonSubcode(method, In({"n"}, 0)) ELSE method
           refused == \/ ~Contains(Opcodes, op) \/ forms = {} \/ ~GoodNotes(line)
                      \/ Contains(values, Bad)
                      \/ op = "COUNTER" /\ Len(line.args) = 4 /\ method # Enum(CounterOps, "TRANSFER")
           operation == Op(Enum(Opcodes, op), sub, NoteOf(line, "flags"), NoteOf(line, "cause"),
                           NoteOf(line, "aux"))
           dst == In({"d"}, None)
           src0 == In({"s", "S", "L"}, None)
           src1 == In({"t", "T"}, None)
<1>1. FromFields(line, pass) = IF refused THEN <<>> ELSE <<operation, dst, src0, src1>>
  BY Zenon DEF FromFields
<1> DEFINE i == <<operation, dst, src0, src1>>
<1> SUFFICES ASSUME ~refused PROVE i \in Code /\ Operates(i, op)
  BY <1>1
<1>2. form \in Forms(op) /\ Len(form) = Len(line.args) /\ Fielded(form)
      /\ \A k \in DOMAIN form : form[k] = "m" => op \in DOMAIN Methods
  <2>1. form \in forms
    OBVIOUS
  <2>2. form \in Forms(op) /\ Len(form) = Len(line.args)
    BY <2>1
  <2> HIDE DEF form, op
  <2> QED
    BY <2>2, FormsAre
<1>3. GoodNotes(line) /\ ~Contains(values, Bad) /\ Contains(Opcodes, op)
  OBVIOUS
<1> HIDE DEF refused, form, op
<1>4. ASSUME NEW n \in DOMAIN form
      PROVE  /\ values[n] # Bad
             /\ form[n] \in Operands => values[n] \in Word
             /\ form[n] \notin Operands => values[n] \in Int
  <2>1. DOMAIN form = 1 .. Len(form) /\ Len(form) \in Nat /\ form[n] \in Operands \cup {"m", "n"}
    BY <1>2 DEF Fielded, Listed
  <2>2. Len(values) = Len(form)
    BY <2>1
  <2>3. values[n] # Bad
    BY <1>3, <2>1, <2>2 DEF Contains
  <2>4. DOMAIN line.args = 1 .. Len(line.args)
    BY LenProperties DEF IsLine
  <2>5. IsToken(line.args[n])
    BY <1>2, <2>1, <2>4 DEF IsLine
  <2>6. values[n] = FieldValue(form[n], line.args[n], op, line.args[1], pass)
    OBVIOUS
  <2> HIDE DEF values
  <2> QED
    BY <1>2, <2>1, <2>3, <2>5, <2>6, FieldTyped
<1> HIDE DEF values
<1>5. ASSUME NEW names, NEW default
      PROVE  In(names, default) = default
             \/ \E n \in DOMAIN form : form[n] \in names /\ In(names, default) = values[n]
  <2> DEFINE at == {n \in DOMAIN form : form[n] \in names}
  <2>1. CASE at = {}
    BY <2>1
  <2>2. CASE at # {}
    <3> DEFINE n0 == CHOOSE n \in at : TRUE
    <3>1. n0 \in at
      BY <2>2
    <3>2. In(names, default) = values[n0]
      BY <2>2
    <3> QED
      BY <3>1, <3>2
  <2> QED
    BY <2>1, <2>2
<1> HIDE DEF In
<1>6. dst \in Word /\ src0 \in Word /\ src1 \in Word
  <2>1. ASSUME NEW names, names \subseteq Operands PROVE In(names, None) \in Word
    BY <1>4, <1>5, <2>1, OperandWords
  <2> QED
    BY <2>1 DEF Operands
<1>7. sub \in Int
  <2>1. ASSUME NEW names, names \cap Operands = {}, NEW default \in Int PROVE In(names, default) \in Int
    BY <1>4, <1>5, <2>1
  <2>2. {"m"} \cap Operands = {} /\ {"n"} \cap Operands = {}
    BY DEF Operands
  <2>3. Enum(JumpConditions, "TRUE") \in Int
    BY Enumerations, EnumIsNumber
  <2>4. method \in Int /\ In({"n"}, 0) \in Int
    BY <2>1, <2>2, <2>3
  <2> HIDE DEF method
  <2>5. ASSUME NEW a \in Int, NEW b \in Int PROVE SummonSubcode(a, b) \in Int
    <3>1. 2^MethodBits \in Nat \ {0} /\ 2^ModeBits \in Nat \ {0}
      BY FieldsFit
    <3>2. Mask(a, MethodBits) \in Nat /\ Mask(b, ModeBits) \in Nat
      BY <3>1, Masked
    <3> QED
      BY <3>1, <3>2 DEF SummonSubcode
  <2> QED
    BY <2>4, <2>5
<1>8. Enum(Opcodes, op) \in Int
  BY Enumerations, EnumIsNumber
<1>9. NoteOf(line, "flags") \in Int /\ NoteOf(line, "cause") \in Int /\ NoteOf(line, "aux") \in Int
  BY <1>3, NoteIsNumber
<1> HIDE DEF sub
<1>10. operation \in Word
  BY <1>7, <1>8, <1>9, MadeOperation
<1>11. Operates(i, op)
  <2>1. Operation(i) = operation
    BY DEF Operation
  <2> HIDE DEF i
  <2> QED
    BY <1>3, <1>7, <1>9, <2>1 DEF Operates
<1> QED
  BY <1>6, <1>10, <1>11 DEF Code

\* What the second pass keeps is a valid instruction.
LEMMA TranslateIsCode ==
  ASSUME NEW line, IsLine(line), line.kind = "code", NEW pass, PassOK(pass), Translate(line, pass) # <<>>
  PROVE  Translate(line, pass) \in Code /\ ValidInstruction(Translate(line, pass))
BY WordsTranslate, FieldsTranslate DEF Translate, Checked

-----------------------------------------------------------------------------
(* Both passes.                                                            *)

ScanOK(pass) ==
  /\ DOMAIN pass = {"symbols", "labels", "lines", "errors"}
  /\ PassOK(pass) /\ pass.errors \in Seq(Nat)

\* An entry that is added is found among the others.
LEMMA EnterAdds ==
  ASSUME NEW table, NEW name, NEW value, NEW x \in DOMAIN Enter(table, name, value)
  PROVE  \/ x \in DOMAIN table /\ Enter(table, name, value)[x] = table[x]
         \/ Enter(table, name, value)[x] = value
BY DEF Enter, Knows

\* A line of the source is noted as it should be.
LEMMA ScanKeeps ==
  ASSUME NEW pass, ScanOK(pass), NEW n \in Nat \ {0}, NEW line, IsLine(line)
  PROVE  ScanOK(Scan(pass, n, line))
<1>1. ASSUME NEW m, ScanOK(m) PROVE ScanOK(Fail(m, n))
  BY <1>1 DEF ScanOK, Fail, PassOK
<1>2. CASE line.kind \in {"blank", "header"}
  BY <1>2 DEF Scan
<1>3. CASE line.kind = "symbol"
  <2> DEFINE value == OperandOf(line.value, pass.symbols)
             to == [pass EXCEPT !.symbols = Enter(@, line.name, value)]
  <2>1. value \in Word \cup {Bad}
    BY <1>3, OperandIsWord DEF IsLine, ScanOK, PassOK
  <2>2. ASSUME value # Bad PROVE ScanOK(to)
    <3>1. value \in Word
      BY <2>1, <2>2
    <3>2. WordsIn(Enter(pass.symbols, line.name, value))
      BY <3>1, EnterAdds DEF WordsIn, ScanOK, PassOK
    <3> HIDE DEF value
    <3> QED
      BY <3>2 DEF ScanOK, PassOK
  <2>3. Scan(pass, n, line) \in {Fail(pass, n)} \cup (IF value = Bad THEN {} ELSE {to, Fail(to, n)})
    BY <1>3 DEF Scan, DefineSymbol
  <2> HIDE DEF to, value
  <2> QED
    BY <1>1, <2>2, <2>3
<1>4. CASE line.kind = "label"
  <2> DEFINE to == [pass EXCEPT !.labels = Enter(@, line.name, Len(pass.lines))]
  <2>1. Len(pass.lines) \in Nat
    BY LenProperties DEF ScanOK, PassOK
  <2>2. \A x \in DOMAIN Enter(pass.labels, line.name, Len(pass.lines)) :
          Enter(pass.labels, line.name, Len(pass.lines))[x] \in Nat
    BY <2>1, EnterAdds DEF ScanOK, PassOK
  <2>3. ScanOK(to)
    BY <2>2 DEF ScanOK, PassOK
  <2>4. Scan(pass, n, line) \in {Fail(pass, n), to}
    BY <1>4 DEF Scan, Label
  <2> HIDE DEF to
  <2> QED
    BY <1>1, <2>3, <2>4
<1>5. CASE line.kind = "code"
  <2> DEFINE kept == [source |-> n, text |-> line]
             lines == Append(pass.lines, kept)
             Elements == ToSet(pass.lines) \cup {kept}
             to == [pass EXCEPT !.lines = lines]
  <2>1. lines \in Seq(ToSet(lines)) /\ ToSet(lines) \subseteq Elements
    <3>1. pass.lines \in Seq(Elements)
      BY SeqMonotonic DEF ScanOK, PassOK
    <3>2. lines \in Seq(Elements)
      BY <3>1, AppendProperties
    <3> HIDE DEF lines, Elements
    <3> QED
      BY <3>2, OwnElements
  <2>2. IsKept(kept)
    BY <1>5 DEF IsKept
  <2>3. \A x \in ToSet(lines) : IsKept(x)
    BY <2>1, <2>2 DEF ScanOK, PassOK
  <2>4. Scan(pass, n, line) \in {Fail(pass, n), to}
    BY <1>5 DEF Scan, Keep
  <2> HIDE DEF lines
  <2>5. ScanOK(to)
    BY <2>1, <2>3 DEF ScanOK, PassOK
  <2> HIDE DEF to
  <2> QED
    BY <1>1, <2>4, <2>5
<1>6. CASE line.kind \notin {"blank", "header", "symbol", "label", "code"}
  BY <1>1, <1>6 DEF Scan
<1> QED
  BY <1>2, <1>3, <1>4, <1>5, <1>6

\* The first pass knows words, program counters and lines of code.
LEMMA FirstPassTyped ==
  ASSUME NEW source, IsText(source), NEW supplied, WordsIn(supplied)
  PROVE  ScanOK(FirstPass(source, supplied))
<1>1. source \in Seq(ToSet(source)) /\ \A n \in 1 .. Len(source) : IsLine(source[n])
  BY LenProperties DEF IsText
<1>2. PICK v : Goes(Pass(source, supplied), v) /\ FirstPass(source, supplied) = v[Len(source)]
  BY <1>1, FirstPassGoes
<1>3. v[0] = Start(supplied) /\ \A n \in 1 .. Len(source) : v[n] = Scan(v[n - 1], n, source[n])
  BY <1>2 DEF Goes, Pass, Apply
<1>4. Len(source) \in Nat
  BY <1>1, LenProperties
<1> DEFINE P == {n \in 0 .. Len(source) : ScanOK(v[n])}
<1>5. 0 \in P
  <2>1. ScanOK(Start(supplied))
    BY DEF ScanOK, PassOK, Start, ToSet
  <2> QED
    BY <1>3, <1>4, <2>1
<1>6. ASSUME NEW n \in 1 .. Len(source), n - 1 \in P PROVE n \in P
  <2>1. ScanOK(v[n - 1]) /\ IsLine(source[n]) /\ n \in Nat \ {0}
    BY <1>1, <1>6
  <2>2. ScanOK(Scan(v[n - 1], n, source[n]))
    BY <2>1, ScanKeeps
  <2> QED
    BY <1>3, <2>2
<1>7. 0 .. Len(source) \subseteq P
  <2> HIDE DEF P
  <2> QED
    BY <1>4, <1>5, <1>6, Induction
<1> QED
  BY <1>2, <1>4, <1>7

\* Only what has no elements has no least one.
LEMMA NoEarliest ==
  ASSUME NEW S \in SUBSET (Nat \ {0})
  PROVE  Earliest(S) = 0 <=> S = {}
<1> DEFINE First(n) == \A k \in S : n <= k
           n0 == CHOOSE n \in S : First(n)
<1>1. ASSUME S # {} PROVE n0 \in S
  <2>1. \E n \in S : First(n)
    BY <1>1, Least
  <2> HIDE DEF First
  <2> QED
    BY <2>1
<1>2. Earliest(S) = IF S = {} THEN 0 ELSE n0
  BY DEF Earliest
<1> HIDE DEF n0
<1> QED
  BY <1>1, <1>2

\* The instructions of the second pass.
Coded(trace) ==
  trace \in Seq(Code) /\ \A n \in DOMAIN trace : ValidInstruction(trace[n])

\* An instruction that is valid goes behind others that are.
LEMMA AppendCoded ==
  ASSUME NEW trace, Coded(trace), NEW i \in Code, ValidInstruction(i)
  PROVE  Coded(Append(trace, i))
<1>1. trace \in Seq(Code) /\ Len(trace) \in Nat /\ DOMAIN trace = 1 .. Len(trace)
  BY LenProperties DEF Coded
<1>2. /\ Append(trace, i) \in Seq(Code) /\ Len(Append(trace, i)) = Len(trace) + 1
      /\ \A n \in 1 .. Len(trace) : Append(trace, i)[n] = trace[n]
      /\ Append(trace, i)[Len(trace) + 1] = i
  BY <1>1, AppendProperties
<1>3. DOMAIN Append(trace, i) = 1 .. Len(trace) + 1
  BY <1>2, LenProperties
<1>4. ASSUME NEW n \in 1 .. Len(trace) + 1 PROVE ValidInstruction(Append(trace, i)[n])
  <2>1. n \in 1 .. Len(trace) \/ n = Len(trace) + 1
    BY <1>1
  <2> QED
    BY <1>1, <1>2, <2>1 DEF Coded
<1> QED
  BY <1>2, <1>3, <1>4 DEF Coded

Instructs(to) == DOMAIN to = {"trace", "errors"} /\ Coded(to.trace)

\* The second pass collects valid instructions.
LEMMA SecondPassTyped ==
  ASSUME NEW pass, PassOK(pass)
  PROVE  Instructs(Instructed(pass))
<1> DEFINE lines == pass.lines
<1>1. lines \in Seq(ToSet(lines)) /\ Len(lines) \in Nat /\ \A n \in 1 .. Len(lines) : IsKept(lines[n])
  BY LenProperties DEF PassOK, ToSet
<1>2. PICK v : Goes(Instructing(pass), v) /\ Instructed(pass) = v[Len(lines)]
  BY <1>1, InstructedGoes
<1>3. /\ v[0] = [trace |-> <<>>, errors |-> pass.errors]
      /\ \A n \in 1 .. Len(lines) : v[n] = Add(v[n - 1], lines[n], Translate(lines[n].text, pass))
  BY <1>2 DEF Goes, Instructing, Apply
<1> HIDE DEF lines
<1> DEFINE P == {n \in 0 .. Len(lines) : Instructs(v[n])}
<1>4. 0 \in P
  <2>1. Coded(<<>>)
    BY DEF Coded
  <2> QED
    BY <1>1, <1>3, <2>1 DEF Instructs
<1>5. ASSUME NEW n \in 1 .. Len(lines), n - 1 \in P PROVE n \in P
  <2> DEFINE i == Translate(lines[n].text, pass)
             to == v[n - 1]
  <2>1. v[n] = Add(to, lines[n], i) /\ Instructs(to)
    BY <1>3, <1>5
  <2>2. i # <<>> => i \in Code /\ ValidInstruction(i)
    BY <1>1, TranslateIsCode DEF IsKept
  <2> HIDE DEF i, to
  <2>3. i # <<>> => Coded(Append(to.trace, i))
    BY <2>1, <2>2, AppendCoded DEF Instructs
  <2>4. Instructs(Add(to, lines[n], i))
    BY <2>1, <2>3 DEF Add, Instructs
  <2> QED
    BY <2>1, <2>4
<1>6. 0 .. Len(lines) \subseteq P
  <2> HIDE DEF P
  <2> QED
    BY <1>1, <1>4, <1>5, Induction
<1> QED
  BY <1>1, <1>2, <1>6

\* A trace without faulty instruction is valid, and there is one without a first fault only.
LEMMA NoFault ==
  ASSUME NEW trace \in Traces
  PROVE  FirstFault(trace) = 0 <=> ValidTrace(trace)
<1>1. DOMAIN trace \subseteq Nat \ {0}
  BY LenProperties DEF Traces
<1>2. Faulty(trace) \in SUBSET (Nat \ {0})
  BY <1>1 DEF Faulty
<1> QED
  BY <1>2, NoEarliest DEF FirstFault, ValidTrace

\* The empty trace is valid.
LEMMA EmptyIsValid == ValidTrace(<<>>)
BY DEF ValidTrace, Traces, Faulty

\* Whatever the lines of a text are, the assembler returns a trace that ValidateTrace passes,
\* the empty one when it reports errors (Assemble).
THEOREM AssembledIsValid ==
  ASSUME NEW source, IsText(source), NEW supplied, WordsIn(supplied)
  PROVE  /\ ValidTrace(Assemble(source, supplied).trace)
         /\ Assemble(source, supplied).errors # <<>> => Assemble(source, supplied).trace = <<>>
<1> DEFINE pass == FirstPass(source, supplied)
           to == Instructed(pass)
           errors == IF to.errors = <<>> THEN Blame(pass, FirstFault(to.trace)) ELSE to.errors
<1>1. Coded(to.trace)
  BY FirstPassTyped, SecondPassTyped DEF ScanOK, Instructs
<1>2. Assemble(source, supplied) = Returned(to.trace, errors)
  BY DEF Assemble, SecondPass, Conclude
<1>3. to.trace \in Traces
  BY <1>1 DEF Coded, Code, Traces
<1> HIDE DEF to, pass
<1>4. ASSUME errors = <<>> PROVE ValidTrace(to.trace)
  <2>1. Blame(pass, FirstFault(to.trace)) = <<>>
    BY <1>4
  <2>2. FirstFault(to.trace) = 0
    BY <2>1 DEF Blame
  <2> QED
    BY <1>3, <2>2, NoFault
<1> HIDE DEF errors
<1>5. /\ Returned(to.trace, errors).trace = (IF errors = <<>> THEN to.trace ELSE <<>>)
      /\ Returned(to.trace, errors).errors = errors
  BY DEF Returned
<1> QED
  BY <1>2, <1>4, <1>5, EmptyIsValid

-----------------------------------------------------------------------------
(* What the first pass knows after each line.                              *)

LinesOf(source, n, kinds) == {k \in 1 .. n : source[k].kind \in kinds}
\* The number of code lines before line n.
CodesIn(source, n) == Cardinality({k \in 1 .. n - 1 : source[k].kind = "code"})
Unnamed(source, k) == \A j \in LinesOf(source, Len(source), {"symbol"}) : source[j].name # source[k].value

Blamed(pass, n) ==
  /\ pass.errors \in Seq(1 .. n)
  /\ \A line \in ToSet(pass.lines) : line.source \in 1 .. n
Placed(source, n, pass) ==
  /\ Len(pass.lines) = CodesIn(source, n + 1)
  /\ \A k \in LinesOf(source, n, {"code"}) :
       /\ source[k].pc \in {NoPC, CodesIn(source, k)}
       /\ CodesIn(source, k) < Len(pass.lines)
       /\ pass.lines[CodesIn(source, k) + 1] = [source |-> k, text |-> source[k]]
LabelsAt(source, n, pass) ==
  /\ DOMAIN pass.labels = {source[k].name : k \in LinesOf(source, n, {"label"})}
  /\ \A k \in LinesOf(source, n, {"label"}) : pass.labels[source[k].name] = CodesIn(source, k)
SymbolsAt(source, n, pass) ==
  /\ DOMAIN pass.symbols = {source[k].name : k \in LinesOf(source, n, {"symbol"})}
  /\ \A k \in LinesOf(source, n, {"symbol"}) :
       Unnamed(source, k) => pass.symbols[source[k].name] = OperandOf(source[k].value, <<>>)
Distinct(source, n) ==
  \A a, b \in LinesOf(source, n, {"label", "symbol"}) : a # b => source[a].name # source[b].name
Known(source, n) == LinesOf(source, n, {"malformed", "directive", "program", "end"}) = {}
Scanned(source, n, pass) ==
  /\ Blamed(pass, n)
  /\ pass.errors = <<>> =>
       /\ Placed(source, n, pass) /\ LabelsAt(source, n, pass) /\ SymbolsAt(source, n, pass)
       /\ Distinct(source, n) /\ Known(source, n)

\* The code lines are counted one by one.
LEMMA CodesCount ==
  ASSUME NEW source, NEW n \in Nat
  PROVE  /\ CodesIn(source, n + 1) \in Nat /\ CodesIn(source, 1) = 0
         /\ n # 0 => CodesIn(source, n + 1)
                       = CodesIn(source, n) + (IF source[n].kind = "code" THEN 1 ELSE 0)
<1> DEFINE Before(m) == {k \in 1 .. m - 1 : source[k].kind = "code"}
<1>1. ASSUME NEW m \in Nat PROVE IsFiniteSet(Before(m + 1))
  <2>1. IsFiniteSet(1 .. m) /\ Before(m + 1) \in SUBSET (1 .. m)
    BY FS_Interval
  <2> QED
    BY <2>1, FS_Subset
<1>2. CodesIn(source, n + 1) \in Nat
  BY <1>1, FS_CardinalityType DEF CodesIn
<1>3. CodesIn(source, 1) = 0
  <2>1. Before(1) = {}
    OBVIOUS
  <2> QED
    BY <2>1, FS_EmptySet DEF CodesIn
<1>4. ASSUME n # 0
      PROVE  CodesIn(source, n + 1) = CodesIn(source, n) + (IF source[n].kind = "code" THEN 1 ELSE 0)
  <2>1. Before(n + 1) = Before(n) \cup (IF source[n].kind = "code" THEN {n} ELSE {}) /\ n \notin Before(n)
    BY <1>4
  <2>2. IsFiniteSet(Before(n))
    <3>1. n - 1 \in Nat /\ (n - 1) + 1 = n
      BY <1>4
    <3> HIDE DEF Before
    <3> QED
      BY <1>1, <3>1
  <2>3. Cardinality(Before(n)) \in Nat
    BY <2>2, FS_CardinalityType
  <2> HIDE DEF Before
  <2>4. Cardinality(Before(n) \cup {n}) = Cardinality(Before(n)) + 1
    BY <2>1, <2>2, FS_AddElement
  <2>5. CodesIn(source, n + 1) = Cardinality(Before(n + 1)) /\ CodesIn(source, n) = Cardinality(Before(n))
    BY DEF CodesIn, Before
  <2> QED
    BY <2>1, <2>3, <2>4, <2>5
<1> QED
  BY <1>2, <1>3, <1>4

\* A line is one of the lines so far, or the last.
LEMMA OneMoreLine ==
  ASSUME NEW source, NEW n \in Nat \ {0}, NEW kinds
  PROVE  LinesOf(source, n, kinds)
           = LinesOf(source, n - 1, kinds) \cup (IF source[n].kind \in kinds THEN {n} ELSE {})
BY DEF LinesOf

\* A line that is refused is to blame.
LEMMA FailScanned ==
  ASSUME NEW source, NEW n \in Nat \ {0}, NEW pass, ScanOK(pass), Blamed(pass, n - 1)
  PROVE  Scanned(source, n, Fail(pass, n))
<1> DEFINE errors == Append(pass.errors, n)
<1>1. pass.errors \in Seq(1 .. n)
  <2>1. 1 .. n - 1 \subseteq 1 .. n
    OBVIOUS
  <2> QED
    BY <2>1, SeqMonotonic DEF Blamed
<1>2. errors \in Seq(1 .. n) /\ Len(errors) = Len(pass.errors) + 1 /\ Len(pass.errors) \in Nat
  BY <1>1, AppendProperties, LenProperties
<1> HIDE DEF errors
<1>3. errors # <<>>
  BY <1>2, EmptySeq
<1>4. Fail(pass, n) = [pass EXCEPT !.errors = errors]
  BY DEF Fail, errors
<1>5. Fail(pass, n).errors = errors /\ Fail(pass, n).lines = pass.lines
  BY <1>4 DEF ScanOK
<1>6. \A line \in ToSet(pass.lines) : line.source \in 1 .. n
  BY DEF Blamed
<1> QED
  BY <1>2, <1>3, <1>5, <1>6 DEF Scanned, Blamed

\* A line that is kept has the pc of the code lines before it.
LEMMA KeepScanned ==
  ASSUME NEW source, NEW n \in Nat \ {0}, NEW pass, ScanOK(pass), Scanned(source, n - 1, pass),
         source[n].kind = "code"
  PROVE  Scanned(source, n, Keep(pass, n, source[n]))
<1> DEFINE line == source[n]
           kept == [source |-> n, text |-> line]
           lines == Append(pass.lines, kept)
           to == [pass EXCEPT !.lines = lines]
           old == ToSet(pass.lines)
<1>1. pass.lines \in Seq(old) /\ Len(pass.lines) \in Nat
  BY LenProperties DEF ScanOK, PassOK
<1>2. /\ Len(lines) = Len(pass.lines) + 1 /\ lines[Len(pass.lines) + 1] = kept
      /\ \A m \in 1 .. Len(pass.lines) : lines[m] = pass.lines[m]
      /\ ToSet(lines) \subseteq old \cup {kept}
  <2>1. pass.lines \in Seq(old \cup {kept})
    BY <1>1, SeqMonotonic
  <2>2. ToSet(lines) \subseteq old \cup {kept}
    BY <1>1, AppendElements
  <2> HIDE DEF old, kept
  <2> QED
    BY <2>1, <2>2, AppendProperties
<1>3. kept.source = n /\ kept.source \in 1 .. n
  OBVIOUS
<1>4. pass.errors \in Seq(1 .. n) /\ \A x \in old \cup {kept} : x.source \in 1 .. n
  <2>1. 1 .. n - 1 \subseteq 1 .. n
    OBVIOUS
  <2>2. pass.errors \in Seq(1 .. n)
    BY <2>1, SeqMonotonic DEF Scanned, Blamed
  <2>3. \A x \in old : x.source \in 1 .. n
    BY <2>1 DEF Scanned, Blamed
  <2> QED
    BY <1>3, <2>2, <2>3
<1> HIDE DEF lines, kept, old
<1>5. /\ to.lines = lines /\ to.errors = pass.errors /\ to.labels = pass.labels
      /\ to.symbols = pass.symbols
  BY DEF ScanOK
<1> HIDE DEF to
<1>6. Blamed(to, n)
  BY <1>2, <1>4, <1>5 DEF Blamed
<1>7. ASSUME line.pc \in {NoPC, Len(pass.lines)}, pass.errors = <<>>
      PROVE  Placed(source, n, to)
  <2>1. Placed(source, n - 1, pass) /\ (n - 1) + 1 = n
    BY <1>7 DEF Scanned
  <2>2. Len(pass.lines) = CodesIn(source, n)
    BY <2>1 DEF Placed
  <2>3. CodesIn(source, n + 1) = CodesIn(source, n) + 1
    BY CodesCount
  <2>4. Len(lines) = CodesIn(source, n + 1)
    BY <1>2, <2>2, <2>3
  <2>5. ASSUME NEW k \in LinesOf(source, n, {"code"})
        PROVE  /\ source[k].pc \in {NoPC, CodesIn(source, k)}
               /\ CodesIn(source, k) < Len(lines)
               /\ lines[CodesIn(source, k) + 1] = [source |-> k, text |-> source[k]]
    <3>1. CASE k = n
      BY <1>1, <1>2, <1>7, <2>2, <3>1 DEF kept
    <3>2. CASE k # n
      <4>1. k \in LinesOf(source, n - 1, {"code"})
        BY <3>2, OneMoreLine
      <4>2. /\ source[k].pc \in {NoPC, CodesIn(source, k)}
            /\ CodesIn(source, k) < Len(pass.lines)
            /\ pass.lines[CodesIn(source, k) + 1] = [source |-> k, text |-> source[k]]
        BY <2>1, <4>1 DEF Placed
      <4>3. CodesIn(source, k) \in Nat
        <5>1. k - 1 \in Nat /\ (k - 1) + 1 = k
          BY <4>1 DEF LinesOf
        <5> QED
          BY <5>1, CodesCount
      <4>4. CodesIn(source, k) + 1 \in 1 .. Len(pass.lines)
        BY <1>1, <4>2, <4>3
      <4> QED
        BY <1>1, <1>2, <4>2, <4>3, <4>4
    <3> QED
      BY <3>1, <3>2
  <2> QED
    BY <1>5, <2>4, <2>5 DEF Placed
<1>8. ASSUME NEW kinds, "code" \notin kinds
      PROVE  LinesOf(source, n, kinds) = LinesOf(source, n - 1, kinds)
  <2>1. source[n].kind \notin kinds
    BY <1>8
  <2> QED
    BY <2>1 DEF LinesOf
<1>9. /\ LinesOf(source, n, {"label"}) = LinesOf(source, n - 1, {"label"})
      /\ LinesOf(source, n, {"symbol"}) = LinesOf(source, n - 1, {"symbol"})
      /\ LinesOf(source, n, {"label", "symbol"}) = LinesOf(source, n - 1, {"label", "symbol"})
      /\ LinesOf(source, n, {"malformed", "directive", "program", "end"})
           = LinesOf(source, n - 1, {"malformed", "directive", "program", "end"})
  BY <1>8
<1>10. ASSUME line.pc \in {NoPC, Len(pass.lines)} PROVE Scanned(source, n, to)
  <2>1. ASSUME pass.errors = <<>>
        PROVE  /\ LabelsAt(source, n, to) /\ SymbolsAt(source, n, to)
               /\ Distinct(source, n) /\ Known(source, n)
    <3>1. /\ LabelsAt(source, n - 1, pass) /\ SymbolsAt(source, n - 1, pass)
          /\ Distinct(source, n - 1) /\ Known(source, n - 1)
      BY <2>1 DEF Scanned
    <3>2. LabelsAt(source, n, to)
      BY <1>5, <1>9, <3>1 DEF LabelsAt
    <3>3. SymbolsAt(source, n, to)
      BY <1>5, <1>9, <3>1 DEF SymbolsAt
    <3>4. Distinct(source, n) /\ Known(source, n)
      BY <1>9, <3>1 DEF Distinct, Known
    <3> QED
      BY <3>2, <3>3, <3>4
  <2> QED
    BY <1>5, <1>6, <1>7, <1>10, <2>1 DEF Scanned
<1>11. Keep(pass, n, line) = IF line.pc \in {NoPC, Len(pass.lines)} THEN to ELSE Fail(pass, n)
  BY DEF Keep, to, lines, kept
<1>12. Scanned(source, n, Fail(pass, n))
  BY FailScanned DEF Scanned
<1> QED
  BY <1>10, <1>11, <1>12

\* Lines of other kinds leave the code where it is.
LEMMA OthersPlaced ==
  ASSUME NEW source, NEW n \in Nat \ {0}, NEW pass, Placed(source, n - 1, pass),
         source[n].kind # "code", NEW to, to.lines = pass.lines
  PROVE  Placed(source, n, to)
<1>1. LinesOf(source, n, {"code"}) = LinesOf(source, n - 1, {"code"})
  BY DEF LinesOf
<1>2. CodesIn(source, n + 1) = CodesIn(source, n) + 0 /\ CodesIn(source, n) \in Nat
  <2>1. n - 1 \in Nat /\ (n - 1) + 1 = n
    OBVIOUS
  <2>2. CodesIn(source, n) \in Nat
    BY <2>1, CodesCount
  <2> QED
    BY <2>2, CodesCount
<1>3. Len(pass.lines) = CodesIn(source, n)
  <2>1. (n - 1) + 1 = n
    OBVIOUS
  <2> QED
    BY <2>1 DEF Placed
<1> QED
  BY <1>1, <1>2, <1>3 DEF Placed

\* A line adds its name to the names before it, which are others.
LEMMA NameAdds ==
  ASSUME NEW source, NEW n \in Nat \ {0}, Distinct(source, n - 1),
         source[n].kind \in {"label", "symbol"},
         \A k \in LinesOf(source, n - 1, {"label", "symbol"}) : source[k].name # source[n].name
  PROVE  Distinct(source, n)
<1>1. LinesOf(source, n, {"label", "symbol"}) = LinesOf(source, n - 1, {"label", "symbol"}) \cup {n}
  BY DEF LinesOf
<1> QED
  BY <1>1 DEF Distinct

\* A label stands for the number of code lines before it.
LEMMA LabelScanned ==
  ASSUME NEW source, NEW n \in Nat \ {0}, NEW pass, ScanOK(pass), Scanned(source, n - 1, pass),
         source[n].kind = "label"
  PROVE  Scanned(source, n, Label(pass, n, source[n]))
<1> DEFINE name == source[n].name
           labels == Enter(pass.labels, name, Len(pass.lines))
           to == [pass EXCEPT !.labels = labels]
           taken == Knows(pass.symbols, name) \/ Knows(pass.labels, name)
<1>1. Label(pass, n, source[n]) = IF taken THEN Fail(pass, n) ELSE to
  BY DEF Label
<1>2. Scanned(source, n, Fail(pass, n))
  BY FailScanned DEF Scanned
<1> HIDE DEF labels
<1>3. /\ to.lines = pass.lines /\ to.errors = pass.errors /\ to.labels = labels
      /\ to.symbols = pass.symbols
  BY DEF ScanOK
<1> HIDE DEF to
<1>4. Blamed(to, n)
  <2>1. 1 .. n - 1 \subseteq 1 .. n
    OBVIOUS
  <2>2. pass.errors \in Seq(1 .. n)
    BY <2>1, SeqMonotonic DEF Scanned, Blamed
  <2>3. \A line \in ToSet(pass.lines) : line.source \in 1 .. n
    BY <2>1 DEF Scanned, Blamed
  <2> QED
    BY <1>3, <2>2, <2>3 DEF Blamed
<1>5. ASSUME ~taken, pass.errors = <<>>
      PROVE  /\ Placed(source, n, to) /\ LabelsAt(source, n, to) /\ SymbolsAt(source, n, to)
             /\ Distinct(source, n) /\ Known(source, n)
  <2>1. /\ Placed(source, n - 1, pass) /\ LabelsAt(source, n - 1, pass) /\ SymbolsAt(source, n - 1, pass)
        /\ Distinct(source, n - 1) /\ Known(source, n - 1)
    BY <1>5 DEF Scanned
  <2>2. Placed(source, n, to)
    BY <1>3, <2>1, OthersPlaced
  <2>3. Len(pass.lines) = CodesIn(source, n)
    <3>1. (n - 1) + 1 = n
      OBVIOUS
    <3> QED
      BY <2>1, <3>1 DEF Placed
  <2>4. /\ LinesOf(source, n, {"label"}) = LinesOf(source, n - 1, {"label"}) \cup {n}
        /\ LinesOf(source, n, {"symbol"}) = LinesOf(source, n - 1, {"symbol"})
        /\ LinesOf(source, n, {"malformed", "directive", "program", "end"})
             = LinesOf(source, n - 1, {"malformed", "directive", "program", "end"})
    BY DEF LinesOf
  <2>5. /\ DOMAIN labels = DOMAIN pass.labels \cup {name} /\ labels[name] = Len(pass.lines)
        /\ \A x \in DOMAIN pass.labels : labels[x] = pass.labels[x]
    <3>1. ~Knows(pass.labels, name)
      BY <1>5
    <3> HIDE DEF name, taken
    <3> QED
      BY <3>1 DEF labels, Enter, Knows
  <2>6. LabelsAt(source, n, to)
    BY <1>3, <2>1, <2>3, <2>4, <2>5 DEF LabelsAt
  <2>7. SymbolsAt(source, n, to)
    BY <1>3, <2>1, <2>4 DEF SymbolsAt
  <2>8. ASSUME NEW k \in LinesOf(source, n - 1, {"label", "symbol"}) PROVE source[k].name # name
    <3>1. k \in LinesOf(source, n - 1, {"label"}) \/ k \in LinesOf(source, n - 1, {"symbol"})
      BY DEF LinesOf
    <3> QED
      BY <1>5, <2>1, <3>1 DEF LabelsAt, SymbolsAt, Knows
  <2>9. Distinct(source, n)
    BY <2>1, <2>8, NameAdds
  <2>10. Known(source, n)
    BY <2>1, <2>4 DEF Known
  <2> QED
    BY <2>2, <2>6, <2>7, <2>9, <2>10
<1> HIDE DEF taken
<1>6. ~taken => Scanned(source, n, to)
  BY <1>3, <1>4, <1>5 DEF Scanned
<1> QED
  BY <1>1, <1>2, <1>6

\* A symbol stands for its value.
LEMMA SymbolScanned ==
  ASSUME NEW source, NEW n \in 1 .. Len(source), NEW pass, ScanOK(pass),
         Len(source) \in Nat, Scanned(source, n - 1, pass), source[n].kind = "symbol"
  PROVE  Scanned(source, n, DefineSymbol(pass, n, source[n]))
<1> DEFINE name == source[n].name
           value == OperandOf(source[n].value, pass.symbols)
           symbols == Enter(pass.symbols, name, value)
           to == [pass EXCEPT !.symbols = symbols]
           taken == Knows(pass.symbols, name) \/ Knows(pass.labels, name)
<1>0. n \in Nat \ {0}
  OBVIOUS
<1>1. DefineSymbol(pass, n, source[n]) = IF value = Bad THEN Fail(pass, n)
                                         ELSE IF taken THEN Fail(to, n) ELSE to
  BY DEF DefineSymbol
<1>2. Scanned(source, n, Fail(pass, n))
  BY <1>0, FailScanned DEF Scanned
<1> HIDE DEF symbols
<1>3. /\ to.lines = pass.lines /\ to.errors = pass.errors /\ to.labels = pass.labels
      /\ to.symbols = symbols
  BY DEF ScanOK
<1>4. Blamed(to, n - 1)
  BY <1>3 DEF Scanned, Blamed
<1>5. DOMAIN to = DOMAIN pass
  OBVIOUS
<1> HIDE DEF to, value
<1>6. Scanned(source, n, Fail(to, n))
  <2> DEFINE errors == Append(to.errors, n)
  <2>1. errors \in Seq(1 .. n) /\ errors # <<>>
    <3>1. 1 .. n - 1 \subseteq 1 .. n
      OBVIOUS
    <3>2. to.errors \in Seq(1 .. n)
      BY <1>4, <3>1, SeqMonotonic DEF Blamed
    <3>3. errors \in Seq(1 .. n) /\ Len(errors) = Len(to.errors) + 1 /\ Len(to.errors) \in Nat
      BY <1>0, <3>2, AppendProperties, LenProperties
    <3> HIDE DEF errors
    <3> QED
      BY <3>3, EmptySeq
  <2> HIDE DEF errors
  <2>2. Fail(to, n) = [to EXCEPT !.errors = errors]
    BY DEF Fail, errors
  <2>3. Fail(to, n).errors = errors /\ Fail(to, n).lines = to.lines
    BY <1>5, <2>2 DEF ScanOK
  <2>4. \A line \in ToSet(to.lines) : line.source \in 1 .. n
    BY <1>4 DEF Blamed
  <2> QED
    BY <2>1, <2>3, <2>4 DEF Scanned, Blamed
<1>7. Blamed(to, n)
  <2>1. 1 .. n - 1 \subseteq 1 .. n
    OBVIOUS
  <2>2. to.errors \in Seq(1 .. n)
    BY <1>4, <2>1, SeqMonotonic DEF Blamed
  <2>3. \A line \in ToSet(to.lines) : line.source \in 1 .. n
    BY <1>4, <2>1 DEF Blamed
  <2> QED
    BY <2>2, <2>3 DEF Blamed
<1>8. ASSUME ~taken, pass.errors = <<>>
      PROVE  /\ Placed(source, n, to) /\ LabelsAt(source, n, to) /\ SymbolsAt(source, n, to)
             /\ Distinct(source, n) /\ Known(source, n)
  <2>1. /\ Placed(source, n - 1, pass) /\ LabelsAt(source, n - 1, pass) /\ SymbolsAt(source, n - 1, pass)
        /\ Distinct(source, n - 1) /\ Known(source, n - 1)
    BY <1>8 DEF Scanned
  <2>2. Placed(source, n, to)
    BY <1>0, <1>3, <2>1, OthersPlaced
  <2>3. /\ LinesOf(source, n, {"symbol"}) = LinesOf(source, n - 1, {"symbol"}) \cup {n}
        /\ LinesOf(source, n, {"label"}) = LinesOf(source, n - 1, {"label"})
        /\ LinesOf(source, n, {"malformed", "directive", "program", "end"})
             = LinesOf(source, n - 1, {"malformed", "directive", "program", "end"})
    BY DEF LinesOf
  <2>4. /\ DOMAIN symbols = DOMAIN pass.symbols \cup {name} /\ symbols[name] = value
        /\ \A x \in DOMAIN pass.symbols : symbols[x] = pass.symbols[x]
    <3>1. ~Knows(pass.symbols, name)
      BY <1>8
    <3> HIDE DEF name, taken
    <3> QED
      BY <3>1 DEF symbols, Enter, Knows
  <2>5. LabelsAt(source, n, to)
    BY <1>3, <2>1, <2>3 DEF LabelsAt
  <2>6. ASSUME Unnamed(source, n) PROVE value = OperandOf(source[n].value, <<>>)
    <3>1. LinesOf(source, n - 1, {"symbol"}) \subseteq LinesOf(source, Len(source), {"symbol"})
      BY DEF LinesOf
    <3>2. source[n].value \notin DOMAIN pass.symbols
      BY <2>1, <2>6, <3>1 DEF SymbolsAt, Unnamed
    <3>3. DOMAIN <<>> = {}
      OBVIOUS
    <3> QED
      BY <3>2, <3>3 DEF OperandOf, value
  <2>7. SymbolsAt(source, n, to)
    <3>1. ASSUME NEW k \in LinesOf(source, n, {"symbol"}), Unnamed(source, k)
          PROVE  symbols[source[k].name] = OperandOf(source[k].value, <<>>)
      <4>1. CASE k = n
        BY <2>4, <2>6, <3>1, <4>1
      <4>2. CASE k # n
        <5>1. k \in LinesOf(source, n - 1, {"symbol"})
          BY <2>3, <4>2
        <5>2. source[k].name \in DOMAIN pass.symbols
              /\ pass.symbols[source[k].name] = OperandOf(source[k].value, <<>>)
          BY <2>1, <3>1, <5>1 DEF SymbolsAt
        <5> QED
          BY <2>4, <5>2
      <4> QED
        BY <4>1, <4>2
    <3>2. DOMAIN symbols = {source[k].name : k \in LinesOf(source, n, {"symbol"})}
      BY <2>1, <2>3, <2>4 DEF SymbolsAt
    <3> QED
      BY <1>3, <3>1, <3>2 DEF SymbolsAt
  <2>8. ASSUME NEW k \in LinesOf(source, n - 1, {"label", "symbol"}) PROVE source[k].name # name
    <3>1. k \in LinesOf(source, n - 1, {"label"}) \/ k \in LinesOf(source, n - 1, {"symbol"})
      BY DEF LinesOf
    <3> QED
      BY <1>8, <2>1, <3>1 DEF LabelsAt, SymbolsAt, Knows
  <2>9. Distinct(source, n)
    BY <1>0, <2>1, <2>8, NameAdds
  <2>10. Known(source, n)
    BY <2>1, <2>3 DEF Known
  <2> QED
    BY <2>2, <2>5, <2>7, <2>9, <2>10
<1> HIDE DEF taken
<1>9. ~taken => Scanned(source, n, to)
  BY <1>3, <1>7, <1>8 DEF Scanned
<1> QED
  BY <1>1, <1>2, <1>6, <1>9

\* The first pass knows the lines before the last, and then the last.
LEMMA LineScanned ==
  ASSUME NEW source, NEW n \in 1 .. Len(source), NEW pass, ScanOK(pass),
         Len(source) \in Nat, IsLine(source[n]), Scanned(source, n - 1, pass)
  PROVE  Scanned(source, n, Scan(pass, n, source[n]))
<1>0. n \in Nat \ {0}
  OBVIOUS
<1>1. CASE source[n].kind \in {"blank", "header"}
  <2>1. Scan(pass, n, source[n]) = pass
    BY <1>1 DEF Scan
  <2>2. Blamed(pass, n)
    <3>1. 1 .. n - 1 \subseteq 1 .. n
      OBVIOUS
    <3>2. pass.errors \in Seq(1 .. n)
      BY <3>1, SeqMonotonic DEF Scanned, Blamed
    <3>3. \A line \in ToSet(pass.lines) : line.source \in 1 .. n
      BY <3>1 DEF Scanned, Blamed
    <3> QED
      BY <3>2, <3>3 DEF Blamed
  <2>3. /\ LinesOf(source, n, {"label"}) = LinesOf(source, n - 1, {"label"})
        /\ LinesOf(source, n, {"symbol"}) = LinesOf(source, n - 1, {"symbol"})
        /\ LinesOf(source, n, {"label", "symbol"}) = LinesOf(source, n - 1, {"label", "symbol"})
        /\ LinesOf(source, n, {"malformed", "directive", "program", "end"})
             = LinesOf(source, n - 1, {"malformed", "directive", "program", "end"})
    BY <1>1 DEF LinesOf
  <2>4. ASSUME pass.errors = <<>> PROVE Placed(source, n, pass)
    BY <1>0, <1>1, <2>4, OthersPlaced DEF Scanned
  <2>5. ASSUME pass.errors = <<>> PROVE LabelsAt(source, n, pass) /\ SymbolsAt(source, n, pass)
    BY <2>3, <2>5 DEF Scanned, LabelsAt, SymbolsAt
  <2>6. ASSUME pass.errors = <<>> PROVE Distinct(source, n) /\ Known(source, n)
    BY <2>3, <2>6 DEF Scanned, Distinct, Known
  <2> QED
    BY <2>1, <2>2, <2>4, <2>5, <2>6 DEF Scanned
<1>2. CASE source[n].kind = "symbol"
  BY <1>2, SymbolScanned DEF Scan
<1>3. CASE source[n].kind = "label"
  BY <1>0, <1>3, LabelScanned DEF Scan
<1>4. CASE source[n].kind = "code"
  BY <1>0, <1>4, KeepScanned DEF Scan
<1>5. CASE source[n].kind \notin {"blank", "header", "symbol", "label", "code"}
  <2>1. Scan(pass, n, source[n]) = Fail(pass, n)
    BY <1>5 DEF Scan
  <2> QED
    BY <1>0, <2>1, FailScanned DEF Scanned
<1> QED
  BY <1>1, <1>2, <1>3, <1>4, <1>5

\* The first pass knows every line.
LEMMA FirstPassScanned ==
  ASSUME NEW source, IsText(source)
  PROVE  Scanned(source, Len(source), FirstPass(source, <<>>))
<1>1. source \in Seq(ToSet(source)) /\ \A n \in 1 .. Len(source) : IsLine(source[n])
  BY LenProperties DEF IsText
<1>2. PICK v : Goes(Pass(source, <<>>), v) /\ FirstPass(source, <<>>) = v[Len(source)]
  BY <1>1, FirstPassGoes
<1>3. v[0] = Start(<<>>) /\ \A n \in 1 .. Len(source) : v[n] = Scan(v[n - 1], n, source[n])
  BY <1>2 DEF Goes, Pass, Apply
<1>4. Len(source) \in Nat
  BY <1>1, LenProperties
<1> DEFINE P == {n \in 0 .. Len(source) : ScanOK(v[n]) /\ Scanned(source, n, v[n])}
<1>5. 0 \in P
  <2>1. ScanOK(Start(<<>>))
    BY DEF ScanOK, PassOK, Start, ToSet, WordsIn
  <2>2. /\ Start(<<>>).errors = <<>> /\ Start(<<>>).lines = <<>>
        /\ DOMAIN Start(<<>>).symbols = {} /\ DOMAIN Start(<<>>).labels = {}
    BY DEF Start
  <2>3. \A kinds : LinesOf(source, 0, kinds) = {}
    BY DEF LinesOf
  <2>4. ToSet(<<>>) = {} /\ Len(<<>>) = 0
    BY DEF ToSet
  <2>5. CodesIn(source, 0 + 1) = 0
    BY CodesCount
  <2>6. /\ Blamed(Start(<<>>), 0) /\ Placed(source, 0, Start(<<>>))
        /\ LabelsAt(source, 0, Start(<<>>)) /\ SymbolsAt(source, 0, Start(<<>>))
        /\ Distinct(source, 0) /\ Known(source, 0)
    <3>1. Blamed(Start(<<>>), 0)
      BY <2>2, <2>4, EmptySeq DEF Blamed
    <3>2. Placed(source, 0, Start(<<>>))
      BY <2>2, <2>3, <2>4, <2>5 DEF Placed
    <3>3. LabelsAt(source, 0, Start(<<>>)) /\ SymbolsAt(source, 0, Start(<<>>))
      BY <2>2, <2>3 DEF LabelsAt, SymbolsAt
    <3>4. Distinct(source, 0) /\ Known(source, 0)
      BY <2>3 DEF Distinct, Known
    <3> QED
      BY <3>1, <3>2, <3>3, <3>4
  <2> QED
    BY <1>3, <1>4, <2>1, <2>6 DEF Scanned
<1>6. ASSUME NEW n \in 1 .. Len(source), n - 1 \in P PROVE n \in P
  <2>1. ScanOK(v[n - 1]) /\ Scanned(source, n - 1, v[n - 1]) /\ IsLine(source[n]) /\ n \in Nat \ {0}
    BY <1>1, <1>6
  <2>2. ScanOK(Scan(v[n - 1], n, source[n]))
    BY <2>1, ScanKeeps
  <2>3. Scanned(source, n, Scan(v[n - 1], n, source[n]))
    BY <1>4, <2>1, LineScanned
  <2> QED
    BY <1>3, <2>2, <2>3
<1>7. 0 .. Len(source) \subseteq P
  <2> HIDE DEF P
  <2> QED
    BY <1>4, <1>5, <1>6, Induction
<1> QED
  BY <1>2, <1>4, <1>7

-----------------------------------------------------------------------------
(* What the second pass makes of it.                                       *)

\* What is made of the first k lines of a pass.
MadeOf(pass, N, k, to) ==
  /\ DOMAIN to = {"trace", "errors"}
  /\ to.errors \in Seq(1 .. N) /\ Len(to.trace) \in Nat
  /\ to.errors = <<>> =>
       /\ pass.errors = <<>> /\ Len(to.trace) = k
       /\ \A j \in 1 .. k : /\ Translate(pass.lines[j].text, pass) # <<>>
                             /\ to.trace[j] = Translate(pass.lines[j].text, pass)

\* The second pass translates each line that was kept, or blames it.
LEMMA InstructedMade ==
  ASSUME NEW pass, ScanOK(pass), NEW N \in Nat, Blamed(pass, N)
  PROVE  MadeOf(pass, N, Len(pass.lines), Instructed(pass))
<1>1. pass.lines \in Seq(ToSet(pass.lines)) /\ Len(pass.lines) \in Nat
  BY LenProperties DEF ScanOK, PassOK
<1>2. PICK v : Goes(Instructing(pass), v) /\ Instructed(pass) = v[Len(pass.lines)]
  BY <1>1, InstructedGoes
<1>3. /\ v[0] = [trace |-> <<>>, errors |-> pass.errors]
      /\ \A n \in 1 .. Len(pass.lines) :
           v[n] = Add(v[n - 1], pass.lines[n], Translate(pass.lines[n].text, pass))
  BY <1>1, <1>2 DEF Goes, Instructing, Apply
<1>4. \A n \in 1 .. Len(pass.lines) : pass.lines[n].source \in 1 .. N /\ IsKept(pass.lines[n])
  BY <1>1, LenProperties DEF Blamed, ToSet, ScanOK, PassOK
<1> DEFINE P == {k \in 0 .. Len(pass.lines) : MadeOf(pass, N, k, v[k]) /\ Coded(v[k].trace)}
<1>5. 0 \in P
  <2>1. v[0].trace = <<>> /\ v[0].errors = pass.errors /\ Len(<<>>) = 0
    BY <1>3
  <2>2. MadeOf(pass, N, 0, v[0])
    BY <1>3, <2>1 DEF MadeOf, Blamed
  <2>3. Coded(<<>>)
    BY DEF Coded
  <2> QED
    BY <1>1, <2>1, <2>2, <2>3
<1>6. ASSUME NEW k \in 1 .. Len(pass.lines), k - 1 \in P PROVE k \in P
  <2> DEFINE to == v[k - 1]
             i == Translate(pass.lines[k].text, pass)
             line == pass.lines[k]
             errors == Append(to.errors, line.source)
             longer == Append(to.trace, i)
  <2>1. MadeOf(pass, N, k - 1, to) /\ Coded(to.trace) /\ k - 1 \in Nat
    BY <1>1, <1>6
  <2>2. v[k] = IF i = <<>> THEN [to EXCEPT !.errors = errors] ELSE [to EXCEPT !.trace = longer]
    BY <1>3 DEF Add
  <2>3. IsLine(line.text) /\ line.text.kind = "code" /\ line.source \in 1 .. N
    BY <1>4 DEF IsKept
  <2>4. PassOK(pass)
    BY DEF ScanOK
  <2> HIDE DEF to
  <2>5. CASE i = <<>>
    <3>1. errors \in Seq(1 .. N) /\ Len(errors) = Len(to.errors) + 1 /\ Len(to.errors) \in Nat
      BY <2>1, <2>3, AppendProperties, LenProperties DEF MadeOf
    <3> HIDE DEF errors, i
    <3>2. errors # <<>>
      BY <3>1, EmptySeq
    <3>3. v[k] = [to EXCEPT !.errors = errors]
      BY <2>2, <2>5
    <3>4. DOMAIN v[k] = {"trace", "errors"} /\ v[k].errors = errors /\ v[k].trace = to.trace
      BY <2>1, <3>3 DEF MadeOf
    <3>5. MadeOf(pass, N, k, v[k])
      BY <2>1, <3>1, <3>2, <3>4 DEF MadeOf
    <3> QED
      BY <1>1, <2>1, <3>4, <3>5
  <2>6. CASE i # <<>>
    <3>1. i \in Code /\ ValidInstruction(i)
      BY <2>3, <2>4, <2>6, TranslateIsCode
    <3>2. Coded(longer)
      BY <2>1, <3>1, AppendCoded
    <3>3. to.trace \in Seq(Code)
      BY <2>1 DEF Coded
    <3>4. /\ Len(longer) = Len(to.trace) + 1 /\ Len(to.trace) \in Nat
          /\ \A j \in 1 .. Len(to.trace) : longer[j] = to.trace[j]
          /\ longer[Len(to.trace) + 1] = i
      BY <3>1, <3>3, AppendProperties, LenProperties
    <3> HIDE DEF longer
    <3>5. v[k] = [to EXCEPT !.trace = longer]
      BY <2>2, <2>6
    <3>6. DOMAIN v[k] = {"trace", "errors"} /\ v[k].errors = to.errors /\ v[k].trace = longer
      BY <2>1, <3>5 DEF MadeOf
    <3>7. ASSUME to.errors = <<>>
          PROVE  /\ pass.errors = <<>> /\ Len(longer) = k
                 /\ \A j \in 1 .. k : /\ Translate(pass.lines[j].text, pass) # <<>>
                                      /\ longer[j] = Translate(pass.lines[j].text, pass)
      <4>1. /\ pass.errors = <<>> /\ Len(to.trace) = k - 1
            /\ \A j \in 1 .. k - 1 : /\ Translate(pass.lines[j].text, pass) # <<>>
                                      /\ to.trace[j] = Translate(pass.lines[j].text, pass)
        BY <2>1, <3>7 DEF MadeOf
      <4>2. Len(longer) = k /\ longer[k] = i
        BY <1>1, <3>4, <4>1
      <4>3. ASSUME NEW j \in 1 .. k
            PROVE  /\ Translate(pass.lines[j].text, pass) # <<>>
                   /\ longer[j] = Translate(pass.lines[j].text, pass)
        <5>1. CASE j = k
          BY <2>6, <4>2, <5>1
        <5>2. CASE j # k
          <6>1. j \in 1 .. k - 1
            BY <5>2
          <6> QED
            BY <3>4, <4>1, <6>1
        <5> QED
          BY <5>1, <5>2
      <4> QED
        BY <4>1, <4>2, <4>3
    <3>8. MadeOf(pass, N, k, v[k])
      BY <2>1, <3>4, <3>6, <3>7 DEF MadeOf
    <3> QED
      BY <1>1, <3>2, <3>6, <3>8
  <2> QED
    BY <2>5, <2>6
<1>7. 0 .. Len(pass.lines) \subseteq P
  <2> HIDE DEF P
  <2> QED
    BY <1>1, <1>5, <1>6, Induction
<1> QED
  BY <1>1, <1>2, <1>7

\* A remainder keeps its remainders by divisors.
LEMMA ModMod ==
  ASSUME NEW c \in Nat \ {0}, NEW r \in Nat \ {0}, NEW x \in Nat
  PROVE  (x % (r * c)) % c = x % c
<1> DEFINE d == r * c
           y == x % d
           q == x \div d
           t == y % c
           e == y \div c
<1>1. d \in Nat \ {0}
  OBVIOUS
<1> HIDE DEF d
<1>2. y \in Nat /\ q \in Nat /\ x = d * q + y
  BY <1>1
<1> HIDE DEF y, q
<1>3. t \in 0 .. c - 1 /\ e \in Nat /\ y = c * e + t
  BY <1>2
<1> HIDE DEF t, e
<1>4. x = (r * c) * q + (c * e + t)
  BY <1>2, <1>3 DEF d
<1>5. ASSUME NEW u \in Nat, NEW v \in Nat PROVE (r * c) * u + (c * v + t) = (r * u + v) * c + t
  BY <1>3
<1>6. x = (r * q + e) * c + t /\ r * q + e \in Nat
  BY <1>2, <1>3, <1>4, <1>5
<1>7. ((r * q + e) * c + t) % c = t
  BY <1>3, <1>6, DivUnique
<1> QED
  BY <1>6, <1>7 DEF t, y, d

\* The opcode of an operation comes back.
LEMMA OpcodeBack ==
  ASSUME NEW code \in Nat, code < 2^OpBits, NEW sub, NEW flags, NEW cause, NEW aux,
         {sub, flags, cause, aux} \subseteq Int
  PROVE  CodeOf(Op(code, sub, flags, cause, aux)) = code
<1> DEFINE c == 2^OpBits
           subs == OpBits + SubBits
           others == OpBits + SubBits + FlagsBits
           last == OpBits + SubBits + FlagsBits + CauseBits
           wide == SubBits + FlagsBits
           wider == SubBits + FlagsBits + CauseBits
           above == PayloadBits - OpBits
           S == Mask(sub, SubBits)
           G == Mask(flags, FlagsBits)
           U == Mask(cause, CauseBits)
           X == Mask(aux, AuxBits)
           rest == S + G * 2^SubBits + U * 2^wide + X * 2^wider
           p == Mask(code, OpBits) + S * c + G * 2^subs + U * 2^others + X * 2^last
<1>1. /\ OpBits \in Nat \ {0} /\ SubBits \in Nat /\ FlagsBits \in Nat /\ CauseBits \in Nat
      /\ AuxBits \in Nat /\ OpBits + SubBits + FlagsBits + CauseBits + AuxBits <= PayloadBits
  BY WidthsAssumption DEF SubBits
<1>2. PayloadBits \in Nat /\ PayloadBits <= WordBits
  BY TagsFit
<1>3. /\ 2^subs = c * 2^SubBits /\ 2^others = c * 2^wide /\ 2^last = c * 2^wider
      /\ 2^PayloadBits = c * 2^above
  <2>1. /\ wide \in Nat /\ wider \in Nat /\ above \in Nat
        /\ OpBits + SubBits <= WordBits /\ OpBits + wide <= WordBits /\ OpBits + wider <= WordBits
        /\ OpBits + above <= WordBits
        /\ others = OpBits + wide /\ last = OpBits + wider /\ PayloadBits = OpBits + above
    BY <1>1, <1>2, TagsFit
  <2> HIDE DEF wide, wider, above, others, last
  <2> QED
    BY <1>1, <2>1, PowersAdd
<1>4. /\ c \in Nat \ {0} /\ 2^SubBits \in Nat /\ 2^wide \in Nat /\ 2^wider \in Nat
      /\ 2^above \in Nat \ {0}
  <2>1. {OpBits, SubBits, wide, wider, above} \subseteq 0 .. WordBits
    BY <1>1, <1>2, TagsFit
  <2> HIDE DEF wide, wider, above
  <2> QED
    BY <2>1, PowersUpTo
<1>5. S \in Nat /\ G \in Nat /\ U \in Nat /\ X \in Nat /\ Mask(code, OpBits) = code
  <2>1. Mask(code, OpBits) = code
    BY <1>4 DEF Mask
  <2> QED
    BY <2>1, FieldsFit, Masked
<1> HIDE DEF S, G, U, X, c, wide, wider, above, subs, others, last
<1>6. p = rest * c + code /\ rest \in Nat
  <2>1. ASSUME NEW a \in Nat, NEW b \in Nat PROVE a * (c * b) = (a * b) * c
    BY <1>4
  <2>2. /\ G * (c * 2^SubBits) = (G * 2^SubBits) * c /\ U * (c * 2^wide) = (U * 2^wide) * c
        /\ X * (c * 2^wider) = (X * 2^wider) * c
    BY <1>4, <1>5, <2>1
  <2>3. G * 2^SubBits \in Nat /\ U * 2^wide \in Nat /\ X * 2^wider \in Nat
    BY <1>4, <1>5
  <2>4. ASSUME NEW g \in Nat, NEW u \in Nat, NEW x \in Nat
        PROVE  code + S * c + g * c + u * c + x * c = (S + g + u + x) * c + code
    BY <1>4, <1>5 DEF c
  <2>5. p = code + S * c + (G * 2^SubBits) * c + (U * 2^wide) * c + (X * 2^wider) * c
    BY <1>3, <1>5, <2>2
  <2>6. rest \in Nat
    BY <1>5, <2>3
  <2> QED
    BY <2>3, <2>4, <2>5, <2>6
<1> HIDE DEF rest
<1>7. p \in Nat /\ p % c = code
  <2>1. code \in 0 .. c - 1
    BY <1>4 DEF c
  <2>2. (rest * c + code) % c = code
    BY <1>4, <1>6, <2>1, DivUnique
  <2>3. rest * c + code \in Nat
    BY <1>4, <1>6, <2>1
  <2> HIDE DEF p
  <2> QED
    BY <1>6, <2>2, <2>3
<1>8. Op(code, sub, flags, cause, aux) = MakeTagged(OperationTag, p)
  BY DEF Op, S, G, U, X, c, subs, others, last
<1> HIDE DEF p
<1>9. PayloadOf(MakeTagged(OperationTag, p)) = p % 2^PayloadBits
  <2>1. OperationTag \in 0 .. 7
    BY DEF OperationTag
  <2> QED
    BY <1>7, <2>1, Tagged
<1>10. (p % 2^PayloadBits) % c = code
  <2>1. 2^PayloadBits = 2^above * c
    BY <1>3, <1>4
  <2>2. (p % (2^above * c)) % c = p % c
    BY <1>4, <1>7, ModMod
  <2> QED
    BY <1>7, <2>1, <2>2
<1>11. p % 2^PayloadBits \in Nat /\ 2^0 = 1
  BY <1>7, TagsFit, PowersUpTo
<1>12. (p % 2^PayloadBits) \div 1 = p % 2^PayloadBits
  BY <1>11
<1> QED
  BY <1>8, <1>9, <1>10, <1>11, <1>12 DEF CodeOf, Bits, c

\* The name of an enumerator comes back.
LEMMA NameBack ==
  ASSUME NEW names, Listed(names), NEW name, Contains(names, name)
  PROVE  Enum(names, name) \in 0 .. Len(names) - 1 /\ Name(names, Enum(names, name)) = name
<1> DEFINE Is(n) == names[n] = name
           n0 == CHOOSE n \in DOMAIN names : Is(n)
<1>1. n0 \in 1 .. Len(names) /\ names[n0] = name
  <2>1. \E n \in DOMAIN names : Is(n)
    BY DEF Contains, Listed
  <2> HIDE DEF Is
  <2>2. n0 \in DOMAIN names /\ Is(n0)
    BY <2>1
  <2> QED
    BY <2>2 DEF Listed, Is
<1>2. Enum(names, name) = n0 - 1
  BY DEF Enum
<1> HIDE DEF n0
<1>3. Len(names) \in Nat /\ n0 - 1 < Len(names) /\ (n0 - 1) + 1 = n0
  BY <1>1 DEF Listed
<1> QED
  BY <1>1, <1>2, <1>3 DEF Name

\* A line in fields makes an instruction of its opcode.
LEMMA OpcodeKept ==
  ASSUME NEW line, IsLine(line), line.kind = "code", NEW pass, PassOK(pass),
         line.name # "WORDS", Translate(line, pass) # <<>>
  PROVE  OpcodeOf(Translate(line, pass)) = line.name
<1> DEFINE i == Translate(line, pass)
           code == Enum(Opcodes, line.name)
<1>1. i = FromFields(line, pass) /\ i # <<>>
  BY DEF Translate, Checked
<1>2. Operates(i, line.name)
  BY <1>1, FieldsTranslate
<1> HIDE DEF i
<1>3. code \in 0 .. Len(Opcodes) - 1 /\ Name(Opcodes, code) = line.name
  BY <1>2, NameBack, Enumerations DEF Operates
<1>4. PICK sub, flags, cause, aux \in Int : Operation(i) = Op(code, sub, flags, cause, aux)
  BY <1>2 DEF Operates
<1> HIDE DEF code
<1>5. code \in Nat /\ code < 2^OpBits
  <2>1. Len(Opcodes) \in Nat /\ 2^OpBits \in Nat
    BY Enumerations, FieldsFit DEF Listed
  <2> QED
    BY <1>3, <2>1, OpcodesAssumption
<1>6. CodeOf(Op(code, sub, flags, cause, aux)) = code
  <2>1. {sub, flags, cause, aux} \subseteq Int
    BY <1>4
  <2> QED
    BY <1>5, <2>1, OpcodeBack
<1> QED
  BY <1>3, <1>4, <1>6 DEF OpcodeOf, i

\* The target of a jump to a label is what the label stands for.
LEMMA JumpTranslated ==
  ASSUME NEW line, line.name = "JUMP", NEW name, line.args = <<name>>, NEW pass,
         name \in DOMAIN pass.labels, Translate(line, pass) # <<>>
  PROVE  Src0(Translate(line, pass)) = JumpTarget(pass.labels[name])
<1> DEFINE op == line.name
           forms == {form \in Forms(op) : Len(form) = Len(line.args)}
           form == CHOOSE f \in forms : TRUE
           values == [n \in DOMAIN form |-> FieldValue(form[n], line.args[n], op, line.args[1], pass)]
           at == {n \in DOMAIN form : form[n] \in {"s", "S", "L"}}
           src0 == IF at = {} THEN None ELSE values[CHOOSE n \in at : TRUE]
<1>1. Translate(line, pass) = FromFields(line, pass) /\ FromFields(line, pass) # <<>>
  BY DEF Translate, Checked
<1>2. FromFields(line, pass) # <<>> => Src0(FromFields(line, pass)) = src0
  BY Zenon DEF FromFields, Src0
<1>3. forms = {<<"S">>}
  BY DEF Forms
<1>4. form = <<"S">>
  BY <1>3
<1> HIDE DEF form
<1>5. at = {1} /\ values[1] = FieldValue("S", name, op, name, pass)
  BY <1>4
<1>6. src0 = FieldValue("S", name, op, name, pass)
  BY <1>5
<1>7. FieldValue("S", name, op, name, pass) = JumpTarget(pass.labels[name])
  BY DEF FieldValue, TargetOf
<1> QED
  BY <1>1, <1>2, <1>6, <1>7

\* What is set to a symbol is what the symbol stands for.
LEMMA SetTranslated ==
  ASSUME NEW line, IsLine(line), line.kind = "code", line.name = "SET",
         NEW pass, line.args[2] \in DOMAIN pass.symbols,
         line.args[2] # <<"NONE">>, Translate(line, pass) # <<>>
  PROVE  Src0(Translate(line, pass)) = pass.symbols[line.args[2]]
<1> DEFINE op == line.name
           forms == {form \in Forms(op) : Len(form) = Len(line.args)}
           form == CHOOSE f \in forms : TRUE
           values == [n \in DOMAIN form |-> FieldValue(form[n], line.args[n], op, line.args[1], pass)]
           at == {n \in DOMAIN form : form[n] \in {"s", "S", "L"}}
           src0 == IF at = {} THEN None ELSE values[CHOOSE n \in at : TRUE]
<1>1. Translate(line, pass) = FromFields(line, pass) /\ FromFields(line, pass) # <<>>
  BY DEF Translate, Checked
<1>2. FromFields(line, pass) # <<>> => Src0(FromFields(line, pass)) = src0 /\ forms # {}
  BY Zenon DEF FromFields, Src0
<1>3. form = <<"d", "s">>
  <2>1. Forms(op) = {<<"d", "s">>}
    BY DEF Forms
  <2> QED
    BY <1>1, <1>2, <2>1
<1> HIDE DEF form
<1>4. at = {2} /\ values[2] = FieldValue("s", line.args[2], op, line.args[1], pass)
  BY <1>3
<1>5. src0 = FieldValue("s", line.args[2], op, line.args[1], pass)
  BY <1>4
<1>6. FieldValue("s", line.args[2], op, line.args[1], pass) = pass.symbols[line.args[2]]
  BY DEF FieldValue, OperandOf
<1> QED
  BY <1>1, <1>2, <1>5, <1>6

-----------------------------------------------------------------------------
(* What a text says, and what its trace does.                              *)

Reflects(source, trace) ==
  LET N == Len(source)
      Instr(n) == trace[CodesIn(source, n) + 1]
  IN  /\ Len(trace) = CodesIn(source, N + 1)
      /\ Known(source, N) /\ Distinct(source, N)
      /\ \A n \in LinesOf(source, N, {"code"}) :
           /\ source[n].pc \in {NoPC, CodesIn(source, n)}
           /\ source[n].name # "WORDS" => OpcodeOf(Instr(n)) = source[n].name
           /\ \A k \in LinesOf(source, N, {"label"}) :
                source[n].name = "JUMP" /\ source[n].args = <<source[k].name>>
                  => Src0(Instr(n)) = JumpTarget(CodesIn(source, k))
           /\ \A k \in LinesOf(source, N, {"symbol"}) :
                (/\ source[n].name = "SET" /\ source[n].args[2] = source[k].name
                 /\ source[k].name # <<"NONE">> /\ Unnamed(source, k))
                  => Src0(Instr(n)) = OperandOf(source[k].value, <<>>)

\* Whatever the lines of a text are, the assembler blames lines of it, or makes a trace that
\* does what it says (Assemble).
THEOREM AssembledIsWritten ==
  ASSUME NEW source, IsText(source)
  PROVE  /\ Assemble(source, <<>>).errors \in Seq(1 .. Len(source))
         /\ Assemble(source, <<>>).errors = <<>> => Reflects(source, Assemble(source, <<>>).trace)
<1> DEFINE N == Len(source)
           pass == FirstPass(source, <<>>)
           to == Instructed(pass)
           fault == FirstFault(to.trace)
           errors == IF to.errors = <<>> THEN Blame(pass, fault) ELSE to.errors
<1>1. WordsIn(<<>>)
  BY DEF WordsIn
<1>2. ScanOK(pass) /\ Scanned(source, N, pass)
  BY <1>1, FirstPassTyped, FirstPassScanned
<1>3. source \in Seq(ToSet(source)) /\ N \in Nat /\ \A n \in 1 .. N : IsLine(source[n])
  BY LenProperties DEF IsText
<1>4. /\ Assemble(source, <<>>).errors = errors
      /\ Assemble(source, <<>>).trace = IF errors = <<>> THEN to.trace ELSE <<>>
  BY DEF Assemble, SecondPass, Conclude, Returned
<1> HIDE DEF pass, N
<1>5. MadeOf(pass, N, Len(pass.lines), to)
  BY <1>2, <1>3, InstructedMade DEF Scanned
<1>6. Coded(to.trace) /\ PassOK(pass) /\ Blamed(pass, N)
  BY <1>2, SecondPassTyped DEF ScanOK, Instructs, Scanned
<1> HIDE DEF to
<1>7. errors \in Seq(1 .. N)
  <2>1. CASE to.errors # <<>>
    BY <1>5, <2>1 DEF MadeOf
  <2>2. CASE to.errors = <<>> /\ fault = 0
    BY <2>2, EmptySeq DEF Blame
  <2>3. CASE to.errors = <<>> /\ fault # 0
    <3>1. Faulty(to.trace) \in SUBSET (1 .. Len(to.trace)) /\ Len(to.trace) = Len(pass.lines)
          /\ Len(to.trace) \in Nat
      BY <1>5, <1>6, <2>3, LenProperties DEF Faulty, MadeOf, Coded
    <3>2. fault \in Faulty(to.trace)
      <4> DEFINE S == Faulty(to.trace)
                 First(n) == \A k \in S : n <= k
                 n0 == CHOOSE n \in S : First(n)
      <4>1. S \in SUBSET Nat
        BY <3>1
      <4>2. S # {} => n0 \in S
        <5>1. S # {} => \E n \in S : First(n)
          BY <4>1, Least
        <5> HIDE DEF First
        <5> QED
          BY <5>1
      <4>3. fault = IF S = {} THEN 0 ELSE n0
        BY DEF FirstFault, Earliest
      <4> HIDE DEF S, n0, fault
      <4> QED
        BY <2>3, <4>2, <4>3 DEF S
    <3>3. fault \in 1 .. Len(pass.lines)
      BY <3>1, <3>2
    <3>4. pass.lines[fault] \in ToSet(pass.lines)
      BY <3>3, <1>6, LenProperties DEF PassOK, ToSet
    <3>5. pass.lines[fault].source \in 1 .. N
      BY <1>6, <3>4 DEF Blamed
    <3> HIDE DEF fault
    <3> QED
      BY <2>3, <3>5 DEF Blame
  <2> QED
    BY <2>1, <2>2, <2>3
<1>8. ASSUME errors = <<>> PROVE to.errors = <<>>
  BY <1>8
<1> HIDE DEF errors
<1>9. ASSUME errors = <<>> PROVE Reflects(source, to.trace)
  <2>1. /\ pass.errors = <<>> /\ Len(to.trace) = Len(pass.lines)
        /\ \A j \in 1 .. Len(pass.lines) :
             /\ Translate(pass.lines[j].text, pass) # <<>>
             /\ to.trace[j] = Translate(pass.lines[j].text, pass)
    BY <1>5, <1>8, <1>9 DEF MadeOf
  <2>2. /\ Placed(source, N, pass) /\ LabelsAt(source, N, pass) /\ SymbolsAt(source, N, pass)
        /\ Distinct(source, N) /\ Known(source, N)
    BY <1>2, <2>1 DEF Scanned
  <2> DEFINE i(n) == to.trace[CodesIn(source, n) + 1]
  <2>3. ASSUME NEW n \in LinesOf(source, N, {"code"})
        PROVE  /\ source[n].pc \in {NoPC, CodesIn(source, n)}
               /\ i(n) = Translate(source[n], pass) /\ i(n) # <<>>
               /\ IsLine(source[n]) /\ source[n].kind = "code"
    <3>1. /\ source[n].pc \in {NoPC, CodesIn(source, n)}
          /\ CodesIn(source, n) < Len(pass.lines)
          /\ pass.lines[CodesIn(source, n) + 1] = [source |-> n, text |-> source[n]]
      BY <2>2 DEF Placed
    <3>2. n \in 1 .. N /\ source[n].kind = "code"
      BY DEF LinesOf
    <3>3. CodesIn(source, n) \in Nat
      <4>1. n - 1 \in Nat /\ (n - 1) + 1 = n
        BY <1>3, <3>2
      <4> QED
        BY <4>1, CodesCount
    <3>4. CodesIn(source, n) + 1 \in 1 .. Len(pass.lines)
      BY <3>1, <3>3, <1>6, LenProperties DEF PassOK
    <3>5. pass.lines[CodesIn(source, n) + 1].text = source[n]
      BY <3>1
    <3> QED
      BY <1>3, <2>1, <3>1, <3>2, <3>4, <3>5
  <2> HIDE DEF i
  <2>4. ASSUME NEW n \in LinesOf(source, N, {"code"}), source[n].name # "WORDS"
        PROVE  OpcodeOf(i(n)) = source[n].name
    BY <1>6, <2>3, <2>4, OpcodeKept
  <2>5. ASSUME NEW n \in LinesOf(source, N, {"code"}), NEW k \in LinesOf(source, N, {"label"}),
               source[n].name = "JUMP", source[n].args = <<source[k].name>>
        PROVE  Src0(i(n)) = JumpTarget(CodesIn(source, k))
    <3>1. source[k].name \in DOMAIN pass.labels /\ pass.labels[source[k].name] = CodesIn(source, k)
      BY <2>2 DEF LabelsAt
    <3>2. PICK name, line : name = source[k].name /\ line = source[n]
      OBVIOUS
    <3>3. Src0(Translate(line, pass)) = JumpTarget(pass.labels[name])
      BY <2>3, <2>5, <3>1, <3>2, JumpTranslated
    <3> QED
      BY <2>3, <3>1, <3>2, <3>3
  <2>6. ASSUME NEW n \in LinesOf(source, N, {"code"}), NEW k \in LinesOf(source, N, {"symbol"}),
               source[n].name = "SET", source[n].args[2] = source[k].name,
               source[k].name # <<"NONE">>, Unnamed(source, k)
        PROVE  Src0(i(n)) = OperandOf(source[k].value, <<>>)
    <3>1. /\ source[k].name \in DOMAIN pass.symbols
          /\ pass.symbols[source[k].name] = OperandOf(source[k].value, <<>>)
      BY <2>2, <2>6 DEF SymbolsAt
    <3>2. PICK line : line = source[n]
      OBVIOUS
    <3>3. Src0(Translate(line, pass)) = pass.symbols[line.args[2]]
      BY <2>3, <2>6, <3>1, <3>2, SetTranslated
    <3> QED
      BY <2>3, <2>6, <3>1, <3>2, <3>3
  <2>7. Len(to.trace) = CodesIn(source, N + 1)
    BY <2>1, <2>2 DEF Placed
  <2> QED
    BY <2>2, <2>3, <2>4, <2>5, <2>6, <2>7 DEF Reflects, N, i
<1> QED
  BY <1>4, <1>7, <1>9 DEF N

-----------------------------------------------------------------------------
(* Modules.                                                                *)

\* Programs, each with a valid trace.
Publishable(programs) ==
  programs \in Seq(ToSet(programs)) /\ \A p \in ToSet(programs) : ValidTrace(p.trace)

CollectOK(m) ==
  /\ DOMAIN m = {"name", "names", "body", "start", "active", "module", "plain", "programs", "errors"}
  /\ IsText(m.body) /\ Publishable(m.programs)

\* A text that grows by a line is a text.
LEMMA TextGrows ==
  ASSUME NEW text, IsText(text), NEW line, IsLine(line)
  PROVE  IsText(Append(text, line))
<1>1. /\ Append(text, line) \in Seq(ToSet(Append(text, line)))
      /\ ToSet(Append(text, line)) \subseteq ToSet(text) \cup {line}
  BY AppendElements DEF IsText
<1>2. \A x \in ToSet(text) : IsLine(x)
  BY DEF IsText, ToSet
<1>3. \A n \in DOMAIN Append(text, line) : Append(text, line)[n] \in ToSet(Append(text, line))
  BY DEF ToSet
<1> QED
  BY <1>1, <1>2, <1>3 DEF IsText

\* The empty text and no programs.
LEMMA EmptyTexts == IsText(<<>>) /\ Publishable(<<>>)
BY DEF IsText, Publishable, ToSet

\* One more program.
LEMMA PublishOne ==
  ASSUME NEW programs, Publishable(programs), NEW p, ValidTrace(p.trace)
  PROVE  Publishable(Append(programs, p))
BY AppendElements DEF Publishable

\* A line of a module is collected as it should be.
LEMMA CollectKeeps ==
  ASSUME NEW m, CollectOK(m), NEW n \in Nat \ {0}, NEW line, IsLine(line), NEW symbols, WordsIn(symbols)
  PROVE  CollectOK(Collect(m, n, line, symbols))
<1>1. ASSUME NEW k, CollectOK(k) PROVE CollectOK(Object(k, n))
  BY <1>1 DEF CollectOK, Object
<1>2. CASE line.kind = "program"
  <2> DEFINE to == [m EXCEPT !.module = TRUE]
             opened == [to EXCEPT !.name = line.name, !.names = @ \cup {line.name}, !.body = <<>>,
                                  !.start = n, !.active = TRUE]
  <2>1. CollectOK(to)
    BY DEF CollectOK
  <2>2. DOMAIN opened = DOMAIN m /\ opened.body = <<>> /\ opened.programs = m.programs
    BY DEF CollectOK
  <2> HIDE DEF opened
  <2>3. CollectOK(opened)
    BY <2>2, EmptyTexts DEF CollectOK
  <2>4. Collect(m, n, line, symbols) \in {Object(to, n), opened}
    BY <1>2 DEF Collect, OpenProgram, opened
  <2> HIDE DEF to
  <2> QED
    BY <1>1, <2>1, <2>3, <2>4
<1>3. CASE line.kind = "end"
  <2> DEFINE whole == Assemble(m.body, symbols)
             p == [name |-> m.name, trace |-> whole.trace]
  <2>1. ValidTrace(p.trace)
    BY AssembledIsValid DEF CollectOK
  <2> HIDE DEF p
  <2>2. Publishable(Append(m.programs, p))
    BY <2>1, PublishOne DEF CollectOK
  <2>3. DOMAIN Include(m, whole) = DOMAIN m /\ Include(m, whole).body = m.body
        /\ Include(m, whole).programs = Append(m.programs, p)
    BY DEF CollectOK, Include, p
  <2>4. CollectOK(Include(m, whole))
    BY <2>2, <2>3 DEF CollectOK
  <2>5. Collect(m, n, line, symbols) \in {Include(m, whole), Object(m, n)}
    BY <1>3 DEF Collect, EndProgram
  <2> HIDE DEF whole
  <2> QED
    BY <1>1, <2>4, <2>5
<1>4. CASE line.kind \notin {"program", "end"} /\ m.active
  <2>1. Collect(m, n, line, symbols) = [m EXCEPT !.body = Append(m.body, line)]
    BY <1>4 DEF Collect
  <2>2. IsText(Append(m.body, line))
    BY TextGrows DEF CollectOK
  <2> QED
    BY <2>1, <2>2 DEF CollectOK
<1>5. CASE line.kind \notin {"program", "end"} /\ ~m.active
  <2>1. Collect(m, n, line, symbols) \in {m, Object(m, n), [m EXCEPT !.plain = TRUE]}
    BY <1>5 DEF Collect
  <2>2. CollectOK([m EXCEPT !.plain = TRUE])
    BY DEF CollectOK
  <2> QED
    BY <1>1, <2>1, <2>2
<1> QED
  BY <1>2, <1>3, <1>4, <1>5

\* The programs of a module are collected as they should be.
LEMMA CollectedTyped ==
  ASSUME NEW source, IsText(source), NEW symbols, WordsIn(symbols)
  PROVE  CollectOK(Collected(source, symbols))
<1>1. source \in Seq(ToSet(source)) /\ \A n \in 1 .. Len(source) : IsLine(source[n])
  BY LenProperties DEF IsText
<1>2. PICK v : Goes(Division(source, symbols), v) /\ Collected(source, symbols) = v[Len(source)]
  BY <1>1, CollectedGoes
<1>3. v[0] = Outside /\ \A n \in 1 .. Len(source) : v[n] = Collect(v[n - 1], n, source[n], symbols)
  BY <1>2 DEF Goes, Division, Apply
<1>4. Len(source) \in Nat
  BY <1>1, LenProperties
<1> DEFINE P == {n \in 0 .. Len(source) : CollectOK(v[n])}
<1>5. 0 \in P
  <2>1. CollectOK(Outside)
    BY EmptyTexts DEF CollectOK, Outside
  <2> QED
    BY <1>3, <1>4, <2>1
<1>6. ASSUME NEW n \in 1 .. Len(source), n - 1 \in P PROVE n \in P
  <2>1. CollectOK(v[n - 1]) /\ IsLine(source[n]) /\ n \in Nat \ {0}
    BY <1>1, <1>6
  <2>2. CollectOK(Collect(v[n - 1], n, source[n], symbols))
    BY <2>1, CollectKeeps
  <2> QED
    BY <1>3, <2>2
<1>7. 0 .. Len(source) \subseteq P
  <2> HIDE DEF P
  <2> QED
    BY <1>4, <1>5, <1>6, Induction
<1> QED
  BY <1>2, <1>4, <1>7

\* Every program that a module publishes is valid (AssembleModule).
THEOREM ModuleIsValid ==
  ASSUME NEW source, IsText(source), NEW symbols, WordsIn(symbols)
  PROVE  Publishable(AssembleModule(source, symbols).programs)
<1> DEFINE m == Collected(source, symbols)
           whole == Assemble(source, symbols)
           p == [name |-> <<>>, trace |-> whole.trace]
<1>1. Publishable(m.programs)
  BY CollectedTyped DEF CollectOK
<1>2. ValidTrace(p.trace)
  BY AssembledIsValid
<1> HIDE DEF p
<1>3. Publishable(<<p>>)
  BY <1>2 DEF Publishable, ToSet
<1>4. AssembleModule(source, symbols).programs \in {<<>>, <<p>>, m.programs}
  BY DEF AssembleModule, Only, All, p
<1> QED
  BY <1>1, <1>3, <1>4, EmptyTexts

-----------------------------------------------------------------------------
(* How a text is divided into the programs of a module.                    *)

\* After n lines: what is blamed is one of them, and a program that is open has the lines
\* since its start; a module has a program or a line to blame.
Divided(source, n, m) ==
  /\ CollectOK(m)
  /\ m.errors \in Seq(1 .. n) /\ m.start \in 0 .. n
  /\ m.active => m.start \in 1 .. n /\ Len(m.body) <= n - m.start /\ m.module
  /\ m.module => m.errors # <<>> \/ m.active \/ m.programs # <<>>
  /\ m.module <=> LinesOf(source, n, {"program"}) # {}

\* What is appended to is not empty, and the elements are those before and the new one.
LEMMA Appended ==
  ASSUME NEW Elements, NEW s \in Seq(Elements), NEW x \in Elements
  PROVE  /\ Append(s, x) \in Seq(Elements) /\ Append(s, x) # <<>>
         /\ ToSet(Append(s, x)) = ToSet(s) \cup {x}
<1> DEFINE t == Append(s, x)
<1>1. s \in Seq(Elements) /\ Len(s) \in Nat /\ DOMAIN s = 1 .. Len(s)
  BY LenProperties
<1>2. /\ t \in Seq(Elements) /\ Len(t) = Len(s) + 1 /\ t[Len(s) + 1] = x
      /\ \A n \in 1 .. Len(s) : t[n] = s[n]
  BY <1>1, AppendProperties
<1> HIDE DEF t
<1>3. DOMAIN t = 1 .. Len(s) + 1
  BY <1>2, LenProperties
<1>4. t # <<>>
  BY <1>1, <1>2, EmptySeq
<1>5. ToSet(t) = ToSet(s) \cup {x}
  <2>1. \A n \in 1 .. Len(s) + 1 : n \in 1 .. Len(s) \/ n = Len(s) + 1
    BY <1>1
  <2> QED
    BY <1>1, <1>2, <1>3, <2>1 DEF ToSet
<1> QED
  BY <1>2, <1>4, <1>5 DEF t

\* What is concatenated is not empty when either is not, and has the elements of both.
LEMMA Concatenated ==
  ASSUME NEW Elements, NEW s \in Seq(Elements), NEW t \in Seq(Elements)
  PROVE  /\ s \o t \in Seq(Elements) /\ ToSet(s \o t) = ToSet(s) \cup ToSet(t)
         /\ s # <<>> => s \o t # <<>>
<1> DEFINE u == s \o t
<1>1. /\ Len(s) \in Nat /\ DOMAIN s = 1 .. Len(s)
      /\ Len(t) \in Nat /\ DOMAIN t = 1 .. Len(t)
  BY LenProperties
<1>2. /\ u \in Seq(Elements) /\ Len(u) = Len(s) + Len(t)
      /\ \A n \in 1 .. Len(s) + Len(t) : u[n] = IF n <= Len(s) THEN s[n] ELSE t[n - Len(s)]
  BY ConcatProperties
<1> HIDE DEF u
<1>3. DOMAIN u = 1 .. Len(s) + Len(t)
  BY <1>2, LenProperties
<1>4. s # <<>> => u # <<>>
  <2>1. s # <<>> => Len(s) # 0
    BY EmptySeq
  <2>2. u = <<>> => Len(u) = 0
    BY <1>2, EmptySeq
  <2> QED
    BY <1>1, <1>2, <2>1, <2>2
<1>5. ASSUME NEW x \in ToSet(u) PROVE x \in ToSet(s) \cup ToSet(t)
  <2>1. PICK n \in 1 .. Len(s) + Len(t) : x = u[n]
    BY <1>3, <1>5 DEF ToSet
  <2>2. CASE n <= Len(s)
    <3>1. n \in 1 .. Len(s) /\ x = s[n]
      BY <1>2, <2>1, <2>2
    <3> QED
      BY <1>1, <3>1 DEF ToSet
  <2>3. CASE ~(n <= Len(s))
    <3>1. n - Len(s) \in 1 .. Len(t) /\ x = t[n - Len(s)]
      BY <1>1, <1>2, <2>1, <2>3
    <3> QED
      BY <1>1, <3>1 DEF ToSet
  <2> QED
    BY <2>2, <2>3
<1>6. ASSUME NEW x \in ToSet(s) PROVE x \in ToSet(u)
  <2>1. PICK n \in 1 .. Len(s) : x = s[n]
    BY <1>1 DEF ToSet
  <2>2. n \in 1 .. Len(s) + Len(t) /\ n <= Len(s)
    BY <1>1
  <2> QED
    BY <1>2, <1>3, <2>1, <2>2 DEF ToSet
<1>7. ASSUME NEW x \in ToSet(t) PROVE x \in ToSet(u)
  <2>1. PICK n \in 1 .. Len(t) : x = t[n]
    BY <1>1 DEF ToSet
  <2>2. n + Len(s) \in 1 .. Len(s) + Len(t) /\ ~(n + Len(s) <= Len(s)) /\ (n + Len(s)) - Len(s) = n
    BY <1>1
  <2>3. u[n + Len(s)] = x
    BY <1>2, <2>1, <2>2
  <2> QED
    BY <1>3, <2>2, <2>3 DEF ToSet
<1>8. ToSet(u) = ToSet(s) \cup ToSet(t)
  BY <1>5, <1>6, <1>7
<1> QED
  BY <1>2, <1>4, <1>8 DEF u

\* The elements of one sequence are those of another, moved by a number.
Shifted(t, number, s) == \A y : y \in ToSet(t) <=> \E x \in ToSet(s) : y = number + x

\* The lines of a program's diagnostics, in the module.
LEMMA BroughtHome ==
  ASSUME NEW m, NEW length \in Nat, NEW errors \in Seq(1 .. length), m.start \in Nat,
         NEW n \in Nat, m.start + length <= n,
         NEW home, home = [k \in DOMAIN errors |-> Home(m, errors[k])]
  PROVE  /\ home \in Seq(m.start + 1 .. n)
         /\ Shifted(home, m.start, errors)
<1>1. /\ DOMAIN errors = 1 .. Len(errors) /\ Len(errors) \in Nat
      /\ \A k \in 1 .. Len(errors) : errors[k] \in 1 .. length
  BY LenProperties, ElementOfSeq
<1>2. \A k \in 1 .. Len(errors) : home[k] = errors[k] + m.start /\ home[k] \in m.start + 1 .. n
  BY <1>1 DEF Home
<1>3. DOMAIN home = 1 .. Len(errors)
  BY <1>1
<1>4. PICK Lines : Lines = m.start + 1 .. n
  OBVIOUS
<1>5. home \in Seq(m.start + 1 .. n)
  <2>1. home \in [1 .. Len(errors) -> Lines]
    BY <1>1, <1>2, <1>4
  <2>2. \E k \in Nat : home \in [1 .. k -> Lines]
    BY <1>1, <2>1
  <2>3. home \in Seq(Lines)
    BY ONLY <2>2, SeqDef
  <2> QED
    BY <1>4, <2>3
<1>6. \A k \in 1 .. Len(errors) : home[k] = m.start + errors[k]
  BY <1>1, <1>2
<1>7. ToSet(home) = {home[k] : k \in 1 .. Len(errors)} /\ ToSet(errors) = {errors[k] : k \in 1 .. Len(errors)}
  BY <1>1, <1>3 DEF ToSet
<1>8. Shifted(home, m.start, errors)
  BY <1>6, <1>7 DEF Shifted
<1> QED
  BY <1>5, <1>8

\* A line that is refused is to blame, and a line that is not ".program" adds none.
LEMMA ObjectDivides ==
  ASSUME NEW source, NEW n \in Nat \ {0}, NEW m, CollectOK(m),
         m.errors \in Seq(1 .. n - 1), m.start \in 0 .. n - 1,
         m.active => m.start \in 1 .. n - 1 /\ Len(m.body) <= (n - 1) - m.start /\ m.module,
         m.module <=> LinesOf(source, n, {"program"}) # {}
  PROVE  Divided(source, n, Object(m, n))
<1> DEFINE errors == Append(m.errors, n)
<1>1. m.errors \in Seq(1 .. n) /\ n \in 1 .. n
  <2>1. 1 .. n - 1 \subseteq 1 .. n
    OBVIOUS
  <2> QED
    BY <2>1, SeqMonotonic
<1>2. errors \in Seq(1 .. n) /\ errors # <<>>
  BY <1>1, Appended
<1> HIDE DEF errors
<1>3. Object(m, n) = [m EXCEPT !.errors = errors]
  BY DEF Object, errors
<1>4. /\ DOMAIN Object(m, n) = DOMAIN m /\ Object(m, n).errors = errors
      /\ Object(m, n).active = m.active /\ Object(m, n).start = m.start
      /\ Object(m, n).module = m.module /\ Object(m, n).body = m.body
      /\ Object(m, n).programs = m.programs
  BY <1>3 DEF CollectOK
<1>5. CollectOK(Object(m, n))
  BY <1>4 DEF CollectOK
<1>6. m.start \in 0 .. n
  OBVIOUS
<1>7. Len(m.body) \in Nat
  BY LenProperties DEF CollectOK, IsText
<1>8. m.active => m.start \in 1 .. n /\ Len(m.body) <= n - m.start /\ m.module
  BY <1>7
<1> QED
  BY <1>2, <1>4, <1>5, <1>6, <1>8 DEF Divided

\* Each line divides the text further.
LEMMA CollectDivides ==
  ASSUME NEW source, NEW n \in Nat \ {0}, NEW m, Divided(source, n - 1, m), IsLine(source[n])
  PROVE  Divided(source, n, Collect(m, n, source[n], <<>>))
<1> DEFINE line == source[n]
           c == Collect(m, n, line, <<>>)
<1>1. WordsIn(<<>>)
  BY DEF WordsIn
<1>2. CollectOK(m) /\ CollectOK(c)
  BY <1>1, CollectKeeps DEF Divided
<1>3. m.errors \in Seq(1 .. n) /\ n \in 1 .. n
  <2>1. 1 .. n - 1 \subseteq 1 .. n
    OBVIOUS
  <2> QED
    BY <2>1, SeqMonotonic DEF Divided
<1>4. Len(m.body) \in Nat
  BY <1>2, LenProperties DEF CollectOK, IsText
<1>5. /\ m.errors \in Seq(1 .. n - 1) /\ m.start \in 0 .. n - 1
      /\ m.active => m.start \in 1 .. n - 1 /\ Len(m.body) <= (n - 1) - m.start /\ m.module
      /\ m.module => m.errors # <<>> \/ m.active \/ m.programs # <<>>
      /\ m.module <=> LinesOf(source, n - 1, {"program"}) # {}
  BY DEF Divided
<1>6. LinesOf(source, n, {"program"})
        = LinesOf(source, n - 1, {"program"}) \cup (IF line.kind = "program" THEN {n} ELSE {})
  BY DEF LinesOf
<1> SUFFICES Divided(source, n, c)
  OBVIOUS
<1> HIDE DEF c
<1>7. CASE line.kind = "program"
  <2> DEFINE to == [m EXCEPT !.module = TRUE]
             opened == [to EXCEPT !.name = line.name, !.names = @ \cup {line.name}, !.body = <<>>,
                                  !.start = n, !.active = TRUE]
  <2>1. c \in {Object(to, n), opened}
    BY <1>7 DEF c, Collect, OpenProgram
  <2>2. LinesOf(source, n, {"program"}) # {}
    BY <1>6, <1>7
  <2>3. /\ CollectOK(to) /\ to.errors = m.errors /\ to.start = m.start /\ to.active = m.active
        /\ to.body = m.body /\ to.module = TRUE
    BY <1>2 DEF CollectOK
  <2>4. /\ opened.errors = m.errors /\ opened.start = n /\ opened.active = TRUE
        /\ opened.body = <<>> /\ opened.module = TRUE
    BY <1>2 DEF CollectOK
  <2> HIDE DEF to, opened
  <2>5. Divided(source, n, Object(to, n))
    BY <1>5, <2>2, <2>3, ObjectDivides
  <2>6. ASSUME c = opened PROVE Divided(source, n, opened)
    <3>1. Len(opened.body) = 0
      BY <2>4, EmptySeq
    <3> QED
      BY <1>2, <1>3, <2>2, <2>4, <2>6, <3>1 DEF Divided
  <2> QED
    BY <2>1, <2>5, <2>6
<1>8. ASSUME line.kind # "program" PROVE m.module <=> LinesOf(source, n, {"program"}) # {}
  BY <1>5, <1>6, <1>8
<1>9. Divided(source, n, Object(m, n)) \/ line.kind = "program"
  BY <1>2, <1>5, <1>8, ObjectDivides
<1>10. CASE line.kind = "end" /\ m.active
  <2> DEFINE whole == Assemble(m.body, <<>>)
             home == [k \in DOMAIN whole.errors |-> Home(m, whole.errors[k])]
             length == Len(m.body)
             p == [name |-> m.name, trace |-> whole.trace]
             errors == m.errors \o home
             programs == Append(m.programs, p)
  <2>1. whole.errors \in Seq(1 .. length)
    BY <1>2, AssembledIsWritten DEF CollectOK
  <2>2. m.start \in Nat /\ m.start + length <= n /\ length \in Nat
    BY <1>4, <1>5, <1>10
  <2>3. c = Include(m, whole)
    BY <1>10 DEF c, Collect, EndProgram
  <2>4. c = [m EXCEPT !.active = FALSE, !.programs = programs, !.errors = errors]
    BY <2>3 DEF Include
  <2> HIDE DEF whole, length, p
  <2>5. home \in Seq(m.start + 1 .. n)
    <3>1. PICK errs : errs = whole.errors
      OBVIOUS
    <3>2. home = [k \in DOMAIN errs |-> Home(m, errs[k])] /\ errs \in Seq(1 .. length)
      BY <2>1, <3>1
    <3> HIDE DEF home
    <3> QED
      BY <2>2, <3>2, BroughtHome
  <2> HIDE DEF home
  <2>6. home \in Seq(1 .. n)
    <3>1. m.start + 1 .. n \subseteq 1 .. n
      BY <2>2
    <3> QED
      BY <2>5, <3>1, SeqMonotonic
  <2>7. errors \in Seq(1 .. n)
    BY <1>3, <2>6, Concatenated
  <2>8. programs # <<>>
    <3>1. PICK P : P = ToSet(m.programs) \cup {p}
      OBVIOUS
    <3>2. m.programs \in Seq(P) /\ p \in P
      BY <1>2, <3>1, SeqMonotonic DEF CollectOK, Publishable
    <3> QED
      BY <3>2, Appended
  <2> HIDE DEF errors, programs
  <2>9. /\ c.errors = errors /\ c.programs = programs /\ c.active = FALSE
        /\ c.start = m.start /\ c.module = m.module
    BY <1>2, <2>4 DEF CollectOK
  <2>10. m.start \in 0 .. n
    BY <1>5
  <2> QED
    BY <1>2, <1>8, <1>10, <2>7, <2>8, <2>9, <2>10 DEF Divided
<1>11. CASE line.kind = "end" /\ ~m.active
  <2>1. c = Object(m, n)
    BY <1>11 DEF c, Collect, EndProgram
  <2> QED
    BY <1>9, <1>11, <2>1
<1>12. CASE line.kind \notin {"program", "end"} /\ m.active
  <2> DEFINE body == Append(m.body, line)
  <2>1. c = [m EXCEPT !.body = body]
    BY <1>12 DEF c, Collect
  <2>2. Len(body) = Len(m.body) + 1
    <3>1. PICK T : T = ToSet(m.body) \cup {line}
      OBVIOUS
    <3>2. m.body \in Seq(T) /\ line \in T
      BY <1>2, <3>1, SeqMonotonic DEF CollectOK, IsText
    <3> QED
      BY <3>2, AppendProperties
  <2> HIDE DEF body
  <2>3. /\ c.body = body /\ c.errors = m.errors /\ c.active = m.active /\ c.start = m.start
        /\ c.module = m.module /\ c.programs = m.programs
    BY <1>2, <2>1 DEF CollectOK
  <2>4. m.start \in 1 .. n /\ m.start \in 0 .. n /\ Len(body) <= n - m.start
    BY <1>4, <1>5, <1>12, <2>2
  <2> QED
    BY <1>2, <1>3, <1>5, <1>8, <1>12, <2>3, <2>4 DEF Divided
<1>13. CASE line.kind \notin {"program", "end"} /\ ~m.active
  <2> DEFINE plain == [m EXCEPT !.plain = TRUE]
  <2>1. c \in {m, Object(m, n), plain}
    BY <1>13 DEF c, Collect
  <2>2. /\ plain.errors = m.errors /\ plain.active = m.active /\ plain.start = m.start
        /\ plain.module = m.module /\ plain.programs = m.programs /\ plain.body = m.body
    BY <1>2 DEF CollectOK
  <2> HIDE DEF plain
  <2>3. m.start \in 0 .. n
    BY <1>5
  <2>4. ASSUME c \in {m, plain} PROVE Divided(source, n, c)
    <3>1. /\ c.errors = m.errors /\ c.active = m.active /\ c.start = m.start
          /\ c.module = m.module /\ c.programs = m.programs /\ c.body = m.body
      BY <2>2, <2>4
    <3> QED
      BY <1>2, <1>3, <1>5, <1>8, <1>13, <2>3, <3>1 DEF Divided
  <2> QED
    BY <1>9, <1>13, <2>1, <2>4
<1> QED
  BY <1>7, <1>10, <1>11, <1>12, <1>13

\* So does the whole text.
LEMMA CollectedDivided ==
  ASSUME NEW source, IsText(source)
  PROVE  Divided(source, Len(source), Collected(source, <<>>))
<1>1. source \in Seq(ToSet(source)) /\ \A n \in 1 .. Len(source) : IsLine(source[n])
  BY LenProperties DEF IsText
<1>2. PICK v : Goes(Division(source, <<>>), v) /\ Collected(source, <<>>) = v[Len(source)]
  BY <1>1, CollectedGoes
<1>3. v[0] = Outside /\ \A n \in 1 .. Len(source) : v[n] = Collect(v[n - 1], n, source[n], <<>>)
  BY <1>2 DEF Goes, Division, Apply
<1>4. Len(source) \in Nat
  BY <1>1, LenProperties
<1> DEFINE P == {n \in 0 .. Len(source) : Divided(source, n, v[n])}
<1>5. 0 \in P
  <2>1. CollectOK(Outside)
    BY EmptyTexts DEF CollectOK, Outside
  <2>2. LinesOf(source, 0, {"program"}) = {} /\ <<>> \in Seq(1 .. 0)
    BY EmptySeq DEF LinesOf
  <2>3. Divided(source, 0, Outside)
    BY <2>1, <2>2 DEF Divided, Outside
  <2> QED
    BY <1>3, <1>4, <2>3
<1>6. ASSUME NEW n \in 1 .. Len(source), n - 1 \in P PROVE n \in P
  <2>1. Divided(source, n - 1, v[n - 1]) /\ IsLine(source[n]) /\ n \in Nat \ {0}
    BY <1>1, <1>6
  <2>2. PICK m : m = v[n - 1]
    OBVIOUS
  <2>3. Divided(source, n, Collect(m, n, source[n], <<>>))
    BY <2>1, <2>2, CollectDivides
  <2> QED
    BY <1>3, <2>2, <2>3
<1>7. 0 .. Len(source) \subseteq P
  <2> HIDE DEF P
  <2> QED
    BY <1>4, <1>5, <1>6, Induction
<1> QED
  BY <1>2, <1>4, <1>7

\* Whatever the lines of a text are, either it is refused whole, with lines of it that are to
\* blame, or its programs are published; and a text without ".program" is one program
\* (AssembleModule).
THEOREM ModuleIsWhole ==
  ASSUME NEW source, IsText(source)
  PROVE  LET result == AssembleModule(source, <<>>)
         IN  /\ result.errors \in Seq(1 .. Len(source))
             /\ result.errors = <<>> <=> result.programs # <<>>
             /\ LinesOf(source, Len(source), {"program"}) = {}
                  => result = Only(Assemble(source, <<>>))
<1> DEFINE N == Len(source)
           m == Collected(source, <<>>)
           whole == Assemble(source, <<>>)
           p == [name |-> <<>>, trace |-> whole.trace]
           errors == IF m.active THEN Append(m.errors, m.start) ELSE m.errors
           result == AssembleModule(source, <<>>)
<1>1. Divided(source, N, m)
  BY CollectedDivided
<1>2. whole.errors \in Seq(1 .. N)
  BY AssembledIsWritten
<1>3. result = IF ~m.module THEN Only(whole) ELSE All(m.programs, errors)
  BY DEF AssembleModule
<1> HIDE DEF m, whole, result, N
<1>4. CASE ~m.module
  <2>1. result = All(<<p>>, whole.errors)
    BY <1>3, <1>4 DEF Only
  <2> HIDE DEF p
  <2>2. <<p>> # <<>>
    OBVIOUS
  <2>3. result.errors = whole.errors /\ result.programs = IF whole.errors = <<>> THEN <<p>> ELSE <<>>
    BY <2>1 DEF All
  <2>4. result = Only(whole)
    BY <1>3, <1>4
  <2> QED
    BY <1>2, <2>2, <2>3, <2>4 DEF result, N, whole
<1>5. CASE m.module
  <2>1. errors \in Seq(1 .. N) /\ (m.active => errors # <<>>)
    <3>1. CASE m.active
      <4>1. m.errors \in Seq(1 .. N) /\ m.start \in 1 .. N
        BY <1>1, <3>1 DEF Divided
      <4>2. PICK start : start = m.start
        OBVIOUS
      <4>3. Append(m.errors, start) \in Seq(1 .. N) /\ Append(m.errors, start) # <<>>
        BY <4>1, <4>2, Appended
      <4> QED
        BY <3>1, <4>2, <4>3
    <3>2. CASE ~m.active
      BY <1>1, <3>2 DEF Divided
    <3> QED
      BY <3>1, <3>2
  <2>2. ~m.active => errors = m.errors
    OBVIOUS
  <2> HIDE DEF errors
  <2>3. result.errors = errors /\ result.programs = IF errors = <<>> THEN m.programs ELSE <<>>
    BY <1>3, <1>5 DEF All
  <2>4. LinesOf(source, N, {"program"}) # {} /\ (m.errors # <<>> \/ m.active \/ m.programs # <<>>)
    BY <1>1, <1>5 DEF Divided
  <2>5. errors = <<>> => m.programs # <<>>
    BY <2>1, <2>2, <2>4
  <2> QED
    BY <2>1, <2>3, <2>4, <2>5 DEF result, N
<1> QED
  BY <1>4, <1>5

-----------------------------------------------------------------------------
(* What is a program of a module, and what is made of it.                  *)

Interior(source, k, n) == \A j \in k + 1 .. n : source[j].kind \notin {"program", "end"}
RegularText(source) ==
  LET N == Len(source)
  IN  /\ \A n \in LinesOf(source, N, {"program"}) :
           /\ source[n].name # <<>>
           /\ \A k \in LinesOf(source, N, {"program"}) :
                k < n => /\ source[k].name # source[n].name
                         /\ \E e \in LinesOf(source, N, {"end"}) : k < e /\ e < n
      /\ \A n \in LinesOf(source, N, {"code", "label", "symbol", "malformed", "directive", "header"}) :
           \E k \in LinesOf(source, N, {"program"}) : k < n
IsBlock(source, a, b) ==
  source[a].kind = "program" /\ source[b].kind = "end" /\ a < b /\ Interior(source, a, b - 1)
Alone(source, a, b) == Assemble(SubSeq(source, a + 1, b - 1), <<>>)

\* What is known of the program between a and b.
ScopedBlock(source, a, b, errors, programs) ==
  /\ \A x \in 1 .. b - a - 1 : a + x \in ToSet(errors) <=> x \in ToSet(Alone(source, a, b).errors)
  /\ [name |-> source[a].name, trace |-> Alone(source, a, b).trace] \in ToSet(programs)
Opened(source, n, m) ==
  m.active => /\ source[m.start].kind = "program" /\ m.name = source[m.start].name
              /\ m.body = SubSeq(source, m.start + 1, n) /\ Interior(source, m.start, n)
              /\ \A e \in ToSet(m.errors) : e <= m.start
Entered(source, n, m) ==
  \A k \in LinesOf(source, n, {"program"}) : Interior(source, k, n) => m.active /\ m.start = k
Named(source, n, m) ==
  ~m.plain /\ m.names \subseteq {source[k].name : k \in LinesOf(source, n, {"program"})}
Closed(source, n, m) ==
  \A a, b \in 1 .. n : IsBlock(source, a, b) => ScopedBlock(source, a, b, m.errors, m.programs)
Scoped(source, n, m) ==
  Opened(source, n, m) /\ Entered(source, n, m) /\ Named(source, n, m) /\ Closed(source, n, m)

\* A program keeps what is known of it while others are collected after it.
LEMMA BlockKept ==
  ASSUME NEW source, NEW a \in Nat, NEW b \in Nat, NEW errors, NEW programs,
         ScopedBlock(source, a, b, errors, programs),
         NEW errors2, ToSet(errors) \subseteq ToSet(errors2),
         \A e \in ToSet(errors2) \ ToSet(errors) : e \in Nat /\ b <= e,
         NEW programs2, ToSet(programs) \subseteq ToSet(programs2)
  PROVE  ScopedBlock(source, a, b, errors2, programs2)
<1>1. ASSUME NEW x \in 1 .. b - a - 1 PROVE a + x \in ToSet(errors) <=> a + x \in ToSet(errors2)
  <2>1. ~(b <= a + x)
    OBVIOUS
  <2> QED
    BY <2>1
<1> QED
  BY <1>1 DEF ScopedBlock

\* So do all the programs that are closed.
LEMMA ClosedKept ==
  ASSUME NEW source, NEW n \in Nat \ {0}, NEW m, Closed(source, n - 1, m), NEW c,
         ToSet(m.errors) \subseteq ToSet(c.errors), ToSet(m.programs) \subseteq ToSet(c.programs),
         NEW a \in 1 .. n, NEW b \in 1 .. n, IsBlock(source, a, b), b # n,
         \A e \in ToSet(c.errors) \ ToSet(m.errors) : e \in Nat /\ b <= e
  PROVE  ScopedBlock(source, a, b, c.errors, c.programs)
<1>1. a \in 1 .. n - 1 /\ b \in 1 .. n - 1 /\ a \in Nat /\ b \in Nat
  BY DEF IsBlock
<1>2. PICK errors, programs, errors2, programs2 :
        /\ errors = m.errors /\ programs = m.programs
        /\ errors2 = c.errors /\ programs2 = c.programs
  OBVIOUS
<1>3. ScopedBlock(source, a, b, errors, programs)
  BY <1>1, <1>2 DEF Closed
<1>4. ScopedBlock(source, a, b, errors2, programs2)
  BY <1>1, <1>2, <1>3, BlockKept
<1> QED
  BY <1>2, <1>4

\* What is noted after a line that is not ".end".
LEMMA OtherScoped ==
  ASSUME NEW source, NEW n \in Nat \ {0}, NEW m, Closed(source, n - 1, m), NEW c,
         source[n].kind # "end", m.errors \in Seq(1 .. n - 1), c.programs = m.programs,
         c.errors \in {m.errors, Append(m.errors, n)}
  PROVE  Closed(source, n, c)
<1>1. ToSet(m.errors) \subseteq ToSet(c.errors) /\ ToSet(c.errors) \subseteq ToSet(m.errors) \cup {n}
  <2>1. 1 .. n - 1 \subseteq 1 .. n /\ n \in 1 .. n
    OBVIOUS
  <2>2. m.errors \in Seq(1 .. n)
    BY <2>1, SeqMonotonic
  <2>3. ToSet(Append(m.errors, n)) = ToSet(m.errors) \cup {n}
    BY <2>1, <2>2, Appended
  <2> QED
    BY <2>3
<1>2. ASSUME NEW a \in 1 .. n, NEW b \in 1 .. n, IsBlock(source, a, b)
      PROVE  ScopedBlock(source, a, b, c.errors, c.programs)
  <2>1. b # n
    BY <1>2 DEF IsBlock
  <2>2. \A e \in ToSet(c.errors) \ ToSet(m.errors) : e \in Nat /\ b <= e
    BY <1>1
  <2> QED
    BY <1>1, <1>2, <2>1, <2>2, ClosedKept
<1> QED
  BY <1>2 DEF Closed

\* ".program" opens a program, for the one before it has ended and it has a name of its own.
LEMMA OpenScoped ==
  ASSUME NEW source, RegularText(source), NEW n \in 1 .. Len(source), Len(source) \in Nat, NEW m,
         Divided(source, n - 1, m), Scoped(source, n - 1, m), source[n].kind = "program"
  PROVE  Scoped(source, n, Collect(m, n, source[n], <<>>))
<1> DEFINE line == source[n]
           c == Collect(m, n, line, <<>>)
           to == [m EXCEPT !.module = TRUE]
           opened == [to EXCEPT !.name = line.name, !.names = @ \cup {line.name}, !.body = <<>>,
                                !.start = n, !.active = TRUE]
<1>1. /\ CollectOK(m) /\ m.errors \in Seq(1 .. n - 1)
      /\ m.active => m.start \in 1 .. n - 1
  BY DEF Divided
<1>2. /\ Opened(source, n - 1, m) /\ Named(source, n - 1, m) /\ Closed(source, n - 1, m)
  BY DEF Scoped
<1>3. n \in LinesOf(source, Len(source), {"program"}) /\ n \in Nat \ {0}
  BY DEF LinesOf
<1>4. /\ line.name # <<>>
      /\ \A k \in LinesOf(source, Len(source), {"program"}) :
           k < n => /\ source[k].name # line.name
                    /\ \E e \in LinesOf(source, Len(source), {"end"}) : k < e /\ e < n
  BY <1>3 DEF RegularText
<1>5. ~m.active
  <2> SUFFICES ASSUME m.active PROVE FALSE
    OBVIOUS
  <2>1. PICK k : k = m.start
    OBVIOUS
  <2>2. k \in 1 .. n - 1 /\ source[k].kind = "program" /\ Interior(source, k, n - 1)
    BY <1>1, <1>2, <2>1 DEF Opened
  <2>3. k \in LinesOf(source, Len(source), {"program"}) /\ k < n
    BY <2>2 DEF LinesOf
  <2>4. PICK e \in LinesOf(source, Len(source), {"end"}) : k < e /\ e < n
    BY <1>4, <2>3
  <2>5. e \in k + 1 .. n - 1 /\ source[e].kind = "end"
    BY <2>2, <2>4 DEF LinesOf
  <2> QED
    BY <2>2, <2>5 DEF Interior
<1>6. ~m.plain /\ line.name \notin m.names
  <2>1. ASSUME line.name \in m.names PROVE FALSE
    <3>1. PICK k \in LinesOf(source, n - 1, {"program"}) : source[k].name = line.name
      BY <1>2, <2>1 DEF Named
    <3>2. k \in LinesOf(source, Len(source), {"program"}) /\ k < n
      BY <3>1 DEF LinesOf
    <3> QED
      BY <1>4, <3>1, <3>2
  <2> QED
    BY <1>2, <2>1 DEF Named
<1>7. c = opened
  BY <1>4, <1>5, <1>6 DEF Collect, OpenProgram
<1>8. /\ opened.errors = m.errors /\ opened.start = n /\ opened.active = TRUE
      /\ opened.body = <<>> /\ opened.name = line.name /\ opened.names = m.names \cup {line.name}
      /\ opened.plain = m.plain /\ opened.programs = m.programs
  BY <1>1 DEF CollectOK
<1> HIDE DEF opened, c
<1>9. Opened(source, n, c)
  <2>1. SubSeq(source, n + 1, n) = <<>> /\ Interior(source, n, n)
    BY SubSeqEmpty DEF Interior
  <2>2. \A e \in ToSet(m.errors) : e <= n
    <3>1. ToSet(m.errors) \subseteq 1 .. n - 1
      BY <1>1, OwnElements
    <3> QED
      BY <3>1
  <2> QED
    BY <1>7, <1>8, <2>1, <2>2 DEF Opened
<1>10. Entered(source, n, c)
  <2>1. ASSUME NEW k \in LinesOf(source, n, {"program"}), Interior(source, k, n) PROVE k = n
    <3>1. n \in k + 1 .. n \/ k = n
      BY DEF LinesOf
    <3> QED
      BY <2>1, <3>1 DEF Interior
  <2> QED
    BY <1>7, <1>8, <2>1 DEF Entered
<1>11. Named(source, n, c)
  <2>1. LinesOf(source, n, {"program"}) = LinesOf(source, n - 1, {"program"}) \cup {n}
    BY DEF LinesOf
  <2> QED
    BY <1>2, <1>7, <1>8, <2>1 DEF Named
<1>12. Closed(source, n, c)
  BY <1>1, <1>2, <1>3, <1>7, <1>8, OtherScoped
<1> QED
  BY <1>9, <1>10, <1>11, <1>12 DEF Scoped, c

\* A line of a program is collected, and any other line that is not blank is refused.
LEMMA BodyScoped ==
  ASSUME NEW source, RegularText(source), source \in Seq(ToSet(source)),
         NEW n \in 1 .. Len(source), NEW m, IsLine(source[n]),
         Divided(source, n - 1, m), Scoped(source, n - 1, m),
         source[n].kind \notin {"program", "end"}
  PROVE  Scoped(source, n, Collect(m, n, source[n], <<>>))
<1> DEFINE line == source[n]
           c == Collect(m, n, line, <<>>)
<1>1. /\ CollectOK(m) /\ m.errors \in Seq(1 .. n - 1)
      /\ m.active => m.start \in 1 .. n - 1
      /\ m.module <=> LinesOf(source, n - 1, {"program"}) # {}
  BY DEF Divided
<1>2. /\ Opened(source, n - 1, m) /\ Entered(source, n - 1, m)
      /\ Named(source, n - 1, m) /\ Closed(source, n - 1, m)
  BY DEF Scoped
<1>3. n \in Nat \ {0} /\ Len(source) \in Nat
  BY LenProperties
<1>4. LinesOf(source, n, {"program"}) = LinesOf(source, n - 1, {"program"})
  BY DEF LinesOf
<1> SUFFICES Scoped(source, n, c)
  OBVIOUS
<1> HIDE DEF c
<1>5. ASSUME NEW k \in 1 .. n, Interior(source, k, n) PROVE Interior(source, k, n - 1)
  BY <1>5 DEF Interior
<1>6. CASE m.active
  <2> DEFINE body == Append(m.body, line)
  <2>1. c = [m EXCEPT !.body = body]
    BY <1>6 DEF c, Collect
  <2>2. /\ c.body = body /\ c.errors = m.errors /\ c.active = m.active /\ c.start = m.start
        /\ c.programs = m.programs /\ c.name = m.name /\ c.plain = m.plain /\ c.names = m.names
    BY <1>1, <2>1 DEF CollectOK
  <2>3. PICK start : start = m.start
    OBVIOUS
  <2>4. /\ start \in 1 .. n - 1 /\ source[start].kind = "program" /\ m.name = source[start].name
        /\ m.body = SubSeq(source, start + 1, n - 1) /\ Interior(source, start, n - 1)
        /\ \A e \in ToSet(m.errors) : e <= start
    BY <1>1, <1>2, <1>6, <2>3 DEF Opened
  <2>5. body = SubSeq(source, start + 1, n)
    <3>1. PICK T, j : T = ToSet(source) /\ j = start + 1
      OBVIOUS
    <3>2. /\ source \in Seq(T) /\ line \in T /\ j \in 1 .. Len(source) /\ n \in j .. Len(source)
          /\ \A i \in j .. n - 1 : source[i] \in T
      BY <1>3, <2>4, <3>1, LenProperties DEF ToSet
    <3>3. SubSeq(source, j, n) = SubSeq(source, j, n - 1) \o <<line>>
      BY <3>2, SubSeqRecursiveSecond
    <3>4. SubSeq(source, j, n - 1) \in Seq(T)
      <4>1. PICK last : last = n - 1
        OBVIOUS
      <4>2. j \in Int /\ last \in Int
        BY <3>2, <4>1
      <4>3. SubSeq(source, j, last) \in Seq(T)
        BY <3>2, <4>1, <4>2, SubSeqProperties
      <4> QED
        BY <4>1, <4>3
    <3>5. Append(SubSeq(source, j, n - 1), line) = SubSeq(source, j, n - 1) \o <<line>>
      BY <3>2, <3>4, AppendIsConcat
    <3> QED
      BY <2>4, <3>1, <3>3, <3>5
  <2>6. Interior(source, start, n)
    <3>1. \A j \in start + 1 .. n : j \in start + 1 .. n - 1 \/ j = n
      BY <2>4
    <3> QED
      BY <2>4, <3>1 DEF Interior
  <2> HIDE DEF body
  <2>7. Opened(source, n, c)
    BY <2>2, <2>3, <2>4, <2>5, <2>6 DEF Opened
  <2>8. Entered(source, n, c)
    <3>1. \A k \in LinesOf(source, n, {"program"}) : k \in 1 .. n
      BY DEF LinesOf
    <3> QED
      BY <1>2, <1>4, <1>5, <2>2, <3>1 DEF Entered
  <2>9. Named(source, n, c)
    BY <1>2, <1>4, <2>2 DEF Named
  <2>10. Closed(source, n, c)
    BY <1>1, <1>2, <1>3, <2>2, OtherScoped
  <2> QED
    BY <2>7, <2>8, <2>9, <2>10 DEF Scoped
<1>7. CASE ~m.active
  <2>1. line.kind # "blank" => m.module
    <3>1. ASSUME line.kind # "blank" PROVE m.module
      <4>1. n \in LinesOf(source, Len(source), {"code", "label", "symbol", "malformed", "directive", "header"})
        BY <1>3, <3>1 DEF LinesOf, IsLine
      <4>2. PICK k \in LinesOf(source, Len(source), {"program"}) : k < n
        BY <4>1 DEF RegularText
      <4>3. k \in LinesOf(source, n - 1, {"program"})
        BY <1>3, <4>2 DEF LinesOf
      <4> QED
        BY <1>1, <4>3
    <3> QED
      BY <3>1
  <2>2. c \in {m, Object(m, n)}
    BY <1>7, <2>1 DEF c, Collect
  <2>3. /\ c.errors \in {m.errors, Append(m.errors, n)} /\ c.active = m.active
        /\ c.programs = m.programs /\ c.plain = m.plain /\ c.names = m.names
    BY <1>1, <2>2 DEF CollectOK, Object
  <2>4. Opened(source, n, c)
    BY <1>7, <2>3 DEF Opened
  <2>5. Entered(source, n, c)
    <3>1. \A k \in LinesOf(source, n, {"program"}) : k \in 1 .. n
      BY DEF LinesOf
    <3> QED
      BY <1>2, <1>4, <1>5, <1>7, <3>1 DEF Entered
  <2>6. Named(source, n, c)
    BY <1>2, <1>4, <2>3 DEF Named
  <2>7. Closed(source, n, c)
    BY <1>1, <1>2, <1>3, <2>3, OtherScoped
  <2> QED
    BY <2>4, <2>5, <2>6, <2>7 DEF Scoped
<1> QED
  BY <1>6, <1>7

\* Only the last ".program" before a line can be open there.
LEMMA LastOpens ==
  ASSUME NEW source, NEW n \in Nat \ {0}, NEW a \in 1 .. n, IsBlock(source, a, n),
         NEW m, Entered(source, n - 1, m)
  PROVE  m.active /\ m.start = a
<1>1. a \in LinesOf(source, n - 1, {"program"}) /\ Interior(source, a, n - 1)
  BY DEF IsBlock, LinesOf
<1> QED
  BY <1>1 DEF Entered

\* ".end" closes the program that is open, with what its lines are alone.
LEMMA EndScoped ==
  ASSUME NEW source, IsText(source), NEW n \in 1 .. Len(source), NEW m,
         Divided(source, n - 1, m), Scoped(source, n - 1, m), source[n].kind = "end"
  PROVE  Scoped(source, n, Collect(m, n, source[n], <<>>))
<1> DEFINE c == Collect(m, n, source[n], <<>>)
<1>1. /\ CollectOK(m) /\ m.errors \in Seq(1 .. n - 1)
      /\ m.active => m.start \in 1 .. n - 1 /\ Len(m.body) <= (n - 1) - m.start
  BY DEF Divided
<1>2. /\ Opened(source, n - 1, m) /\ Entered(source, n - 1, m)
      /\ Named(source, n - 1, m) /\ Closed(source, n - 1, m)
  BY DEF Scoped
<1>3. n \in Nat \ {0} /\ 1 .. n - 1 \subseteq 1 .. n /\ n \in 1 .. n
  BY LenProperties DEF IsText
<1>4. m.errors \in Seq(1 .. n)
  BY <1>1, <1>3, SeqMonotonic
<1> SUFFICES Scoped(source, n, c)
  OBVIOUS
<1>5. LinesOf(source, n, {"program"}) = LinesOf(source, n - 1, {"program"})
  BY DEF LinesOf
<1>6. ASSUME NEW k \in LinesOf(source, n, {"program"}) PROVE ~Interior(source, k, n)
  <2>1. n \in k + 1 .. n
    BY DEF LinesOf
  <2> QED
    BY <2>1 DEF Interior
<1> HIDE DEF c
<1>7. CASE ~m.active
  <2>1. c = Object(m, n)
    BY <1>7 DEF c, Collect, EndProgram
  <2>2. /\ c.errors = Append(m.errors, n) /\ c.active = m.active
        /\ c.programs = m.programs /\ c.plain = m.plain /\ c.names = m.names
    BY <1>1, <2>1 DEF CollectOK, Object
  <2>3. ToSet(c.errors) = ToSet(m.errors) \cup {n}
    BY <1>3, <1>4, <2>2, Appended
  <2>4. ASSUME NEW a \in 1 .. n, NEW b \in 1 .. n, IsBlock(source, a, b)
        PROVE  ScopedBlock(source, a, b, c.errors, c.programs)
    <3>1. b # n
      BY <1>2, <1>3, <1>7, <2>4, LastOpens
    <3>2. \A e \in ToSet(c.errors) \ ToSet(m.errors) : e \in Nat /\ b <= e
      BY <1>3, <2>3
    <3> QED
      BY <1>2, <1>3, <2>2, <2>3, <2>4, <3>1, <3>2, ClosedKept
  <2>5. Opened(source, n, c)
    BY <1>7, <2>2 DEF Opened
  <2>6. Entered(source, n, c) /\ Named(source, n, c)
    BY <1>2, <1>5, <1>6, <2>2 DEF Entered, Named
  <2> QED
    BY <2>4, <2>5, <2>6 DEF Scoped, Closed
<1>8. CASE m.active
  <2> DEFINE whole == Assemble(m.body, <<>>)
             found == whole.errors
             home == [k \in DOMAIN found |-> Home(m, found[k])]
             p == [name |-> m.name, trace |-> whole.trace]
             errors == m.errors \o home
             programs == Append(m.programs, p)
             length == Len(m.body)
  <2>1. PICK a : a = m.start
    OBVIOUS
  <2>2. /\ a \in 1 .. n - 1 /\ source[a].kind = "program" /\ m.name = source[a].name
        /\ m.body = SubSeq(source, a + 1, n - 1) /\ Interior(source, a, n - 1)
        /\ \A e \in ToSet(m.errors) : e <= a
    BY <1>1, <1>2, <1>8, <2>1 DEF Opened
  <2>3. found \in Seq(1 .. length) /\ length \in Nat
    BY <1>1, AssembledIsWritten, LenProperties DEF CollectOK, IsText
  <2>4. m.start \in Nat /\ m.start + length <= n
    BY <1>1, <1>3, <2>1, <2>2, <2>3, <1>8
  <2>5. c = Include(m, whole)
    BY <1>8 DEF c, Collect, EndProgram
  <2>6. c = [m EXCEPT !.active = FALSE, !.programs = programs, !.errors = errors]
    BY <2>5 DEF Include
  <2>7. whole = Alone(source, a, n)
    BY <2>2 DEF Alone
  <2> HIDE DEF found, whole, length
  <2>8. home \in Seq(m.start + 1 .. n) /\ Shifted(home, m.start, found)
    <3>1. home = [k \in DOMAIN found |-> Home(m, found[k])] /\ n \in Nat
      BY <1>3
    <3> HIDE DEF home
    <3> QED
      BY <2>3, <2>4, <3>1, BroughtHome
  <2> HIDE DEF home
  <2>9. home \in Seq(1 .. n) /\ ToSet(home) \subseteq a + 1 .. n
    <3>1. a + 1 .. n \subseteq 1 .. n /\ m.start + 1 .. n = a + 1 .. n
      BY <2>1, <2>2
    <3>2. home \in Seq(a + 1 .. n)
      BY <2>8, <3>1
    <3> QED
      BY <3>1, <3>2, SeqMonotonic, OwnElements
  <2>10. ToSet(errors) = ToSet(m.errors) \cup ToSet(home)
    BY <1>4, <2>9, Concatenated
  <2>11. ToSet(programs) = ToSet(m.programs) \cup {p}
    <3> HIDE DEF p
    <3>1. PICK P : P = ToSet(m.programs) \cup {p}
      OBVIOUS
    <3>2. m.programs \in Seq(P) /\ p \in P
      BY <1>1, <3>1, SeqMonotonic DEF CollectOK, Publishable
    <3> QED
      BY <3>2, Appended
  <2> HIDE DEF errors, programs
  <2>12. /\ c.errors = errors /\ c.active = FALSE
         /\ c.programs = programs /\ c.plain = m.plain /\ c.names = m.names
    BY <1>1, <2>6 DEF CollectOK
  <2>13. ScopedBlock(source, a, n, c.errors, c.programs)
    <3>1. [name |-> source[a].name, trace |-> Alone(source, a, n).trace] \in ToSet(c.programs)
      BY <2>2, <2>7, <2>11, <2>12
    <3>2. ASSUME NEW x \in 1 .. n - a - 1
          PROVE  a + x \in ToSet(c.errors) <=> x \in ToSet(found)
      <4>1. a + x \notin ToSet(m.errors)
        <5>1. a \in Nat /\ ~(a + x <= a)
          BY <2>2
        <5> QED
          BY <2>2, <5>1
      <4>2. \A y \in ToSet(found) : y \in Nat
        <5>1. ToSet(found) \subseteq 1 .. length
          BY <2>3, OwnElements
        <5> QED
          BY <2>3, <5>1
      <4>3. a + x \in ToSet(home) <=> x \in ToSet(found)
        <5>1. ASSUME a + x \in ToSet(home) PROVE x \in ToSet(found)
          <6>1. PICK y \in ToSet(found) : a + x = a + y
            BY <2>1, <2>8, <5>1 DEF Shifted
          <6>2. x = y
            BY <2>2, <4>2, <6>1
          <6> QED
            BY <6>1, <6>2
        <5> QED
          BY <2>1, <2>8, <5>1 DEF Shifted
      <4> QED
        BY <2>10, <2>12, <4>1, <4>3
    <3> QED
      BY <2>7, <3>1, <3>2 DEF ScopedBlock, found
  <2>14. ASSUME NEW a2 \in 1 .. n, NEW b2 \in 1 .. n, IsBlock(source, a2, b2)
         PROVE  ScopedBlock(source, a2, b2, c.errors, c.programs)
    <3>1. CASE b2 = n
      <4>1. a2 = a
        <5>1. IsBlock(source, a2, n)
          BY <2>14, <3>1
        <5> QED
          BY <1>2, <1>3, <2>1, <5>1, LastOpens
      <4> QED
        BY <2>13, <3>1, <4>1
    <3>2. CASE b2 # n
      <4>1. b2 <= a
        <5>1. b2 \in a + 1 .. n - 1 \/ b2 <= a
          BY <2>2, <3>2
        <5> QED
          BY <2>2, <2>14, <5>1 DEF Interior, IsBlock
      <4>2. \A e \in ToSet(c.errors) \ ToSet(m.errors) : e \in Nat /\ b2 <= e
        BY <2>2, <2>9, <2>10, <2>12, <4>1
      <4>3. ToSet(m.errors) \subseteq ToSet(c.errors) /\ ToSet(m.programs) \subseteq ToSet(c.programs)
        BY <2>10, <2>11, <2>12
      <4> QED
        BY <1>2, <1>3, <2>14, <3>2, <4>2, <4>3, ClosedKept
    <3> QED
      BY <3>1, <3>2
  <2>15. Opened(source, n, c)
    BY <2>12 DEF Opened
  <2>16. Entered(source, n, c) /\ Named(source, n, c)
    BY <1>2, <1>5, <1>6, <2>12 DEF Entered, Named
  <2> QED
    BY <2>14, <2>15, <2>16 DEF Scoped, Closed
<1> QED
  BY <1>7, <1>8

\* So is a whole module whose programs are regular.
LEMMA CollectedScoped ==
  ASSUME NEW source, IsText(source), RegularText(source)
  PROVE  Scoped(source, Len(source), Collected(source, <<>>))
<1>1. /\ source \in Seq(ToSet(source)) /\ Len(source) \in Nat
      /\ \A n \in 1 .. Len(source) : IsLine(source[n])
  BY LenProperties DEF IsText
<1>2. PICK v : Goes(Division(source, <<>>), v) /\ Collected(source, <<>>) = v[Len(source)]
  BY <1>1, CollectedGoes
<1>3. v[0] = Outside /\ \A n \in 1 .. Len(source) : v[n] = Collect(v[n - 1], n, source[n], <<>>)
  BY <1>2 DEF Goes, Division, Apply
<1> DEFINE P == {n \in 0 .. Len(source) : Divided(source, n, v[n]) /\ Scoped(source, n, v[n])}
<1>4. 0 \in P
  <2>1. CollectOK(Outside)
    BY EmptyTexts DEF CollectOK, Outside
  <2>2. LinesOf(source, 0, {"program"}) = {} /\ <<>> \in Seq(1 .. 0)
    BY EmptySeq DEF LinesOf
  <2>3. Divided(source, 0, Outside)
    BY <2>1, <2>2 DEF Divided, Outside
  <2>4. Scoped(source, 0, Outside)
    BY <2>2 DEF Scoped, Opened, Entered, Named, Closed, Outside
  <2> QED
    BY <1>1, <1>3, <2>3, <2>4
<1>5. ASSUME NEW n \in 1 .. Len(source), n - 1 \in P PROVE n \in P
  <2>1. PICK m : m = v[n - 1]
    OBVIOUS
  <2>2. /\ Divided(source, n - 1, m) /\ Scoped(source, n - 1, m)
        /\ IsLine(source[n]) /\ n \in Nat \ {0}
    BY <1>1, <1>5, <2>1
  <2>3. Divided(source, n, Collect(m, n, source[n], <<>>))
    BY <2>2, CollectDivides
  <2>4. Scoped(source, n, Collect(m, n, source[n], <<>>))
    <3>1. CASE source[n].kind = "program"
      BY <1>1, <2>2, <3>1, OpenScoped
    <3>2. CASE source[n].kind = "end"
      BY <1>1, <2>2, <3>2, EndScoped
    <3>3. CASE source[n].kind \notin {"program", "end"}
      BY <1>1, <2>2, <3>3, BodyScoped
    <3> QED
      BY <3>1, <3>2, <3>3
  <2> QED
    BY <1>1, <1>3, <2>1, <2>3, <2>4
<1>6. 0 .. Len(source) \subseteq P
  <2> HIDE DEF P
  <2> QED
    BY <1>1, <1>4, <1>5, Induction
<1> QED
  BY <1>1, <1>2, <1>6

\* Whatever the programs of a regular module are, each is what its lines are alone: the module
\* blames exactly the lines of it that are to blame alone, and publishes its trace when it
\* publishes anything (AssembleModule).
THEOREM ModuleIsScoped ==
  ASSUME NEW source, IsText(source), RegularText(source),
         NEW a \in 1 .. Len(source), NEW b \in 1 .. Len(source), IsBlock(source, a, b)
  PROVE  LET result == AssembleModule(source, <<>>)
         IN  /\ \A x \in 1 .. b - a - 1 :
                  a + x \in ToSet(result.errors) <=> x \in ToSet(Alone(source, a, b).errors)
             /\ result.programs # <<>> =>
                  [name |-> source[a].name, trace |-> Alone(source, a, b).trace]
                    \in ToSet(result.programs)
<1> DEFINE N == Len(source)
           m == Collected(source, <<>>)
           errors == IF m.active THEN Append(m.errors, m.start) ELSE m.errors
           result == AssembleModule(source, <<>>)
<1>1. Divided(source, N, m) /\ Scoped(source, N, m)
  BY CollectedDivided, CollectedScoped
<1>2. N \in Nat
  BY LenProperties DEF IsText
<1>3. result = IF ~m.module THEN Only(Assemble(source, <<>>)) ELSE All(m.programs, errors)
  BY DEF AssembleModule
<1> HIDE DEF m, result
<1>4. m.module
  <2>1. a \in LinesOf(source, N, {"program"})
    BY DEF LinesOf, IsBlock
  <2> QED
    BY <1>1, <2>1 DEF Divided
<1>5. ScopedBlock(source, a, b, m.errors, m.programs)
  BY <1>1 DEF Scoped, Closed
<1>6. \A x \in 1 .. b - a - 1 : a + x \in ToSet(errors) <=> a + x \in ToSet(m.errors)
  <2>1. CASE m.active
    <3>1. PICK start : start = m.start
      OBVIOUS
    <3>2. /\ start \in 1 .. N /\ m.errors \in Seq(1 .. N) /\ source[start].kind = "program"
          /\ Interior(source, start, N)
      BY <1>1, <2>1, <3>1 DEF Divided, Scoped, Opened
    <3>3. ToSet(Append(m.errors, start)) = ToSet(m.errors) \cup {start}
      BY <3>2, Appended
    <3>4. b <= start
      <4>1. b \in start + 1 .. N \/ b <= start
        BY <1>2, <3>2
      <4> QED
        BY <3>2, <4>1 DEF Interior, IsBlock
    <3>5. \A x \in 1 .. b - a - 1 : a + x # start
      BY <1>2, <3>2, <3>4
    <3> QED
      BY <2>1, <3>1, <3>3, <3>5
  <2> QED
    BY <2>1
<1> HIDE DEF errors
<1>7. result.errors = errors /\ result.programs = IF errors = <<>> THEN m.programs ELSE <<>>
  BY <1>3, <1>4 DEF All
<1>8. \A x \in 1 .. b - a - 1 :
        a + x \in ToSet(result.errors) <=> x \in ToSet(Alone(source, a, b).errors)
  BY <1>5, <1>6, <1>7 DEF ScopedBlock
<1>9. result.programs # <<>> =>
        [name |-> source[a].name, trace |-> Alone(source, a, b).trace] \in ToSet(result.programs)
  BY <1>5, <1>7 DEF ScopedBlock
<1> QED
  BY <1>8, <1>9 DEF result

-----------------------------------------------------------------------------
(* What a module holds besides its programs.                               *)

\* Line k is in a program among the first n lines.
Inside(source, n, k) ==
  \E a, b \in 1 .. n : IsBlock(source, a, b) /\ a <= k /\ k <= b
\* As long as nothing is blamed, a line is blank or in a program, the one that is open included.
Covered(source, n, m) ==
  m.module => \A k \in 1 .. n : \/ source[k].kind = "blank"
                                \/ m.active /\ m.start <= k
                                \/ Inside(source, n, k)
OpenSince(source, n, m) ==
  m.active => source[m.start].kind = "program" /\ Interior(source, m.start, n)
Unused(source, n, m) ==
  (~m.module /\ ~m.plain) => \A k \in 1 .. n : source[k].kind = "blank"
Enclosed(source, n, m) ==
  m.errors = <<>> => Covered(source, n, m) /\ OpenSince(source, n, m) /\ Unused(source, n, m)

\* A line that is inside stays inside.
LEMMA InsideGrows ==
  ASSUME NEW source, NEW n \in Nat \ {0}, NEW k, Inside(source, n - 1, k)
  PROVE  Inside(source, n, k)
<1>1. PICK a, b \in 1 .. n - 1 : IsBlock(source, a, b) /\ a <= k /\ k <= b
  BY DEF Inside
<1>2. a \in 1 .. n /\ b \in 1 .. n
  OBVIOUS
<1> QED
  BY <1>1, <1>2 DEF Inside

\* After a line that is blamed there is nothing to show.
LEMMA BlamedEnclosed ==
  ASSUME NEW source, NEW n \in Nat \ {0}, NEW m, m.errors \in Seq(1 .. n - 1),
         NEW c, c.errors = Append(m.errors, n)
  PROVE  Enclosed(source, n, c)
<1>1. 1 .. n - 1 \subseteq 1 .. n /\ n \in 1 .. n
  OBVIOUS
<1>2. m.errors \in Seq(1 .. n)
  BY <1>1, SeqMonotonic
<1>3. Append(m.errors, n) # <<>>
  BY <1>1, <1>2, Appended
<1> QED
  BY <1>3 DEF Enclosed

\* A program opens only where nothing but blank lines and programs came before it.
LEMMA OpenEnclosed ==
  ASSUME NEW source, NEW n \in Nat \ {0}, NEW m, Divided(source, n - 1, m),
         Enclosed(source, n - 1, m), source[n].kind = "program"
  PROVE  Enclosed(source, n, Collect(m, n, source[n], <<>>))
<1> DEFINE line == source[n]
           c == Collect(m, n, line, <<>>)
           to == [m EXCEPT !.module = TRUE]
           opened == [to EXCEPT !.name = line.name, !.names = @ \cup {line.name}, !.body = <<>>,
                                !.start = n, !.active = TRUE]
<1>1. CollectOK(m) /\ m.errors \in Seq(1 .. n - 1)
  BY DEF Divided
<1>2. c = Object(to, n) \/ (c = opened /\ ~m.active /\ ~m.plain)
  BY DEF Collect, OpenProgram
<1>3. Object(to, n).errors = Append(m.errors, n)
  BY <1>1 DEF Object, CollectOK
<1>4. opened.errors = m.errors /\ opened.start = n /\ opened.active = TRUE /\ opened.module = TRUE
  BY <1>1 DEF CollectOK
<1> SUFFICES Enclosed(source, n, c)
  OBVIOUS
<1> HIDE DEF c, opened, to
<1>5. CASE c = Object(to, n)
  <2>1. c.errors = Append(m.errors, n)
    BY <1>3, <1>5
  <2> QED
    BY <1>1, <2>1, BlamedEnclosed
<1>6. CASE c = opened /\ ~m.active /\ ~m.plain
  <2> SUFFICES ASSUME m.errors = <<>>
               PROVE  Covered(source, n, c) /\ OpenSince(source, n, c) /\ Unused(source, n, c)
    BY <1>4, <1>6 DEF Enclosed
  <2>1. Covered(source, n - 1, m) /\ Unused(source, n - 1, m)
    BY DEF Enclosed
  <2>2. ASSUME NEW k \in 1 .. n, k # n PROVE source[k].kind = "blank" \/ Inside(source, n, k)
    <3>1. k \in 1 .. n - 1
      BY <2>2
    <3>2. source[k].kind = "blank" \/ Inside(source, n - 1, k)
      BY <1>6, <2>1, <3>1 DEF Covered, Unused
    <3> QED
      BY <3>2, InsideGrows
  <2>3. Covered(source, n, c)
    BY <1>4, <1>6, <2>2 DEF Covered
  <2>4. OpenSince(source, n, c)
    BY <1>4, <1>6 DEF OpenSince, Interior
  <2>5. Unused(source, n, c)
    BY <1>4, <1>6 DEF Unused
  <2> QED
    BY <2>3, <2>4, <2>5
<1> QED
  BY <1>2, <1>5, <1>6

\* ".end" turns the lines since the start of the open program into a program.
LEMMA EndEnclosed ==
  ASSUME NEW source, NEW n \in Nat \ {0}, NEW m, Divided(source, n - 1, m),
         Enclosed(source, n - 1, m), source[n].kind = "end"
  PROVE  Enclosed(source, n, Collect(m, n, source[n], <<>>))
<1> DEFINE c == Collect(m, n, source[n], <<>>)
           whole == Assemble(m.body, <<>>)
           found == whole.errors
           home == [k \in DOMAIN found |-> Home(m, found[k])]
<1>1. /\ CollectOK(m) /\ m.errors \in Seq(1 .. n - 1)
      /\ m.active => m.start \in 1 .. n - 1 /\ m.module /\ Len(m.body) <= (n - 1) - m.start
  BY DEF Divided
<1> SUFFICES Enclosed(source, n, c)
  OBVIOUS
<1>3. CASE ~m.active
  <2>1. c = Object(m, n)
    BY <1>3 DEF Collect, EndProgram
  <2>2. c.errors = Append(m.errors, n)
    BY <1>1, <2>1 DEF Object, CollectOK
  <2> HIDE DEF c
  <2> QED
    BY <1>1, <2>2, BlamedEnclosed
<1>4. CASE m.active
  <2>1. c = Include(m, whole)
    BY <1>4 DEF Collect, EndProgram
  <2>2. c.errors = m.errors \o home /\ c.active = FALSE /\ c.module = m.module
    BY <1>1, <2>1 DEF Include, CollectOK
  <2> DEFINE length == Len(m.body)
  <2>3. found \in Seq(1 .. length) /\ length \in Nat
    BY <1>1, AssembledIsWritten, LenProperties DEF CollectOK, IsText
  <2>4. m.start \in Nat /\ m.start + length <= n
    BY <1>1, <1>4, <2>3
  <2> HIDE DEF c, whole, found, length
  <2>5. home \in Seq(m.start + 1 .. n)
    <3>1. home = [k \in DOMAIN found |-> Home(m, found[k])]
      OBVIOUS
    <3> HIDE DEF home
    <3> QED
      BY <2>3, <2>4, <3>1, BroughtHome
  <2> HIDE DEF home
  <2> SUFFICES ASSUME c.errors = <<>>
               PROVE  Covered(source, n, c) /\ OpenSince(source, n, c) /\ Unused(source, n, c)
    BY DEF Enclosed
  <2>6. m.errors = <<>>
    <3>1. 1 .. n - 1 \subseteq 1 .. n /\ m.start + 1 .. n \subseteq 1 .. n
      BY <2>4
    <3>2. m.errors \in Seq(1 .. n) /\ home \in Seq(1 .. n)
      BY <1>1, <2>5, <3>1, SeqMonotonic
    <3> QED
      BY <2>2, <3>2, Concatenated
  <2>7. PICK start : start = m.start
    OBVIOUS
  <2>8. /\ Covered(source, n - 1, m)
        /\ start \in 1 .. n - 1 /\ source[start].kind = "program" /\ Interior(source, start, n - 1)
    BY <1>1, <1>4, <2>6, <2>7 DEF Enclosed, OpenSince
  <2>9. IsBlock(source, start, n) /\ start \in 1 .. n /\ n \in 1 .. n
    BY <2>8 DEF IsBlock
  <2>10. ASSUME NEW k \in 1 .. n, start <= k PROVE Inside(source, n, k)
    <3>1. k <= n
      OBVIOUS
    <3> QED
      BY <2>9, <2>10, <3>1 DEF Inside
  <2>11. ASSUME NEW k \in 1 .. n, ~(start <= k) PROVE source[k].kind = "blank" \/ Inside(source, n, k)
    <3>1. k \in 1 .. n - 1
      BY <2>8, <2>11
    <3>2. source[k].kind = "blank" \/ Inside(source, n - 1, k)
      BY <1>1, <1>4, <2>7, <2>8, <2>11, <3>1 DEF Covered
    <3> QED
      BY <3>2, InsideGrows
  <2>12. Covered(source, n, c)
    BY <2>10, <2>11 DEF Covered
  <2> QED
    BY <1>1, <1>4, <2>2, <2>12 DEF OpenSince, Unused
<1> QED
  BY <1>3, <1>4

\* Any other line is in the open program, is blank, or is blamed; before the first ".program"
\* it is remembered.
LEMMA BodyEnclosed ==
  ASSUME NEW source, NEW n \in Nat \ {0}, NEW m, Divided(source, n - 1, m),
         Enclosed(source, n - 1, m), source[n].kind \notin {"program", "end"}
  PROVE  Enclosed(source, n, Collect(m, n, source[n], <<>>))
<1> DEFINE line == source[n]
           c == Collect(m, n, line, <<>>)
<1>1. /\ CollectOK(m) /\ m.errors \in Seq(1 .. n - 1)
      /\ m.active => m.start \in 1 .. n - 1 /\ m.module
  BY DEF Divided
<1>2. \/ m.active /\ c = [m EXCEPT !.body = Append(m.body, line)]
      \/ ~m.active /\ line.kind = "blank" /\ c = m
      \/ ~m.active /\ c = Object(m, n)
      \/ ~m.active /\ ~m.module /\ c = [m EXCEPT !.plain = TRUE]
  BY DEF Collect
<1> SUFFICES Enclosed(source, n, c)
  OBVIOUS
<1> HIDE DEF c
<1>3. ASSUME NEW k \in 1 .. n PROVE k = n \/ k \in 1 .. n - 1
  OBVIOUS
<1>4. CASE ~m.active /\ c = Object(m, n)
  <2>1. c.errors = Append(m.errors, n)
    BY <1>1, <1>4 DEF Object, CollectOK
  <2> QED
    BY <1>1, <2>1, BlamedEnclosed
<1>5. CASE m.active /\ c = [m EXCEPT !.body = Append(m.body, line)]
  <2>1. /\ c.errors = m.errors /\ c.active = m.active /\ c.start = m.start
        /\ c.module = m.module /\ c.plain = m.plain
    BY <1>1, <1>5 DEF CollectOK
  <2> SUFFICES ASSUME m.errors = <<>>
               PROVE  Covered(source, n, c) /\ OpenSince(source, n, c) /\ Unused(source, n, c)
    BY <2>1 DEF Enclosed
  <2>2. Covered(source, n - 1, m) /\ OpenSince(source, n - 1, m)
    BY DEF Enclosed
  <2>3. PICK start : start = m.start
    OBVIOUS
  <2>4. start \in 1 .. n - 1 /\ source[start].kind = "program" /\ Interior(source, start, n - 1)
    BY <1>1, <1>5, <2>2, <2>3 DEF OpenSince
  <2>5. Interior(source, start, n)
    BY <2>4 DEF Interior
  <2>6. OpenSince(source, n, c)
    BY <2>1, <2>3, <2>4, <2>5 DEF OpenSince
  <2>7. ASSUME NEW k \in 1 .. n
        PROVE  source[k].kind = "blank" \/ (c.active /\ c.start <= k) \/ Inside(source, n, k)
    <3>1. CASE k = n
      BY <1>5, <2>1, <2>3, <2>4, <3>1
    <3>2. CASE k \in 1 .. n - 1
      <4>1. \/ source[k].kind = "blank"
            \/ m.active /\ m.start <= k
            \/ Inside(source, n - 1, k)
        BY <1>1, <1>5, <2>2, <3>2 DEF Covered
      <4> QED
        BY <2>1, <4>1, InsideGrows
    <3> QED
      BY <1>3, <3>1, <3>2
  <2>8. Covered(source, n, c)
    BY <2>7 DEF Covered
  <2>9. Unused(source, n, c)
    BY <1>1, <1>5, <2>1 DEF Unused
  <2> QED
    BY <2>6, <2>8, <2>9
<1>6. CASE ~m.active /\ line.kind = "blank" /\ c = m
  <2> SUFFICES ASSUME m.errors = <<>>
               PROVE  Covered(source, n, c) /\ OpenSince(source, n, c) /\ Unused(source, n, c)
    BY <1>6 DEF Enclosed
  <2>1. Covered(source, n - 1, m) /\ Unused(source, n - 1, m)
    BY DEF Enclosed
  <2>2. Covered(source, n, c)
    <3>1. ASSUME m.module, NEW k \in 1 .. n PROVE source[k].kind = "blank" \/ Inside(source, n, k)
      <4>1. CASE k = n
        BY <1>6, <4>1
      <4>2. CASE k \in 1 .. n - 1
        <5>1. source[k].kind = "blank" \/ Inside(source, n - 1, k)
          BY <1>6, <2>1, <3>1, <4>2 DEF Covered
        <5> QED
          BY <5>1, InsideGrows
      <4> QED
        BY <1>3, <4>1, <4>2
    <3> QED
      BY <1>6, <3>1 DEF Covered
  <2>3. Unused(source, n, c)
    BY <1>3, <1>6, <2>1 DEF Unused
  <2> QED
    BY <1>6, <2>2, <2>3 DEF OpenSince
<1>7. CASE ~m.active /\ ~m.module /\ c = [m EXCEPT !.plain = TRUE]
  <2>1. c.active = m.active /\ c.module = m.module /\ c.plain = TRUE
    BY <1>1, <1>7 DEF CollectOK
  <2> QED
    BY <1>7, <2>1 DEF Enclosed, Covered, OpenSince, Unused
<1> QED
  BY <1>2, <1>4, <1>5, <1>6, <1>7

\* So it is for a whole text.
LEMMA CollectedEnclosed ==
  ASSUME NEW source, IsText(source)
  PROVE  Enclosed(source, Len(source), Collected(source, <<>>))
<1>1. /\ source \in Seq(ToSet(source)) /\ Len(source) \in Nat
      /\ \A n \in 1 .. Len(source) : IsLine(source[n])
  BY LenProperties DEF IsText
<1>2. PICK v : Goes(Division(source, <<>>), v) /\ Collected(source, <<>>) = v[Len(source)]
  BY <1>1, CollectedGoes
<1>3. v[0] = Outside /\ \A n \in 1 .. Len(source) : v[n] = Collect(v[n - 1], n, source[n], <<>>)
  BY <1>2 DEF Goes, Division, Apply
<1> DEFINE P == {n \in 0 .. Len(source) : Divided(source, n, v[n]) /\ Enclosed(source, n, v[n])}
<1>4. 0 \in P
  <2>1. CollectOK(Outside)
    BY EmptyTexts DEF CollectOK, Outside
  <2>2. LinesOf(source, 0, {"program"}) = {} /\ <<>> \in Seq(1 .. 0)
    BY EmptySeq DEF LinesOf
  <2>3. Divided(source, 0, Outside)
    BY <2>1, <2>2 DEF Divided, Outside
  <2>4. Enclosed(source, 0, Outside)
    BY DEF Enclosed, Covered, OpenSince, Unused, Outside
  <2> QED
    BY <1>1, <1>3, <2>3, <2>4
<1>5. ASSUME NEW n \in 1 .. Len(source), n - 1 \in P PROVE n \in P
  <2>1. PICK m : m = v[n - 1]
    OBVIOUS
  <2>2. /\ Divided(source, n - 1, m) /\ Enclosed(source, n - 1, m)
        /\ IsLine(source[n]) /\ n \in Nat \ {0}
    BY <1>1, <1>5, <2>1
  <2>3. Divided(source, n, Collect(m, n, source[n], <<>>))
    BY <2>2, CollectDivides
  <2>4. Enclosed(source, n, Collect(m, n, source[n], <<>>))
    <3>1. CASE source[n].kind = "program"
      BY <2>2, <3>1, OpenEnclosed
    <3>2. CASE source[n].kind = "end"
      BY <2>2, <3>2, EndEnclosed
    <3>3. CASE source[n].kind \notin {"program", "end"}
      BY <2>2, <3>3, BodyEnclosed
    <3> QED
      BY <3>1, <3>2, <3>3
  <2> QED
    BY <1>1, <1>3, <2>1, <2>3, <2>4
<1>6. 0 .. Len(source) \subseteq P
  <2> HIDE DEF P
  <2> QED
    BY <1>1, <1>4, <1>5, Induction
<1> QED
  BY <1>1, <1>2, <1>6

\* A text with a ".program" is published only when it is programs and blank lines: code, a
\* definition or the header of a listing before, between or after them makes AssembleModule
\* refuse it.
THEOREM ModuleIsPrograms ==
  ASSUME NEW source, IsText(source), AssembleModule(source, <<>>).programs # <<>>,
         LinesOf(source, Len(source), {"program"}) # {}
  PROVE  \A k \in 1 .. Len(source) :
           source[k].kind = "blank" \/ Inside(source, Len(source), k)
<1> DEFINE N == Len(source)
           m == Collected(source, <<>>)
           errors == IF m.active THEN Append(m.errors, m.start) ELSE m.errors
           result == AssembleModule(source, <<>>)
<1>1. Divided(source, N, m) /\ Enclosed(source, N, m)
  BY CollectedDivided, CollectedEnclosed
<1>2. result = IF ~m.module THEN Only(Assemble(source, <<>>)) ELSE All(m.programs, errors)
  BY DEF AssembleModule
<1> HIDE DEF m
<1>3. m.module
  BY <1>1 DEF Divided
<1>4. errors = <<>>
  <2> HIDE DEF errors
  <2> QED
    BY <1>2, <1>3 DEF All
<1>5. ~m.active
  <2>1. ASSUME m.active PROVE FALSE
    <3>1. PICK start : start = m.start
      OBVIOUS
    <3>2. start \in 1 .. N /\ m.errors \in Seq(1 .. N)
      BY <1>1, <2>1, <3>1 DEF Divided
    <3>3. Append(m.errors, start) # <<>>
      BY <3>2, Appended
    <3> QED
      BY <1>4, <2>1, <3>1, <3>3
  <2> QED
    BY <2>1
<1>6. m.errors = <<>>
  BY <1>4, <1>5
<1> QED
  BY <1>1, <1>3, <1>5, <1>6 DEF Enclosed, Covered

-----------------------------------------------------------------------------
(* The binary form.                                                        *)

\* Sequences in a row are joined one after the other.
LEMMA FlattenGoes ==
  ASSUME NEW s, s \in Seq(ToSet(s)), s # <<>>
  PROVE  \E f : /\ f[1] = s[1] /\ \A i \in 2 .. Len(s) : f[i] = f[i - 1] \o s[i]
                /\ FlattenSeq(s) = f[Len(s)]
<1> DEFINE N == Len(s)
           Joins(n, f) == f = [i \in 1 .. n |-> IF i = 1 THEN s[i] ELSE f[i - 1] \o s[i]]
           flatten == CHOOSE f : Joins(N, f)
<1>1. N \in Nat /\ N # 0
  BY LenProperties, EmptySeq
<1>2. FlattenSeq(s) = flatten[N]
  BY <1>1, Zenon DEF FlattenSeq
<1> HIDE DEF N
<1> DEFINE P == {n \in 0 .. N : \E f : Joins(n, f)}
<1>3. 0 \in P
  <2> DEFINE f == <<>>
  <2>1. Joins(0, f)
    <3>1. 1 .. 0 = {}
      OBVIOUS
    <3> QED
      BY <3>1
  <2>2. \E f0 : Joins(0, f0)
    BY <2>1
  <2> HIDE DEF Joins
  <2> QED
    BY <1>1, <2>2
<1>4. ASSUME NEW n \in 1 .. N, n - 1 \in P PROVE n \in P
  <2>1. PICK f : Joins(n - 1, f)
    BY <1>4
  <2> DEFINE last == IF n = 1 THEN s[n] ELSE f[n - 1] \o s[n]
             g == [i \in 1 .. n |-> IF i = n THEN last ELSE f[i]]
  <2>2. ASSUME NEW i \in 1 .. n PROVE g[i] = IF i = 1 THEN s[i] ELSE g[i - 1] \o s[i]
    <3>1. CASE i = n
      <4>1. n # 1 => n - 1 \in 1 .. n /\ n - 1 # n
        BY <1>1
      <4> QED
        BY <3>1, <4>1
    <3>2. CASE i # n
      <4>1. i \in 1 .. n - 1 /\ (i # 1 => i - 1 \in 1 .. n /\ i - 1 # n)
        BY <1>1, <3>2
      <4>2. f[i] = IF i = 1 THEN s[i] ELSE f[i - 1] \o s[i]
        BY <2>1, <4>1
      <4> QED
        BY <3>2, <4>1, <4>2
    <3> QED
      BY <3>1, <3>2
  <2>3. Joins(n, g)
    <3> HIDE DEF last
    <3> QED
      BY <2>2
  <2> HIDE DEF Joins, g
  <2> QED
    BY <2>3
<1>5. N \in P
  <2> HIDE DEF P
  <2>1. 0 .. N \subseteq P
    BY <1>1, <1>3, <1>4, Induction
  <2> QED
    BY <1>1, <2>1
<1>6. Joins(N, flatten)
  <2>1. \E f : Joins(N, f)
    BY <1>5
  <2> HIDE DEF Joins
  <2> QED
    BY <2>1, Zenon
<1> HIDE DEF flatten
<1>7. flatten[1] = s[1] /\ \A i \in 2 .. N : flatten[i] = flatten[i - 1] \o s[i]
  <2>1. 1 \in 1 .. N /\ \A i \in 2 .. N : i \in 1 .. N /\ i # 1
    BY <1>1
  <2> QED
    BY <1>6, <2>1
<1> QED
  BY <1>2, <1>7 DEF N

\* Four words of an instruction.
LEMMA CodeIsFour ==
  ASSUME NEW i \in Code
  PROVE  /\ i \in Seq(Word) /\ Len(i) = 4 /\ DOMAIN i = 1 .. 4
         /\ i[1] \in Word /\ i[2] \in Word /\ i[3] \in Word /\ i[4] \in Word
         /\ i # <<>>
<1>1. i[1] \in Word /\ i[2] \in Word /\ i[3] \in Word /\ i[4] \in Word /\ DOMAIN i = 1 .. 4
  BY DEF Code
<1>2. PICK a \in Word, b \in Word, c \in Word, d \in Word : i = <<a, b, c, d>>
  BY DEF Code
<1>5. i \in Seq(Word)
  BY <1>2
<1>6. Len(i) = 4
  BY <1>1, <1>5, LenProperties
<1>7. i # <<>>
  BY <1>6
<1> QED
  BY <1>1, <1>5, <1>6, <1>7

\* Where the words of the first instructions are.
Laid(trace, k, words) ==
  /\ words \in Seq(Word) /\ Len(words) = 4 * k
  /\ \A j \in 1 .. k : \A c \in 1 .. 4 : words[4 * j - 4 + c] = trace[j][c]

\* The binary form has four words for each instruction.
LEMMA EncodeLays ==
  ASSUME NEW trace \in Seq(Code), trace # <<>>
  PROVE  Laid(trace, Len(trace), Encode(trace))
<1>1. /\ trace \in Seq(ToSet(trace)) /\ Len(trace) \in Nat \ {0}
      /\ \A j \in 1 .. Len(trace) : trace[j] \in Code
  BY OwnElements, EmptySeq, ElementOfSeq
<1>2. PICK f : /\ f[1] = trace[1] /\ \A i \in 2 .. Len(trace) : f[i] = f[i - 1] \o trace[i]
               /\ FlattenSeq(trace) = f[Len(trace)]
  BY <1>1, FlattenGoes
<1> DEFINE N == Len(trace)
           P == {k \in 0 .. N : k # 0 => Laid(trace, k, f[k])}
<1> HIDE DEF N
<1>3. N \in Nat \ {0} /\ 0 \in P
  BY <1>1 DEF N
<1>4. ASSUME NEW k \in 1 .. N, k - 1 \in P PROVE k \in P
  <2>1. CASE k = 1
    <3>1. Laid(trace, 1, trace[1])
      <4>1. trace[1] \in Code
        BY <1>1, <1>3 DEF N
      <4>2. trace[1] \in Seq(Word) /\ Len(trace[1]) = 4
        BY <4>1, CodeIsFour
      <4>3. \A j \in 1 .. 1 : \A c \in 1 .. 4 : trace[1][4 * j - 4 + c] = trace[j][c]
        OBVIOUS
      <4> QED
        BY <4>2, <4>3 DEF Laid
    <3> QED
      BY <1>2, <1>3, <2>1, <3>1
  <2>2. CASE k # 1
    <3>0. k \in 2 .. N /\ k - 1 # 0
      BY <1>3, <2>2
    <3>1. Laid(trace, k - 1, f[k - 1]) /\ f[k] = f[k - 1] \o trace[k]
      BY <1>2, <1>4, <3>0 DEF N
    <3>2. trace[k] \in Seq(Word) /\ Len(trace[k]) = 4
      BY <1>1, CodeIsFour DEF N
    <3> DEFINE words == f[k - 1]
               i == trace[k]
    <3>3. words \in Seq(Word) /\ Len(words) = 4 * k - 4
      BY <3>1 DEF Laid
    <3> HIDE DEF words, i
    <3>4. /\ words \o i \in Seq(Word) /\ Len(words \o i) = 4 * k
          /\ \A n \in 1 .. 4 * k : (words \o i)[n] = IF n <= 4 * k - 4 THEN words[n] ELSE i[n - (4 * k - 4)]
      <4>1. i \in Seq(Word) /\ Len(i) = 4 /\ k \in Nat
        BY <3>2, <1>3 DEF i
      <4>2. /\ words \o i \in Seq(Word) /\ Len(words \o i) = Len(words) + Len(i)
            /\ \A n \in 1 .. Len(words) + Len(i) :
                 (words \o i)[n] = IF n <= Len(words) THEN words[n] ELSE i[n - Len(words)]
        BY <3>3, <4>1, ConcatProperties
      <4>3. Len(words) + Len(i) = 4 * k
        BY <3>3, <4>1
      <4> QED
        BY <3>3, <4>2, <4>3
    <3>5. ASSUME NEW j \in 1 .. k, NEW c \in 1 .. 4
          PROVE  (words \o i)[4 * j - 4 + c] = trace[j][c]
      <4>1. CASE j = k
        <5>1. 4 * j - 4 + c \in 1 .. 4 * k /\ ~(4 * j - 4 + c <= 4 * k - 4)
              /\ (4 * j - 4 + c) - (4 * k - 4) = c
          BY <1>3, <4>1
        <5>2. (words \o i)[4 * j - 4 + c] = i[c]
          BY <3>4, <5>1
        <5> QED
          BY <4>1, <5>2 DEF i
      <4>2. CASE j # k
        <5>1. j \in 1 .. k - 1 /\ 4 * j - 4 + c \in 1 .. 4 * k /\ 4 * j - 4 + c <= 4 * k - 4
          BY <1>3, <4>2
        <5>2. (words \o i)[4 * j - 4 + c] = words[4 * j - 4 + c]
          BY <3>4, <5>1
        <5>3. words[4 * j - 4 + c] = trace[j][c]
          BY <3>1, <5>1 DEF Laid, words
        <5> QED
          BY <5>2, <5>3
      <4> QED
        BY <4>1, <4>2
    <3>6. Laid(trace, k, words \o i)
      BY <3>4, <3>5 DEF Laid
    <3>7. f[k] = words \o i /\ k \in 0 .. N
      BY <1>3, <3>1 DEF words, i
    <3> QED
      BY <3>6, <3>7
  <2> QED
    BY <2>1, <2>2
<1>5. 0 .. N \subseteq P
  <2> HIDE DEF P
  <2> QED
    BY <1>3, <1>4, Induction
<1> QED
  BY <1>2, <1>3, <1>5 DEF N, Encode

\* A program that the host validated survives its binary form (Encode, Decode).
THEOREM WordsRestore ==
  ASSUME NEW trace, ValidTrace(trace)
  PROVE  Decode(Encode(trace)) = [trace |-> trace, ok |-> TRUE]
<1> DEFINE words == Encode(trace)
           whole == [n \in 1 .. Len(words) \div 4 |-> SubSeq(words, 4 * n - 3, 4 * n)]
           bad == {n \in DOMAIN whole : ~ValidInstruction(whole[n])}
           N == Len(trace)
<1>1. trace \in Seq(Code) /\ N \in Nat /\ DOMAIN trace = 1 .. N
  BY LenProperties DEF ValidTrace, Traces, Code
<1>2. words \in Seq(Word) /\ Len(words) = 4 * N
      /\ \A j \in 1 .. N : \A c \in 1 .. 4 : words[4 * j - 4 + c] = trace[j][c]
  <2>1. CASE trace = <<>>
    <3>1. Len(trace) = 0 /\ words = <<>>
      BY <2>1 DEF Encode, FlattenSeq
    <3>2. <<>> \in Seq(Word) /\ Len(<<>>) = 0
      OBVIOUS
    <3> QED
      BY <3>1, <3>2
  <2>2. CASE trace # <<>>
    BY <1>1, <2>2, EncodeLays DEF Laid
  <2> QED
    BY <2>1, <2>2
<1> HIDE DEF words, N
<1>3. Len(words) % 4 = 0 /\ Len(words) \div 4 = N
  BY <1>1, <1>2
<1>4. ASSUME NEW n \in 1 .. N PROVE SubSeq(words, 4 * n - 3, 4 * n) = trace[n]
  <2> DEFINE i == SubSeq(words, 4 * n - 3, 4 * n)
             lo == 4 * n - 3
             hi == 4 * n
  <2>1. lo \in Int /\ hi \in Int /\ hi - lo + 1 = 4 /\ lo <= hi
    BY <1>1
  <2>2. \A k \in lo .. hi : words[k] \in Word
    <3>1. \A k \in lo .. hi : k \in 1 .. Len(words)
      BY <1>1, <1>2
    <3> QED
      BY <1>2, <3>1, ElementOfSeq
  <2> HIDE DEF lo, hi
  <2>3. /\ SubSeq(words, lo, hi) \in Seq(Word) /\ Len(SubSeq(words, lo, hi)) = 4
        /\ \A c \in 1 .. 4 : SubSeq(words, lo, hi)[c] = words[lo + c - 1]
    BY <2>1, <2>2, SubSeqProperties
  <2>4. trace[n] \in Seq(Word) /\ Len(trace[n]) = 4
    BY <1>1, ElementOfSeq, CodeIsFour DEF N
  <2>5. ASSUME NEW c \in 1 .. 4 PROVE SubSeq(words, lo, hi)[c] = trace[n][c]
    <3>1. lo + c - 1 = 4 * n - 4 + c
      BY <1>1 DEF lo
    <3> QED
      BY <1>2, <2>3, <3>1
  <2>6. SubSeq(words, lo, hi) = trace[n]
    BY <2>3, <2>4, <2>5, SeqEqual
  <2> QED
    BY <2>6 DEF lo, hi
<1>5. whole = trace
  <2>1. trace = [n \in 1 .. N |-> trace[n]]
    BY <1>1
  <2>2. whole = [n \in 1 .. N |-> trace[n]]
    BY <1>3, <1>4
  <2> QED
    BY <2>1, <2>2
<1>6. \A n \in 1 .. N : ValidInstruction(trace[n])
  BY <1>1 DEF ValidTrace, Faulty
<1>7. bad = {}
  BY <1>1, <1>5, <1>6
<1>8. Earliest(bad) = 0
  BY <1>7 DEF Earliest
<1>9. Decode(words) = ValidPrefix(whole, Earliest(bad))
  BY <1>3 DEF Decode
<1> HIDE DEF whole, bad
<1> QED
  BY <1>5, <1>8, <1>9 DEF ValidPrefix, words

-----------------------------------------------------------------------------
(* Listings.                                                               *)

\* A line of four numbers is read back as it is.
LEMMA WordsLineReadBack ==
  ASSUME NEW i \in Code, ValidInstruction(i), NEW pc, NEW pass
  PROVE  Translate(WordsLine(pc, i), pass) = i
<1> DEFINE line == WordsLine(pc, i)
           args == [n \in 1 .. 4 |-> <<"number", i[n]>>]
           words == [n \in DOMAIN line.args |-> Unsigned(line.args[n])]
<1>1. line.name = "WORDS" /\ line.args = args /\ line.annotated = FALSE
  BY DEF WordsLine, CodeLine
<1> HIDE DEF line
<1>2. i \in Seq(Word) /\ Len(i) = 4 /\ DOMAIN i = 1 .. 4 /\ i # <<>>
  BY CodeIsFour
<1>3. ASSUME NEW n \in 1 .. 4 PROVE Unsigned(args[n]) = i[n]
  <2>1. args[n] = <<"number", i[n]>> /\ i[n] \in Word
    BY <1>2, ElementOfSeq
  <2> HIDE DEF args
  <2> QED
    BY <2>1 DEF Unsigned
<1>4. words = i
  <2>1. DOMAIN line.args = 1 .. 4 /\ \A n \in 1 .. 4 : Unsigned(line.args[n]) = i[n]
    BY <1>1, <1>3
  <2>2. words = [n \in 1 .. 4 |-> i[n]]
    BY <2>1
  <2>3. i = [n \in 1 .. 4 |-> i[n]]
    BY <1>2
  <2> QED
    BY <2>2, <2>3
<1>5. ~Contains(i, Bad)
  <2>1. \A n \in 1 .. 4 : i[n] # Bad
    BY <1>2, ElementOfSeq, BadIsNoWord
  <2> QED
    BY <1>2, <2>1 DEF Contains
<1>6. FromWords(line) = IF ~line.annotated /\ Len(words) = 4 /\ ~Contains(words, Bad) THEN words ELSE <<>>
  BY DEF FromWords
<1> HIDE DEF words
<1>7. FromWords(line) = i
  BY <1>1, <1>2, <1>4, <1>5, <1>6
<1> QED
  BY <1>1, <1>2, <1>7 DEF Translate, Checked, line

Numbered(trace, j) == [source |-> j + 1, text |-> WordsLine(j - 1, trace[j])]

\* The lines of a listing in words.
LEMMA NumbersLines ==
  ASSUME NEW trace \in Seq(Code)
  PROVE  /\ Numbers(trace) \in Seq(ToSet(Numbers(trace)))
         /\ Len(Numbers(trace)) = Len(trace) + 1 /\ Numbers(trace)[1].kind = "header"
         /\ \A j \in 1 .. Len(trace) : Numbers(trace)[j + 1] = WordsLine(j - 1, trace[j])
<1> DEFINE N == Len(trace)
           body == [n \in DOMAIN trace |-> WordsLine(n - 1, trace[n])]
           head == <<[kind |-> "header"]>>
           Elements == ToSet(body) \cup ToSet(head)
<1>1. N \in Nat /\ DOMAIN trace = 1 .. N
  BY LenProperties
<1>2. body \in [1 .. N -> ToSet(body)]
  BY <1>1 DEF ToSet
<1>3. body \in Seq(Elements) /\ Len(body) = N /\ \A j \in 1 .. N : body[j] = WordsLine(j - 1, trace[j])
  <2>1. body \in Seq(ToSet(body))
    BY <1>1, <1>2, SeqDef
  <2>2. Len(body) = N
    BY <1>1, <1>2
  <2>3. \A j \in 1 .. N : body[j] = WordsLine(j - 1, trace[j])
    BY <1>1
  <2> HIDE DEF body
  <2> QED
    BY <2>1, <2>2, <2>3, SeqMonotonic
<1>4. head \in Seq(Elements) /\ Len(head) = 1 /\ head[1].kind = "header"
  BY DEF ToSet
<1>5. Numbers(trace) = head \o body
  BY DEF Numbers, Listing
<1> HIDE DEF head, body, Elements, N
<1>6. /\ head \o body \in Seq(Elements) /\ Len(head \o body) = 1 + N
      /\ \A n \in 1 .. 1 + N : (head \o body)[n] = IF n <= 1 THEN head[n] ELSE body[n - 1]
  <2>1. head \in Seq(Elements) /\ body \in Seq(Elements)
    BY <1>3, <1>4
  <2>2. /\ head \o body \in Seq(Elements) /\ Len(head \o body) = Len(head) + Len(body)
        /\ \A n \in 1 .. Len(head) + Len(body) :
             (head \o body)[n] = IF n <= Len(head) THEN head[n] ELSE body[n - Len(head)]
    BY <2>1, ConcatProperties
  <2>3. Len(head) = 1 /\ Len(body) = N
    BY <1>3, <1>4
  <2> QED
    BY <2>2, <2>3
<1>7. head \o body \in Seq(ToSet(head \o body))
  BY <1>6, OwnElements
<1>8. ASSUME NEW j \in 1 .. N PROVE (head \o body)[j + 1] = WordsLine(j - 1, trace[j])
  <2>1. j + 1 \in 1 .. 1 + N /\ ~(j + 1 <= 1) /\ (j + 1) - 1 = j
    BY <1>1
  <2> QED
    BY <1>3, <1>6, <2>1
<1>9. (head \o body)[1].kind = "header" /\ 1 + N = N + 1
  BY <1>1, <1>4, <1>6
<1> QED
  BY <1>5, <1>6, <1>7, <1>8, <1>9 DEF N

\* What the first pass knows after k lines of a listing in words.
ReadUpTo(trace, k, pass) ==
  /\ DOMAIN pass = {"symbols", "labels", "lines", "errors"}
  /\ pass.errors = <<>>
  /\ pass.lines \in Seq(ToSet(pass.lines)) /\ Len(pass.lines) = k
  /\ \A j \in 1 .. k : pass.lines[j] = Numbered(trace, j)

\* The first pass keeps every line of a listing in words.
LEMMA NumbersKept ==
  ASSUME NEW trace \in Seq(Code)
  PROVE  ReadUpTo(trace, Len(trace), FirstPass(Numbers(trace), <<>>))
<1> DEFINE source == Numbers(trace)
           N == Len(trace)
<1>1. /\ source \in Seq(ToSet(source)) /\ Len(source) = N + 1 /\ source[1].kind = "header"
      /\ \A j \in 1 .. N : source[j + 1] = WordsLine(j - 1, trace[j])
      /\ N \in Nat
  BY NumbersLines, LenProperties
<1> HIDE DEF source, N
<1>2. PICK v : Goes(Pass(source, <<>>), v) /\ FirstPass(source, <<>>) = v[Len(source)]
  BY <1>1, FirstPassGoes
<1>3. v[0] = Start(<<>>) /\ \A n \in 1 .. N + 1 : v[n] = Scan(v[n - 1], n, source[n])
  BY <1>1, <1>2 DEF Goes, Pass, Apply
<1> DEFINE P == {k \in 0 .. N : ReadUpTo(trace, k, v[k + 1])}
<1>4. 0 \in P
  <2>1. v[1] = Scan(v[0], 1, source[1])
    <3>1. 1 \in 1 .. N + 1 /\ 1 - 1 = 0
      BY <1>1
    <3> QED
      BY <1>3, <3>1
  <2>2. v[1] = Start(<<>>)
    BY <1>1, <1>3, <2>1 DEF Scan
  <2>3. ReadUpTo(trace, 0, Start(<<>>))
    BY DEF ReadUpTo, Start, ToSet
  <2> QED
    BY <1>1, <2>2, <2>3
<1>5. ASSUME NEW k \in 1 .. N, k - 1 \in P PROVE k \in P
  <2> DEFINE pass == v[k]
             line == WordsLine(k - 1, trace[k])
             kept == Numbered(trace, k)
             lines == Append(pass.lines, kept)
  <2>1. ReadUpTo(trace, k - 1, pass)
    BY <1>1, <1>5
  <2>2. v[k + 1] = Scan(pass, k + 1, line)
    <3>1. k + 1 \in 1 .. N + 1 /\ (k + 1) - 1 = k
      BY <1>1
    <3> QED
      BY <1>1, <1>3, <3>1
  <2> HIDE DEF pass
  <2>3. line.kind = "code" /\ line.pc = k - 1
    BY DEF WordsLine, CodeLine
  <2>4. kept = [source |-> k + 1, text |-> line]
    BY DEF Numbered
  <2> HIDE DEF line, kept
  <2>5. v[k + 1] = [pass EXCEPT !.lines = lines]
    BY <2>1, <2>2, <2>3, <2>4 DEF Scan, Keep, ReadUpTo
  <2>6. lines \in Seq(ToSet(lines))
    BY <2>1, AppendElements DEF ReadUpTo
  <2>7. Len(lines) = k /\ \A j \in 1 .. k : lines[j] = Numbered(trace, j)
    <3>1. pass.lines \in Seq(ToSet(pass.lines) \cup {kept}) /\ Len(pass.lines) = k - 1
      BY <2>1, SeqMonotonic DEF ReadUpTo
    <3>2. /\ Len(lines) = (k - 1) + 1
          /\ \A j \in 1 .. k - 1 : lines[j] = pass.lines[j]
          /\ lines[(k - 1) + 1] = kept
      BY <3>1, AppendProperties
    <3>3. (k - 1) + 1 = k /\ \A j \in 1 .. k : j \in 1 .. k - 1 \/ j = k
      BY <1>1
    <3> HIDE DEF lines
    <3> QED
      BY <2>1, <3>2, <3>3 DEF ReadUpTo, kept
  <2> HIDE DEF lines
  <2>8. ReadUpTo(trace, k, v[k + 1])
    BY <2>1, <2>5, <2>6, <2>7 DEF ReadUpTo
  <2> QED
    BY <1>1, <2>8
<1>6. 0 .. N \subseteq P
  <2> HIDE DEF P
  <2> QED
    BY <1>1, <1>4, <1>5, Induction
<1>7. ReadUpTo(trace, N, v[N + 1])
  BY <1>1, <1>6
<1> QED
  BY <1>1, <1>2, <1>7 DEF source, N

\* The second pass makes the trace of a listing in words.
LEMMA NumbersInstructed ==
  ASSUME NEW trace \in Seq(Code), \A n \in 1 .. Len(trace) : ValidInstruction(trace[n]),
         NEW pass, ReadUpTo(trace, Len(trace), pass)
  PROVE  Instructed(pass) = [trace |-> trace, errors |-> <<>>]
<1> DEFINE N == Len(trace)
           Made(k, to) ==
             /\ to = [trace |-> to.trace, errors |-> <<>>]
             /\ to.trace \in Seq(Code) /\ Len(to.trace) = k
             /\ \A j \in 1 .. k : to.trace[j] = trace[j]
<1>1. /\ pass.lines \in Seq(ToSet(pass.lines)) /\ Len(pass.lines) = N /\ N \in Nat
      /\ \A j \in 1 .. N : pass.lines[j] = Numbered(trace, j)
      /\ pass.errors = <<>>
  BY LenProperties DEF ReadUpTo
<1>2. PICK v : Goes(Instructing(pass), v) /\ Instructed(pass) = v[Len(pass.lines)]
  BY <1>1, InstructedGoes
<1>3. /\ v[0] = [trace |-> <<>>, errors |-> <<>>]
      /\ \A n \in 1 .. N :
           v[n] = Add(v[n - 1], pass.lines[n], Translate(pass.lines[n].text, pass))
  BY <1>1, <1>2 DEF Goes, Instructing, Apply
<1>4. \A n \in 1 .. N : trace[n] \in Code /\ ValidInstruction(trace[n]) /\ trace[n] # <<>>
  BY ElementOfSeq, CodeIsFour
<1> HIDE DEF N
<1> DEFINE P == {k \in 0 .. N : Made(k, v[k])}
<1>5. 0 \in P
  <2>1. v[0].trace = <<>> /\ Len(<<>>) = 0 /\ <<>> \in Seq(Code)
    BY <1>3, EmptySeq
  <2>2. Made(0, v[0])
    BY <1>3, <2>1
  <2> QED
    BY <1>1, <2>2
<1>6. ASSUME NEW k \in 1 .. N, k - 1 \in P PROVE k \in P
  <2> DEFINE to == v[k - 1]
             longer == Append(to.trace, trace[k])
  <2>1. Made(k - 1, to) /\ k - 1 \in Nat
    BY <1>1, <1>6
  <2>2. Translate(pass.lines[k].text, pass) = trace[k]
    <3>1. pass.lines[k].text = WordsLine(k - 1, trace[k])
      <4>1. pass.lines[k] = Numbered(trace, k)
        BY <1>1
      <4>2. Numbered(trace, k).text = WordsLine(k - 1, trace[k])
        BY DEF Numbered
      <4> QED
        BY <4>1, <4>2
    <3> QED
      BY <1>4, <3>1, WordsLineReadBack
  <2>3. v[k] = [to EXCEPT !.trace = longer]
    BY <1>3, <1>4, <2>2 DEF Add
  <2> HIDE DEF to
  <2>4. v[k] = [trace |-> longer, errors |-> <<>>]
    <3>1. PICK made : to = [trace |-> made, errors |-> <<>>]
      BY <2>1
    <3> HIDE DEF longer
    <3> QED
      BY <2>3, <3>1
  <2>5. /\ longer \in Seq(Code) /\ Len(longer) = k
        /\ \A j \in 1 .. k - 1 : longer[j] = trace[j]
        /\ longer[k] = trace[k]
    <3>1. to.trace \in Seq(Code) /\ Len(to.trace) = k - 1 /\ trace[k] \in Code
      BY <1>4, <2>1
    <3>2. /\ longer \in Seq(Code) /\ Len(longer) = (k - 1) + 1
          /\ \A j \in 1 .. k - 1 : longer[j] = to.trace[j]
          /\ longer[(k - 1) + 1] = trace[k]
      BY <3>1, AppendProperties
    <3>3. (k - 1) + 1 = k
      BY <1>1
    <3> HIDE DEF longer
    <3> QED
      BY <2>1, <3>2, <3>3
  <2>6. \A j \in 1 .. k : j \in 1 .. k - 1 \/ j = k
    BY <1>1
  <2> HIDE DEF longer
  <2>7. Made(k, v[k])
    BY <2>4, <2>5, <2>6
  <2> HIDE DEF Made
  <2> QED
    BY <1>1, <2>7
<1>7. 0 .. N \subseteq P
  <2> HIDE DEF P
  <2> QED
    BY <1>1, <1>5, <1>6, Induction
<1>8. Made(N, v[N])
  BY <1>1, <1>7
<1>9. v[N].trace = trace
  BY <1>8, SeqEqual DEF N
<1> QED
  BY <1>1, <1>2, <1>8, <1>9

\* A listing in words restores the program.
LEMMA NumbersRestore ==
  ASSUME NEW trace, ValidTrace(trace)
  PROVE  Restores(Numbers(trace), trace)
<1> DEFINE pass == FirstPass(Numbers(trace), <<>>)
<1>1. trace \in Seq(Code) /\ trace \in Traces /\ \A n \in 1 .. Len(trace) : ValidInstruction(trace[n])
  BY LenProperties DEF ValidTrace, Traces, Code, Faulty
<1>2. ReadUpTo(trace, Len(trace), pass)
  BY <1>1, NumbersKept
<1> HIDE DEF pass
<1>3. Instructed(pass) = [trace |-> trace, errors |-> <<>>]
  BY <1>1, <1>2, NumbersInstructed
<1>4. FirstFault(trace) = 0
  BY <1>1, NoFault
<1>5. SecondPass(pass) = [trace |-> trace, errors |-> <<>>]
  BY <1>3, <1>4 DEF SecondPass, Conclude, Blame, Returned
<1> QED
  BY <1>5 DEF Restores, Assemble, pass

\* The listing of a program that the host validated is assembled to that program again,
\* whatever its operands and reserved bits are (Disassemble).
THEOREM ListingRestores ==
  ASSUME NEW trace, ValidTrace(trace)
  PROVE  Assemble(Disassemble(trace), <<>>) = [trace |-> trace, errors |-> <<>>]
<1>1. Restores(Disassemble(trace), trace)
  BY NumbersRestore DEF Disassemble
<1> QED
  BY <1>1 DEF Restores
=============================================================================

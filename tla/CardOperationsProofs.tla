----------------------- MODULE CardOperationsProofs -----------------------
(***************************************************************************)
(* CardOperations, for any cards, players, zones and numbers of failures.  *)
(***************************************************************************)
EXTENDS CardOperations, FiniteInduction, SequenceTheorems, TLAPS

-----------------------------------------------------------------------------
(* Sequences.                                                              *)

\* One sequence after another.
LEMMA Joined ==
  ASSUME NEW Elements, NEW one \in Seq(Elements), NEW two \in Seq(Elements)
  PROVE  /\ one \o two \in Seq(Elements) /\ Len(one \o two) = Len(one) + Len(two)
         /\ \A i \in 1..Len(one) : (one \o two)[i] = one[i]
         /\ \A i \in 1..Len(two) : (one \o two)[Len(one) + i] = two[i]
<1>1. Len(one) \in Nat /\ Len(two) \in Nat
  BY LenProperties
<1>2. /\ one \o two \in Seq(Elements) /\ Len(one \o two) = Len(one) + Len(two)
      /\ \A i \in 1..Len(one) + Len(two) :
           (one \o two)[i] = IF i <= Len(one) THEN one[i] ELSE two[i - Len(one)]
  BY ConcatProperties
<1> QED
  BY <1>1, <1>2

\* As the calls of a SUMMON: some, three and two.
ThreeAndTwo(two, three) == Len(two) = 3 /\ Len(three) = 2

Thrice(all, n, one, two, three) ==
  /\ n \in Nat /\ Len(all) = n + 5
  /\ \A i \in 1..n : all[i] = one[i]
  /\ all[n + 1] = two[1] /\ all[n + 2] = two[2] /\ all[n + 3] = two[3]
  /\ all[n + 4] = three[1] /\ all[n + 5] = three[2]

\* One by one.
LEMMA JoinedThrice ==
  ASSUME NEW Elements, NEW one \in Seq(Elements), NEW two \in Seq(Elements), NEW three \in Seq(Elements),
         ThreeAndTwo(two, three)
  PROVE  /\ (one \o two) \o three \in Seq(Elements)
         /\ Thrice((one \o two) \o three, Len(one), one, two, three)
<1> DEFINE both == one \o two
           all == both \o three
           n == Len(one)
<1>1. n \in Nat
  BY LenProperties
<1>2. /\ both \in Seq(Elements) /\ Len(both) = n + 3
      /\ \A i \in 1..n : both[i] = one[i]
      /\ \A i \in 1..3 : both[n + i] = two[i]
  <2>1. /\ one \o two \in Seq(Elements) /\ Len(one \o two) = Len(one) + Len(two)
        /\ \A i \in 1..Len(one) : (one \o two)[i] = one[i]
        /\ \A i \in 1..Len(two) : (one \o two)[Len(one) + i] = two[i]
    BY Joined
  <2> QED
    BY <2>1 DEF ThreeAndTwo
<1>7. both \in Seq(Elements)
  BY <1>2
<1>3. /\ all \in Seq(Elements) /\ Len(all) = (n + 3) + 2
      /\ \A i \in 1..n + 3 : all[i] = both[i]
      /\ \A i \in 1..2 : all[(n + 3) + i] = three[i]
  <2> HIDE DEF both, n
  <2>1. /\ both \o three \in Seq(Elements) /\ Len(both \o three) = Len(both) + Len(three)
        /\ \A i \in 1..Len(both) : (both \o three)[i] = both[i]
        /\ \A i \in 1..Len(three) : (both \o three)[Len(both) + i] = three[i]
    BY <1>7, Joined
  <2> QED
    BY <1>2, <2>1 DEF ThreeAndTwo
<1> HIDE DEF both, all, n
<1>4. all[n + 1] = two[1] /\ all[n + 2] = two[2] /\ all[n + 3] = two[3]
  <2>1. n + 1 \in 1..n + 3 /\ n + 2 \in 1..n + 3 /\ n + 3 \in 1..n + 3
    BY <1>1
  <2>2. all[n + 1] = both[n + 1] /\ all[n + 2] = both[n + 2] /\ all[n + 3] = both[n + 3]
    BY <2>1, <1>3
  <2>3. both[n + 1] = two[1] /\ both[n + 2] = two[2] /\ both[n + 3] = two[3]
    BY <1>2
  <2> QED
    BY <2>2, <2>3
<1>5. all[n + 4] = three[1] /\ all[n + 5] = three[2]
  <2>1. (n + 3) + 1 = n + 4 /\ (n + 3) + 2 = n + 5
    BY <1>1
  <2> QED
    BY <1>3, <2>1
<1>6. Len(all) = n + 5
  BY <1>1, <1>3
<1>9. ASSUME NEW i \in 1..n PROVE all[i] = one[i]
  <2>1. i \in 1..n + 3
    BY <1>1
  <2> QED
    BY <2>1, <1>2, <1>3
<1>8. all \in Seq(Elements) /\ Thrice(all, n, one, two, three)
  BY <1>1, <1>3, <1>4, <1>5, <1>6, <1>9 DEF Thrice
<1> QED
  BY <1>8 DEF both, all, n

-----------------------------------------------------------------------------
(* Storage calls.                                                          *)

Fields == {"place", "position", "face_up", "defense_position", "controller", "owner", "equip_target"}

\* What each field holds.
Holds ==
  [place |-> Locations \cup {Nowhere},
   position |-> Canonical \cup {NotCanonical}, face_up |-> BOOLEAN, defense_position |-> BOOLEAN,
   controller |-> Players \cup {none}, owner |-> Players \cup {none},
   equip_target |-> Cards \cup {none}]

Contents == UNION {Holds[f] : f \in Fields}

\* What a call can write to a card, and a call.
Writable == {w \in UNION {[F -> Contents] : F \in SUBSET Fields} : \A f \in DOMAIN w : w[f] \in Holds[f]}
StorageCalls == UNION {[D -> Writable] : D \in SUBSET Cards}

Writes(call, c, f) == c \in DOMAIN call /\ f \in DOMAIN call[c]

\* The fields of a card, one by one.
LEMMA FieldByField ==
  ASSUME NEW r
  PROVE  r \in CardFields <=> r = [f \in Fields |-> r[f]] /\ \A f \in Fields : r[f] \in Holds[f]
<1>1. ASSUME r \in CardFields PROVE r = [f \in Fields |-> r[f]] /\ \A f \in Fields : r[f] \in Holds[f]
  BY <1>1 DEF CardFields, Fields, Holds
<1>2. ASSUME r = [f \in Fields |-> r[f]], \A f \in Fields : r[f] \in Holds[f] PROVE r \in CardFields
  <2>1. /\ r.place \in Locations \cup {Nowhere} /\ r.position \in Canonical \cup {NotCanonical}
        /\ r.face_up \in BOOLEAN /\ r.defense_position \in BOOLEAN
        /\ r.controller \in Players \cup {none} /\ r.owner \in Players \cup {none}
        /\ r.equip_target \in Cards \cup {none}
    BY <1>2 DEF Fields, Holds
  <2>2. r = [place |-> r.place, position |-> r.position, face_up |-> r.face_up,
             defense_position |-> r.defense_position, controller |-> r.controller,
             owner |-> r.owner, equip_target |-> r.equip_target]
    BY <1>2 DEF Fields
  <2> QED
    BY <2>1, <2>2 DEF CardFields
<1> QED
  BY <1>1, <1>2

\* What a call is made of.
LEMMA CallShape ==
  ASSUME NEW call \in StorageCalls
  PROVE  /\ DOMAIN call \subseteq Cards
         /\ \A c \in DOMAIN call : \A f \in DOMAIN call[c] : f \in Fields /\ call[c][f] \in Holds[f]
BY DEF StorageCalls, Writable

\* A call writes what it says and nothing else.
LEMMA OverwriteIs ==
  ASSUME NEW state \in [Cards -> CardFields], NEW call \in StorageCalls
  PROVE  /\ Overwrite(state, call) \in [Cards -> CardFields]
         /\ \A c \in Cards, f \in Fields :
              Overwrite(state, call)[c][f] = IF Writes(call, c, f) THEN call[c][f] ELSE state[c][f]
<1> DEFINE new == Overwrite(state, call)
<1>1. new = [c \in Cards |->
               IF c \notin DOMAIN call THEN state[c]
               ELSE [f \in DOMAIN state[c] |-> IF f \in DOMAIN call[c] THEN call[c][f] ELSE state[c][f]]]
  BY DEF Overwrite
<1>2. ASSUME NEW c \in Cards PROVE DOMAIN state[c] = Fields /\ \A f \in Fields : state[c][f] \in Holds[f]
  <2>1. state[c] \in CardFields
    OBVIOUS
  <2>2. state[c] = [f \in Fields |-> state[c][f]] /\ \A f \in Fields : state[c][f] \in Holds[f]
    BY <2>1, FieldByField
  <2> QED
    BY <2>2
<1> HIDE DEF new
<1>3. ASSUME NEW c \in Cards
      PROVE  /\ new[c] \in CardFields
             /\ \A f \in Fields : new[c][f] = IF Writes(call, c, f) THEN call[c][f] ELSE state[c][f]
  <2>1. CASE c \notin DOMAIN call
    BY <1>1, <2>1 DEF Writes
  <2>2. CASE c \in DOMAIN call
    <3>1. new[c] = [f \in Fields |-> IF f \in DOMAIN call[c] THEN call[c][f] ELSE state[c][f]]
      BY <1>1, <1>2, <2>2
    <3>2. \A f \in Fields : new[c][f] = IF Writes(call, c, f) THEN call[c][f] ELSE state[c][f]
      BY <3>1, <2>2 DEF Writes
    <3>3. \A f \in Fields : new[c][f] \in Holds[f]
      BY <3>2, <1>2, CallShape DEF Writes
    <3>4. new[c] = [f \in Fields |-> new[c][f]]
      BY <3>1
    <3> QED
      BY <3>2, <3>3, <3>4, FieldByField
  <2> QED
    BY <2>1, <2>2
<1> QED
  BY <1>1, <1>3 DEF new

\* A series of n calls.
Series(n, calls) == n \in Nat /\ calls \in [1..n -> StorageCalls]

\* state is what the cards become, call by call.
States(n, calls, state) ==
  state = [k \in 0..n |-> IF k = 0 THEN object ELSE Overwrite(state[k - 1], calls[k])]

\* There is such a series of states, for any number of calls.
LEMMA StatesExist ==
  ASSUME NEW N \in Nat, NEW calls
  PROVE  \E state : States(N, calls, state)
<1> DEFINE P == {n \in 0..N : \E state : States(n, calls, state)}
<1>1. 0 \in P
  <2> DEFINE state == [k \in 0..0 |-> object]
  <2>1. States(0, calls, state)
    BY DEF States
  <2> QED
    BY <2>1
<1>2. ASSUME NEW n \in 1..N, n - 1 \in P PROVE n \in P
  <2>1. PICK state : States(n - 1, calls, state)
    BY <1>2
  <2> DEFINE last == Overwrite(state[n - 1], calls[n])
             new == [k \in 0..n |-> IF k = n THEN last ELSE state[k]]
             step(k) == IF k = 0 THEN object ELSE Overwrite(new[k - 1], calls[k])
  <2>2. ASSUME NEW k \in 0..n PROVE new[k] = step(k)
    <3>1. CASE k = n
      <4>1. k # 0 /\ k - 1 \in 0..n /\ k - 1 # n
        BY <3>1
      <4>2. new[k - 1] = state[n - 1] /\ new[k] = last
        BY <3>1, <4>1
      <4> QED
        BY <3>1, <4>1, <4>2
    <3>2. CASE k # n
      <4>1. k \in 0..n - 1 /\ new[k] = state[k]
        BY <3>2
      <4>2. k # 0 => k - 1 \in 0..n /\ k - 1 # n
        BY <3>2
      <4>3. k # 0 => new[k - 1] = state[k - 1]
        BY <4>2
      <4>4. state[k] = IF k = 0 THEN object ELSE Overwrite(state[k - 1], calls[k])
        BY <2>1, <4>1 DEF States
      <4> QED
        BY <4>1, <4>3, <4>4
    <3> QED
      BY <3>1, <3>2
  <2>3. new = [k \in 0..n |-> step(k)]
    BY <2>2
  <2>4. States(n, calls, new)
    BY <2>3 DEF States
  <2> QED
    BY <2>4
<1>3. 0..N \subseteq P
  <2> HIDE DEF P
  <2> QED
    BY <1>1, <1>2, Induction
<1> QED
  BY <1>3

\* After is the last of them.
LEMMA AfterIs ==
  ASSUME NEW calls, Len(calls) \in Nat
  PROVE  \E state : States(Len(calls), calls, state) /\ After(calls) = state[Len(calls)]
<1> DEFINE last == CHOOSE state : States(Len(calls), calls, state)
<1>1. States(Len(calls), calls, last)
  BY StatesExist, Zenon
<1>2. After(calls) = last[Len(calls)]
  BY Zenon DEF After, States
<1> QED
  BY <1>1, <1>2

\* Each state comes from the one before.
LEMMA StatesStep ==
  ASSUME NEW n \in Nat, NEW calls, NEW state, States(n, calls, state)
  PROVE  state[0] = object /\ \A k \in 1..n : state[k] = Overwrite(state[k - 1], calls[k])
<1>1. \A k \in 0..n : state[k] = IF k = 0 THEN object ELSE Overwrite(state[k - 1], calls[k])
  BY DEF States
<1> QED
  BY <1>1

\* Two series that begin alike lead to the same states.
LEMMA StatesAlike ==
  ASSUME NEW n \in Nat, NEW m \in Nat, n <= m, NEW calls, NEW done, NEW state, NEW other,
         \A k \in 1..n : done[k] = calls[k],
         States(m, calls, state), States(n, done, other)
  PROVE  other[n] = state[n]
<1> DEFINE P == {k \in 0..n : other[k] = state[k]}
<1>1. 0 \in P
  BY StatesStep
<1>2. ASSUME NEW k \in 1..n, k - 1 \in P PROVE k \in P
  <2>1. other[k] = Overwrite(other[k - 1], done[k])
    BY StatesStep
  <2>2. k \in 1..m /\ done[k] = calls[k]
    OBVIOUS
  <2>3. state[k] = Overwrite(state[k - 1], calls[k])
    BY <2>2, StatesStep
  <2> QED
    BY <2>1, <2>2, <2>3, <1>2
<1>3. 0..n \subseteq P
  <2> HIDE DEF P
  <2> QED
    BY <1>1, <1>2, Induction
<1> QED
  BY <1>3

\* The states hold cards.
LEMMA StatesTyped ==
  ASSUME object \in [Cards -> CardFields], NEW n, NEW calls, Series(n, calls),
         NEW state, States(n, calls, state)
  PROVE  \A k \in 0..n : state[k] \in [Cards -> CardFields]
<1>0. n \in Nat /\ calls \in [1..n -> StorageCalls]
  BY DEF Series
<1> DEFINE P == {k \in 0..n : state[k] \in [Cards -> CardFields]}
<1>1. 0 \in P
  BY <1>0, StatesStep
<1>2. ASSUME NEW k \in 1..n, k - 1 \in P PROVE k \in P
  <2>1. state[k] = Overwrite(state[k - 1], calls[k]) /\ calls[k] \in StorageCalls
    BY <1>0, StatesStep
  <2>2. state[k - 1] \in [Cards -> CardFields]
    BY <1>2
  <2>3. state[k] \in [Cards -> CardFields]
    BY <2>1, <2>2, OverwriteIs
  <2> QED
    BY <2>3
<1>3. 0..n \subseteq P
  <2> HIDE DEF P
  <2> QED
    BY <1>0, <1>1, <1>2, Induction
<1> QED
  BY <1>3

\* A field that none of the calls after the i-th writes stays as it is.
LEMMA StatesKeep ==
  ASSUME object \in [Cards -> CardFields], NEW n, NEW calls, Series(n, calls),
         NEW state, States(n, calls, state),
         NEW i \in 0..n, NEW c \in Cards, NEW f \in Fields,
         \A j \in i + 1..n : ~Writes(calls[j], c, f)
  PROVE  state[n][c][f] = state[i][c][f]
<1>0. n \in Nat /\ calls \in [1..n -> StorageCalls]
  BY DEF Series
<1> DEFINE P == {k \in 0..n : k >= i => state[k][c][f] = state[i][c][f]}
<1>1. 0 \in P
  BY <1>0
<1>2. ASSUME NEW k \in 1..n, k - 1 \in P PROVE k \in P
  <2>1. CASE k <= i
    BY <1>0, <2>1
  <2>2. CASE k > i
    <3>1. /\ state[k - 1] \in [Cards -> CardFields] /\ calls[k] \in StorageCalls
          /\ state[k] = Overwrite(state[k - 1], calls[k])
      BY <1>0, StatesTyped, StatesStep
    <3>2. ~Writes(calls[k], c, f)
      BY <2>2, <1>0
    <3>3. state[k][c][f] = state[k - 1][c][f]
      BY <3>1, <3>2, OverwriteIs
    <3>4. k - 1 >= i
      BY <2>2, <1>0
    <3> QED
      BY <3>3, <3>4, <1>2
  <2> QED
    BY <2>1, <2>2, <1>0
<1>3. 0..n \subseteq P
  <2> HIDE DEF P
  <2> QED
    BY <1>0, <1>1, <1>2, Induction
<1> QED
  BY <1>0, <1>3

\* What each call writes is there after it.
LEMMA StatesWrite ==
  ASSUME object \in [Cards -> CardFields], NEW n, NEW calls, Series(n, calls),
         NEW state, States(n, calls, state),
         NEW i \in 1..n, NEW c \in Cards, NEW f \in Fields, Writes(calls[i], c, f)
  PROVE  state[i][c][f] = calls[i][c][f]
<1>0. n \in Nat /\ calls \in [1..n -> StorageCalls]
  BY DEF Series
<1>1. /\ state[i - 1] \in [Cards -> CardFields] /\ calls[i] \in StorageCalls
      /\ state[i] = Overwrite(state[i - 1], calls[i])
  BY <1>0, StatesTyped, StatesStep
<1> QED
  BY <1>1, OverwriteIs

\* A value is the one from before or was written by some call.
LEMMA StatesOrigin ==
  ASSUME object \in [Cards -> CardFields], NEW n, NEW calls, Series(n, calls),
         NEW state, States(n, calls, state), NEW c \in Cards, NEW f \in Fields
  PROVE  \/ state[n][c][f] = object[c][f]
         \/ \E i \in 1..n : Writes(calls[i], c, f) /\ state[n][c][f] = calls[i][c][f]
<1>0. n \in Nat /\ calls \in [1..n -> StorageCalls]
  BY DEF Series
<1> DEFINE Origin(k) == \/ state[k][c][f] = object[c][f]
                        \/ \E i \in 1..k : Writes(calls[i], c, f) /\ state[k][c][f] = calls[i][c][f]
           P == {k \in 0..n : Origin(k)}
<1>1. 0 \in P
  BY <1>0, StatesStep
<1>2. ASSUME NEW k \in 1..n, k - 1 \in P PROVE k \in P
  <2>1. /\ state[k - 1] \in [Cards -> CardFields] /\ calls[k] \in StorageCalls
        /\ state[k] = Overwrite(state[k - 1], calls[k])
    BY <1>0, StatesTyped, StatesStep
  <2>2. state[k][c][f] = IF Writes(calls[k], c, f) THEN calls[k][c][f] ELSE state[k - 1][c][f]
    BY <2>1, OverwriteIs
  <2>3. CASE Writes(calls[k], c, f)
    <3>1. k \in 1..k
      BY <1>0
    <3> QED
      BY <3>1, <2>2, <2>3
  <2>4. CASE ~Writes(calls[k], c, f)
    <3>1. Origin(k - 1) /\ 1..k - 1 \subseteq 1..k
      BY <1>0, <1>2
    <3> QED
      BY <3>1, <2>2, <2>4
  <2> QED
    BY <2>3, <2>4
<1>3. 0..n \subseteq P
  <2> HIDE DEF P
  <2> QED
    BY <1>0, <1>1, <1>2, Induction
<1> QED
  BY <1>0, <1>3

-----------------------------------------------------------------------------
(* What After answers.                                                     *)

\* A series is as long as its calls.
LEMMA SeriesOf ==
  ASSUME NEW calls \in Seq(StorageCalls)
  PROVE  Len(calls) \in Nat /\ Series(Len(calls), calls)
BY LenProperties DEF Series

\* After a series the cards are well typed.
LEMMA AfterTyped ==
  ASSUME object \in [Cards -> CardFields], NEW calls \in Seq(StorageCalls)
  PROVE  After(calls) \in [Cards -> CardFields]
<1>1. PICK state : States(Len(calls), calls, state) /\ After(calls) = state[Len(calls)]
  BY SeriesOf, AfterIs
<1> QED
  BY <1>1, SeriesOf, StatesTyped

\* What no call writes is as before.
LEMMA AfterUnwritten ==
  ASSUME object \in [Cards -> CardFields], NEW calls \in Seq(StorageCalls),
         NEW c \in Cards, NEW f \in Fields, \A j \in 1..Len(calls) : ~Writes(calls[j], c, f)
  PROVE  After(calls)[c][f] = object[c][f]
<1>1. PICK state : States(Len(calls), calls, state) /\ After(calls) = state[Len(calls)]
  BY SeriesOf, AfterIs
<1>2. 0 \in 0..Len(calls) /\ 0 + 1 = 1
  BY SeriesOf
<1>3. state[Len(calls)][c][f] = state[0][c][f]
  BY <1>1, <1>2, SeriesOf, StatesKeep
<1> QED
  BY <1>1, <1>3, SeriesOf, StatesStep

\* What a call writes and no later call writes is what it wrote.
LEMMA AfterLast ==
  ASSUME object \in [Cards -> CardFields], NEW calls \in Seq(StorageCalls),
         NEW i \in 1..Len(calls), NEW c \in Cards, NEW f \in Fields,
         Writes(calls[i], c, f), \A j \in 1..Len(calls) : j > i => ~Writes(calls[j], c, f)
  PROVE  After(calls)[c][f] = calls[i][c][f]
<1>0. \A j \in i + 1..Len(calls) : ~Writes(calls[j], c, f)
  BY SeriesOf
<1>1. PICK state : States(Len(calls), calls, state) /\ After(calls) = state[Len(calls)]
  BY SeriesOf, AfterIs
<1>2. i \in 0..Len(calls)
  BY SeriesOf
<1>3. state[Len(calls)][c][f] = state[i][c][f]
  BY <1>0, <1>1, <1>2, SeriesOf, StatesKeep
<1> QED
  BY <1>1, <1>3, SeriesOf, StatesWrite

\* What it holds was there or was written.
LEMMA AfterOrigin ==
  ASSUME object \in [Cards -> CardFields], NEW calls \in Seq(StorageCalls),
         NEW c \in Cards, NEW f \in Fields
  PROVE  \/ After(calls)[c][f] = object[c][f]
         \/ \E i \in 1..Len(calls) : Writes(calls[i], c, f) /\ After(calls)[c][f] = calls[i][c][f]
<1>1. PICK state : States(Len(calls), calls, state) /\ After(calls) = state[Len(calls)]
  BY SeriesOf, AfterIs
<1> QED
  BY <1>1, SeriesOf, StatesOrigin

\* A series that is cut short has written all that the rest does not write.
LEMMA AfterPrefix ==
  ASSUME object \in [Cards -> CardFields], NEW calls \in Seq(StorageCalls),
         NEW done \in Seq(StorageCalls), NEW k \in 1..Len(calls), Len(done) = k,
         \A j \in 1..k : done[j] = calls[j],
         NEW c \in Cards, NEW f \in Fields, \A j \in k + 1..Len(calls) : ~Writes(calls[j], c, f)
  PROVE  After(done)[c][f] = After(calls)[c][f]
<1>1. PICK state : States(Len(calls), calls, state) /\ After(calls) = state[Len(calls)]
  BY SeriesOf, AfterIs
<1>2. PICK other : States(k, done, other) /\ After(done) = other[k]
  BY SeriesOf, AfterIs
<1>3. k \in Nat /\ k <= Len(calls) /\ k \in 0..Len(calls)
  BY SeriesOf
<1>4. other[k] = state[k]
  BY <1>1, <1>2, <1>3, SeriesOf, StatesAlike
<1>5. state[Len(calls)][c][f] = state[k][c][f]
  BY <1>1, <1>3, SeriesOf, StatesKeep
<1> QED
  BY <1>1, <1>2, <1>4, <1>5

-----------------------------------------------------------------------------
(* The invariant.                                                          *)

\* A card that is not there yet is attached to nothing.
Unattached == \A c \in Cards : ~Present(c) => object[c].equip_target = none

IInv == TypeOK /\ FieldsAgree /\ EventsLocate /\ EventsEquip /\ Unattached

ControlAgrees(r) == r.controller = r.place.player
PositionAgrees(r) ==
  r.position = (IF r.face_up THEN {"up"} ELSE {})
                 \cup (IF r.defense_position THEN {"defense"} ELSE {})

\* A location is somewhere.
LEMMA Somewhere ==
  ASSUME NEW at \in Locations
  PROVE  at # Nowhere
BY CardOperationsAssumption DEF Locations, Nowhere

\* What a step has to leave behind.
LEMMA Kept ==
  ASSUME IInv, object' \in [Cards -> CardFields], failures' \in 0..MaxFailures,
         torn' \subseteq Cards \X Parts, seen' \in [Cards -> Locations \cup {Nowhere}], worn' = worn,
         \A c \in Cards : object'[c].equip_target = object[c].equip_target,
         \A c \in Cards : object'[c].place = object[c].place \/ object'[c].place \in Locations,
         \A c \in Cards : object'[c].place # Nowhere /\ <<c, "control">> \notin torn'
                           => ControlAgrees(object'[c]),
         \A c \in Cards : object'[c].place # Nowhere /\ <<c, "position">> \notin torn'
                           => PositionAgrees(object'[c]),
         \A c \in Cards : <<c, "event">> \notin torn' => seen'[c] = object'[c].place
  PROVE  IInv'
<1>1. TypeOK'
  BY DEF IInv, TypeOK
<1>2. FieldsAgree'
  BY DEF FieldsAgree, Present, ControlAgrees, PositionAgrees
<1>3. EventsLocate'
  BY DEF EventsLocate
<1>4. EventsEquip'
  <2>1. worn = {pair \in Cards \X Cards : object[pair[1]].equip_target = pair[2]}
    BY DEF IInv, EventsEquip
  <2>2. \A pair \in Cards \X Cards : object'[pair[1]].equip_target = object[pair[1]].equip_target
    OBVIOUS
  <2> QED
    BY <2>1, <2>2 DEF EventsEquip
<1>5. Unattached'
  <2> SUFFICES ASSUME NEW c \in Cards, object'[c].place = Nowhere PROVE object'[c].equip_target = none
    BY DEF Unattached, Present
  <2>1. object[c].place = Nowhere
    BY Somewhere
  <2> QED
    BY <2>1 DEF IInv, Unattached, Present
<1> QED
  BY <1>1, <1>2, <1>3, <1>4, <1>5 DEF IInv

-----------------------------------------------------------------------------
(* Series that finish or break.                                            *)

ControlFields == {"place", "controller"}
PositionFields == {"position", "face_up", "defense_position"}

\* A call puts a card somewhere; one that is not there yet gets a position with that;
\* and it attaches nothing.
ProperCall(call) ==
  \A c \in Cards :
    /\ Writes(call, c, "place") =>
         call[c]["place"] \in Locations /\ (Present(c) \/ Writes(call, c, "position"))
    /\ Writes(call, c, "equip_target") => call[c]["equip_target"] = object[c].equip_target

\* A series of such calls leaves what it touches in agreement, or it is lost.
Proper(calls, lost) ==
  /\ lost \subseteq Cards \X Parts
  /\ calls \in Seq(StorageCalls)
  /\ \A i \in 1..Len(calls) : ProperCall(calls[i])
  /\ \A c \in Cards :
       /\ Wrote(calls, c, ControlFields) =>
            ControlAgrees(After(calls)[c]) \/ <<c, "control">> \in lost
       /\ Wrote(calls, c, PositionFields) => PositionAgrees(After(calls)[c])

\* Wrote, field by field.
LEMMA WroteIs ==
  ASSUME NEW calls, NEW c, NEW F
  PROVE  Wrote(calls, c, F) <=> \E i \in 1..Len(calls) : \E f \in F : Writes(calls[i], c, f)
BY DEF Wrote, Writes

\* What is torn and what is not, card by card.
LEMMA Parted ==
  ASSUME NEW calls, NEW c \in Cards
  PROVE  /\ <<c, "control">> \in Touched(calls) <=> Wrote(calls, c, ControlFields)
         /\ <<c, "position">> \in Touched(calls) <=> Wrote(calls, c, PositionFields)
         /\ <<c, "event">> \notin Touched(calls)
         /\ <<c, "event">> \in Relocated(calls) <=> Wrote(calls, c, {"place"})
         /\ <<c, "control">> \notin Relocated(calls) /\ <<c, "position">> \notin Relocated(calls)
<1>1. "control" # "position" /\ "control" # "event" /\ "position" # "event"
  OBVIOUS
<1> QED
  BY <1>1, Zenon DEF Touched, Relocated, ControlFields, PositionFields

\* They are parts of cards.
LEMMA TornTyped ==
  ASSUME NEW calls
  PROVE  Touched(calls) \subseteq Cards \X Parts /\ Relocated(calls) \subseteq Cards \X Parts
BY DEF Touched, Relocated, Parts

\* What a proper series leaves: typed cards that are somewhere and wear what they wore.
LEMMA ProperLeaves ==
  ASSUME IInv, NEW calls \in Seq(StorageCalls), \A i \in 1..Len(calls) : ProperCall(calls[i])
  PROVE  /\ After(calls) \in [Cards -> CardFields]
         /\ \A c \in Cards :
              /\ After(calls)[c].equip_target = object[c].equip_target
              /\ After(calls)[c].place = object[c].place \/ After(calls)[c].place \in Locations
<1>1. object \in [Cards -> CardFields]
  BY DEF IInv, TypeOK
<1>2. After(calls) \in [Cards -> CardFields]
  BY <1>1, AfterTyped
<1>3. ASSUME NEW c \in Cards
      PROVE  After(calls)[c]["equip_target"] = object[c]["equip_target"]
  <2>1. "equip_target" \in Fields
    BY DEF Fields
  <2>2. \/ After(calls)[c]["equip_target"] = object[c]["equip_target"]
        \/ \E i \in 1..Len(calls) : Writes(calls[i], c, "equip_target")
                                  /\ After(calls)[c]["equip_target"] = calls[i][c]["equip_target"]
    BY <1>1, <2>1, AfterOrigin
  <2> QED
    BY <2>2 DEF ProperCall
<1>4. ASSUME NEW c \in Cards
      PROVE  After(calls)[c]["place"] = object[c]["place"] \/ After(calls)[c]["place"] \in Locations
  <2>1. "place" \in Fields
    BY DEF Fields
  <2>2. \/ After(calls)[c]["place"] = object[c]["place"]
        \/ \E i \in 1..Len(calls) : Writes(calls[i], c, "place")
                                  /\ After(calls)[c]["place"] = calls[i][c]["place"]
    BY <1>1, <2>1, AfterOrigin
  <2> QED
    BY <2>2 DEF ProperCall
<1> QED
  BY <1>2, <1>3, <1>4

\* A part that no call touches is as before.
LEMMA Untouched ==
  ASSUME IInv, NEW calls \in Seq(StorageCalls), NEW c \in Cards
  PROVE  /\ ~Wrote(calls, c, {"place"}) => After(calls)[c].place = object[c].place
         /\ ~Wrote(calls, c, ControlFields) =>
              /\ After(calls)[c].place = object[c].place
              /\ After(calls)[c].controller = object[c].controller
         /\ ~Wrote(calls, c, PositionFields) =>
              /\ After(calls)[c].position = object[c].position
              /\ After(calls)[c].face_up = object[c].face_up
              /\ After(calls)[c].defense_position = object[c].defense_position
<1>1. object \in [Cards -> CardFields]
  BY DEF IInv, TypeOK
<1>2. ASSUME NEW F \in SUBSET Fields, ~Wrote(calls, c, F), NEW f \in F
      PROVE  After(calls)[c][f] = object[c][f]
  <2>1. \A j \in 1..Len(calls) : ~Writes(calls[j], c, f)
    BY <1>2, WroteIs
  <2> QED
    BY <1>1, <2>1, AfterUnwritten
<1>3. {"place"} \in SUBSET Fields /\ ControlFields \in SUBSET Fields /\ PositionFields \in SUBSET Fields
  BY DEF Fields, ControlFields, PositionFields
<1>4. ~Wrote(calls, c, {"place"}) => After(calls)[c]["place"] = object[c]["place"]
  BY <1>2, <1>3
<1>5. "place" \in ControlFields /\ "controller" \in ControlFields
  BY DEF ControlFields
<1>6. "position" \in PositionFields /\ "face_up" \in PositionFields /\ "defense_position" \in PositionFields
  BY DEF PositionFields
<1>7. ASSUME ~Wrote(calls, c, ControlFields)
      PROVE  /\ After(calls)[c]["place"] = object[c]["place"]
             /\ After(calls)[c]["controller"] = object[c]["controller"]
  BY <1>2, <1>3, <1>5, <1>7
<1>8. ASSUME ~Wrote(calls, c, PositionFields)
      PROVE  /\ After(calls)[c]["position"] = object[c]["position"]
             /\ After(calls)[c]["face_up"] = object[c]["face_up"]
             /\ After(calls)[c]["defense_position"] = object[c]["defense_position"]
  BY <1>2, <1>3, <1>6, <1>8
<1> QED
  BY <1>4, <1>7, <1>8

\* If the position is untouched, a card that is there was there before.
LEMMA StaysAway ==
  ASSUME IInv, NEW calls \in Seq(StorageCalls), \A i \in 1..Len(calls) : ProperCall(calls[i]),
         NEW c \in Cards, ~Wrote(calls, c, PositionFields), After(calls)[c].place # Nowhere
  PROVE  Present(c)
<1> SUFFICES ASSUME ~Present(c) PROVE FALSE
  OBVIOUS
<1>1. ASSUME NEW i \in 1..Len(calls) PROVE ~Writes(calls[i], c, "place")
  <2>1. "position" \in PositionFields
    BY DEF PositionFields
  <2>2. ~Writes(calls[i], c, "position")
    BY <2>1, WroteIs
  <2> QED
    BY <2>2 DEF ProperCall
<1>2. ~Wrote(calls, c, {"place"})
  BY <1>1, WroteIs
<1> QED
  BY <1>2, Untouched DEF Present

\* What IInv says of a part that is not torn.
LEMMA Agreed ==
  ASSUME IInv, NEW c \in Cards
  PROVE  /\ Present(c) /\ <<c, "control">> \notin torn => ControlAgrees(object[c])
         /\ Present(c) /\ <<c, "position">> \notin torn => PositionAgrees(object[c])
         /\ <<c, "event">> \notin torn => seen[c] = object[c].place
BY DEF IInv, FieldsAgree, EventsLocate, ControlAgrees, PositionAgrees

\* A proper series that ends with its events.
LEMMA CompleteIInv ==
  ASSUME IInv, NEW calls, NEW lost, Proper(calls, lost), Complete(calls, lost),
         lost = {} \/ failures < MaxFailures,
         seen' \in [Cards -> Locations \cup {Nowhere}], worn' = worn,
         \A c \in Cards :
           \/ seen'[c] = After(calls)[c].place
           \/ ~Wrote(calls, c, {"place"}) /\ seen'[c] = seen[c]
           \/ <<c, "event">> \in lost
  PROVE  IInv'
<1>1. /\ calls \in Seq(StorageCalls) /\ \A i \in 1..Len(calls) : ProperCall(calls[i])
      /\ lost \subseteq Cards \X Parts
  BY DEF Proper
<1>2. /\ object' = After(calls)
      /\ torn' = (torn \ (Touched(calls) \cup Relocated(calls))) \cup lost
      /\ failures' = IF lost = {} THEN failures ELSE failures + 1
  BY DEF Complete
<1>3. /\ object' \in [Cards -> CardFields]
      /\ \A c \in Cards : object'[c].equip_target = object[c].equip_target
      /\ \A c \in Cards : object'[c].place = object[c].place \/ object'[c].place \in Locations
  BY <1>1, <1>2, ProperLeaves
<1>4. failures' \in 0..MaxFailures /\ torn' \subseteq Cards \X Parts
  <2>1. failures \in 0..MaxFailures /\ torn \subseteq Cards \X Parts
    BY DEF IInv, TypeOK
  <2>2. failures' \in 0..MaxFailures
    BY <2>1, <1>2, CardOperationsAssumption
  <2> QED
    BY <2>1, <2>2, <1>1, <1>2
<1>5. ASSUME NEW c \in Cards, object'[c].place # Nowhere, <<c, "control">> \notin torn'
      PROVE  ControlAgrees(object'[c])
  <2>1. CASE Wrote(calls, c, ControlFields)
    BY <2>1, <1>2, <1>5 DEF Proper
  <2>2. CASE ~Wrote(calls, c, ControlFields)
    <3>1. object'[c].place = object[c].place /\ object'[c].controller = object[c].controller
      BY <2>2, <1>1, <1>2, Untouched
    <3>2. <<c, "control">> \notin torn /\ Present(c)
      BY <3>1, <2>2, <1>2, <1>5, Parted DEF Present
    <3> QED
      BY <3>1, <3>2, Agreed DEF ControlAgrees
  <2> QED
    BY <2>1, <2>2
<1>6. ASSUME NEW c \in Cards, object'[c].place # Nowhere, <<c, "position">> \notin torn'
      PROVE  PositionAgrees(object'[c])
  <2>1. CASE Wrote(calls, c, PositionFields)
    BY <2>1, <1>2 DEF Proper
  <2>2. CASE ~Wrote(calls, c, PositionFields)
    <3>1. /\ object'[c].position = object[c].position /\ object'[c].face_up = object[c].face_up
          /\ object'[c].defense_position = object[c].defense_position
      BY <2>2, <1>1, <1>2, Untouched
    <3>2. Present(c)
      BY <2>2, <1>1, <1>2, <1>6, StaysAway
    <3>3. <<c, "position">> \notin torn
      BY <2>2, <1>2, <1>6, Parted
    <3> QED
      BY <3>1, <3>2, <3>3, Agreed DEF PositionAgrees
  <2> QED
    BY <2>1, <2>2
<1>7. ASSUME NEW c \in Cards, <<c, "event">> \notin torn' PROVE seen'[c] = object'[c].place
  <2>1. CASE seen'[c] = After(calls)[c].place
    BY <2>1, <1>2
  <2>2. CASE ~Wrote(calls, c, {"place"}) /\ seen'[c] = seen[c]
    <3>1. <<c, "event">> \notin torn
      BY <2>2, <1>2, <1>7, Parted
    <3> QED
      BY <3>1, <2>2, <1>1, <1>2, Untouched, Agreed
  <2>3. <<c, "event">> \notin lost
    BY <1>2, <1>7
  <2> QED
    BY <2>1, <2>2, <2>3
<1> QED
  BY <1>3, <1>4, <1>5, <1>6, <1>7, Kept

\* A proper series of which a call fails, after the first.
LEMMA BreakIInv ==
  ASSUME IInv, NEW calls, NEW lost, Proper(calls, lost), Break(calls, lost)
  PROVE  IInv'
<1>1. /\ calls \in Seq(StorageCalls) /\ \A i \in 1..Len(calls) : ProperCall(calls[i])
      /\ lost \subseteq Cards \X Parts
  BY DEF Proper
<1>2. PICK k \in 1..(Len(calls) - 1) :
        /\ object' = After(SubSeq(calls, 1, k))
        /\ torn' = (torn \ (Touched(SubSeq(calls, 1, k)) \ Touched(SubSeq(calls, k + 1, Len(calls)))))
                    \cup (Touched(SubSeq(calls, 1, k)) \cap Touched(SubSeq(calls, k + 1, Len(calls))))
                    \cup Relocated(SubSeq(calls, 1, k)) \cup lost
  BY Zenon DEF Break
<1> DEFINE done == SubSeq(calls, 1, k)
           rest == SubSeq(calls, k + 1, Len(calls))
<1>3. /\ Len(calls) \in Nat /\ k \in Nat /\ k \in 1..Len(calls)
      /\ done \in Seq(StorageCalls) /\ Len(done) = k /\ \A j \in 1..k : done[j] = calls[j]
  <2>1. Len(calls) \in Nat /\ k \in Nat /\ k \in 1..Len(calls)
    BY <1>1, SeriesOf
  <2> QED
    BY <1>1, <2>1, SubSeqProperties
<1>4. Len(rest) = Len(calls) - k /\ \A j \in 1..Len(calls) - k : rest[j] = calls[k + j]
  <2>1. k + 1 \in 1..Len(calls) + 1 /\ Len(calls) \in k..Len(calls)
    BY <1>3
  <2> QED
    BY <1>1, <1>3, <2>1, SubSeqProperties
<1>5. object' = After(done)
      /\ torn' = (torn \ (Touched(done) \ Touched(rest))) \cup (Touched(done) \cap Touched(rest))
                   \cup Relocated(done) \cup lost
  BY <1>2
<1> HIDE DEF done, rest
<1>6. \A i \in 1..Len(done) : ProperCall(done[i])
  BY <1>1, <1>3
<1>7. /\ object' \in [Cards -> CardFields]
      /\ \A c \in Cards : object'[c].equip_target = object[c].equip_target
      /\ \A c \in Cards : object'[c].place = object[c].place \/ object'[c].place \in Locations
  BY <1>3, <1>5, <1>6, ProperLeaves
<1>8. failures' \in 0..MaxFailures
  BY CardOperationsAssumption DEF Break, IInv, TypeOK
<1>9. torn' \subseteq Cards \X Parts
  <2>1. torn \subseteq Cards \X Parts
    BY DEF IInv, TypeOK
  <2> QED
    BY <2>1, <1>1, <1>5, TornTyped, Zenon
<1>10. seen' = seen /\ worn' = worn
  BY DEF Break, told
<1>11. object \in [Cards -> CardFields] /\ seen' \in [Cards -> Locations \cup {Nowhere}]
  BY <1>10 DEF IInv, TypeOK
<1>12. ASSUME NEW c \in Cards, NEW F \in SUBSET Fields, Wrote(done, c, F), ~Wrote(rest, c, F)
       PROVE  Wrote(calls, c, F) /\ \A f \in F : object'[c][f] = After(calls)[c][f]
  <2>1. PICK i \in 1..Len(done) : \E f \in F : Writes(done[i], c, f)
    BY <1>12, WroteIs
  <2>2. i \in 1..Len(calls) /\ done[i] = calls[i]
    BY <1>3
  <2>3. Wrote(calls, c, F)
    BY <2>1, <2>2, WroteIs
  <2>4. ASSUME NEW f \in F PROVE object'[c][f] = After(calls)[c][f]
    <3>1. ASSUME NEW j \in k + 1..Len(calls) PROVE ~Writes(calls[j], c, f)
      <4>1. j - k \in 1..Len(rest) /\ j - k \in 1..Len(calls) - k /\ k + (j - k) = j
        BY <1>3, <1>4
      <4>2. rest[j - k] = calls[j]
        BY <4>1, <1>4
      <4> QED
        BY <4>1, <4>2, <1>12, WroteIs
    <3> QED
      BY <3>1, <1>1, <1>3, <1>5, <1>11, AfterPrefix
  <2> QED
    BY <2>3, <2>4
<1>13. ASSUME NEW c \in Cards, object'[c].place # Nowhere, <<c, "control">> \notin torn'
       PROVE  ControlAgrees(object'[c])
  <2>1. CASE Wrote(done, c, ControlFields)
    <3>1. ~Wrote(rest, c, ControlFields)
      BY <2>1, <1>5, <1>13, Parted
    <3>2. ControlFields \in SUBSET Fields /\ "place" \in ControlFields /\ "controller" \in ControlFields
      BY DEF Fields, ControlFields
    <3>3. /\ Wrote(calls, c, ControlFields)
          /\ object'[c]["place"] = After(calls)[c]["place"]
          /\ object'[c]["controller"] = After(calls)[c]["controller"]
      BY <2>1, <3>1, <3>2, <1>12
    <3>4. <<c, "control">> \notin lost
      BY <1>5, <1>13
    <3> QED
      BY <3>3, <3>4 DEF Proper, ControlAgrees
  <2>2. CASE ~Wrote(done, c, ControlFields)
    <3>1. object'[c].place = object[c].place /\ object'[c].controller = object[c].controller
      BY <2>2, <1>3, <1>5, Untouched
    <3>2. <<c, "control">> \notin torn /\ Present(c)
      BY <3>1, <2>2, <1>5, <1>13, Parted DEF Present
    <3> QED
      BY <3>1, <3>2, Agreed DEF ControlAgrees
  <2> QED
    BY <2>1, <2>2
<1>14. ASSUME NEW c \in Cards, object'[c].place # Nowhere, <<c, "position">> \notin torn'
       PROVE  PositionAgrees(object'[c])
  <2>1. CASE Wrote(done, c, PositionFields)
    <3>1. ~Wrote(rest, c, PositionFields)
      BY <2>1, <1>5, <1>14, Parted
    <3>2. /\ PositionFields \in SUBSET Fields /\ "position" \in PositionFields
          /\ "face_up" \in PositionFields /\ "defense_position" \in PositionFields
      BY DEF Fields, PositionFields
    <3>3. /\ Wrote(calls, c, PositionFields)
          /\ object'[c]["position"] = After(calls)[c]["position"]
          /\ object'[c]["face_up"] = After(calls)[c]["face_up"]
          /\ object'[c]["defense_position"] = After(calls)[c]["defense_position"]
      BY <2>1, <3>1, <3>2, <1>12
    <3> QED
      BY <3>3 DEF Proper, PositionAgrees
  <2>2. CASE ~Wrote(done, c, PositionFields)
    <3>1. /\ object'[c].position = object[c].position /\ object'[c].face_up = object[c].face_up
          /\ object'[c].defense_position = object[c].defense_position
      BY <2>2, <1>3, <1>5, Untouched
    <3>2. Present(c)
      BY <2>2, <1>3, <1>5, <1>6, <1>14, StaysAway
    <3>3. <<c, "position">> \notin torn
      BY <2>2, <1>5, <1>14, Parted
    <3> QED
      BY <3>1, <3>2, <3>3, Agreed DEF PositionAgrees
  <2> QED
    BY <2>1, <2>2
<1>15. ASSUME NEW c \in Cards, <<c, "event">> \notin torn' PROVE seen'[c] = object'[c].place
  <2>1. ~Wrote(done, c, {"place"}) /\ <<c, "event">> \notin torn
    BY <1>5, <1>15, Parted
  <2> QED
    BY <2>1, <1>3, <1>5, <1>10, Untouched, Agreed
<1> QED
  BY <1>7, <1>8, <1>9, <1>10, <1>11, <1>13, <1>14, <1>15, Kept

-----------------------------------------------------------------------------
(* POSITION.                                                               *)

\* A call that writes one field of one card.
Sets(call, c, field, value) ==
  /\ call \in StorageCalls
  /\ \A d : \A f : Writes(call, d, f) <=> d = c /\ f = field
  /\ call[c][field] = value

\* One is such a call.
LEMMA OneField ==
  ASSUME NEW c \in Cards, NEW field \in Fields, NEW value \in Holds[field],
         NEW w, w = [f \in {field} |-> value]
  PROVE  Sets(One(c, w), c, field, value)
<1>1. w \in [{field} -> Contents] /\ {field} \in SUBSET Fields /\ DOMAIN w = {field}
  BY DEF Contents
<1>2. w \in Writable
  BY <1>1 DEF Writable
<1>3. One(c, w) \in [{c} -> Writable] /\ {c} \in SUBSET Cards
  BY <1>2 DEF One
<1> QED
  BY <1>1, <1>3 DEF One, StorageCalls, Writes, Sets

\* The calls that the instructions make.
LEMMA FieldCalls ==
  ASSUME NEW c \in Cards
  PROVE  /\ \A value \in Canonical : Sets(One(c, [position |-> value]), c, "position", value)
         /\ \A value \in BOOLEAN : Sets(One(c, [face_up |-> value]), c, "face_up", value)
         /\ \A value \in BOOLEAN : Sets(One(c, [defense_position |-> value]), c, "defense_position", value)
         /\ \A at \in Locations : Sets(One(c, [place |-> at]), c, "place", at)
         /\ \A player \in Players : Sets(One(c, [controller |-> player]), c, "controller", player)
         /\ \A player \in Players : Sets(One(c, [owner |-> player]), c, "owner", player)
         /\ \A target \in Cards \cup {none} : Sets(One(c, [equip_target |-> target]), c, "equip_target", target)
<1>1. ASSUME NEW value \in Canonical PROVE Sets(One(c, [position |-> value]), c, "position", value)
  <2>1. "position" \in Fields /\ value \in Holds["position"] /\ [position |-> value] = [f \in {"position"} |-> value]
    BY DEF Fields, Holds
  <2> QED
    BY <2>1, OneField
<1>2. ASSUME NEW value \in BOOLEAN PROVE Sets(One(c, [face_up |-> value]), c, "face_up", value)
  <2>1. "face_up" \in Fields /\ value \in Holds["face_up"] /\ [face_up |-> value] = [f \in {"face_up"} |-> value]
    BY DEF Fields, Holds
  <2> QED
    BY <2>1, OneField
<1>3. ASSUME NEW value \in BOOLEAN PROVE Sets(One(c, [defense_position |-> value]), c, "defense_position", value)
  <2>1. "defense_position" \in Fields /\ value \in Holds["defense_position"] /\ [defense_position |-> value] = [f \in {"defense_position"} |-> value]
    BY DEF Fields, Holds
  <2> QED
    BY <2>1, OneField
<1>4. ASSUME NEW at \in Locations PROVE Sets(One(c, [place |-> at]), c, "place", at)
  <2>1. "place" \in Fields /\ at \in Holds["place"] /\ [place |-> at] = [f \in {"place"} |-> at]
    BY DEF Fields, Holds
  <2> QED
    BY <2>1, OneField
<1>5. ASSUME NEW player \in Players PROVE Sets(One(c, [controller |-> player]), c, "controller", player)
  <2>1. "controller" \in Fields /\ player \in Holds["controller"] /\ [controller |-> player] = [f \in {"controller"} |-> player]
    BY DEF Fields, Holds
  <2> QED
    BY <2>1, OneField
<1>6. ASSUME NEW player \in Players PROVE Sets(One(c, [owner |-> player]), c, "owner", player)
  <2>1. "owner" \in Fields /\ player \in Holds["owner"] /\ [owner |-> player] = [f \in {"owner"} |-> player]
    BY DEF Fields, Holds
  <2> QED
    BY <2>1, OneField
<1>7. ASSUME NEW target \in Cards \cup {none} PROVE Sets(One(c, [equip_target |-> target]), c, "equip_target", target)
  <2>1. "equip_target" \in Fields /\ target \in Holds["equip_target"] /\ [equip_target |-> target] = [f \in {"equip_target"} |-> target]
    BY DEF Fields, Holds
  <2> QED
    BY <2>1, OneField
<1> QED
  BY <1>1, <1>2, <1>3, <1>4, <1>5, <1>6, <1>7

\* The new position is one of the four.
LEMMA NewIsCanonical ==
  ASSUME IInv, NEW c \in Cards, NEW operation \in FullPositions \cup PartialChanges, Changeable(c, operation)
  PROVE  NewPosition(operation, object[c].position) \in Canonical
<1> DEFINE old == object[c].position
<1>1. operation \in FullPositions \/ operation \in PartialChanges
  OBVIOUS
<1>2. CASE operation \in FullPositions
  <2>1. NewPosition(operation, old) \in {{"up"}, {"up", "defense"}, {"defense"}}
    BY <1>2 DEF FullPositions, NewPosition
  <2> QED
    BY <2>1 DEF Canonical
<1>3. CASE operation \in PartialChanges /\ operation \notin FullPositions
  <2>1. object[c] \in CardFields
    BY DEF IInv, TypeOK
  <2>2. old \in Canonical
    BY <2>1, <1>3 DEF Changeable, CardFields
  <2>3. NewPosition(operation, old) \in {old \ {"defense"}, old \cup {"defense"}, old \cup {"up"}, old \ {"up"}}
    BY <1>3 DEF PartialChanges, NewPosition
  <2> QED
    BY <2>2, <2>3 DEF Canonical
<1> QED
  BY <1>1, <1>2, <1>3

\* The three writes of ApplyPosition, from the p-th on, which nothing undoes.
Positions(calls, p, c, new) ==
  /\ p + 1 \in 1..Len(calls) /\ p + 2 \in 1..Len(calls) /\ p + 3 \in 1..Len(calls)
  /\ Sets(calls[p + 1], c, "position", new)
  /\ Sets(calls[p + 2], c, "face_up", "up" \in new)
  /\ Sets(calls[p + 3], c, "defense_position", "defense" \in new)
  /\ \A j \in p + 4..Len(calls) : \A f \in PositionFields : ~Writes(calls[j], c, f)

\* They bring the position and its flags into agreement.
LEMMA Positioned ==
  ASSUME IInv, NEW calls \in Seq(StorageCalls), NEW p \in Nat, NEW c \in Cards, NEW new \in Canonical,
         Positions(calls, p, c, new)
  PROVE  PositionAgrees(After(calls)[c])
<1>1. /\ p + 1 \in 1..Len(calls) /\ p + 2 \in 1..Len(calls) /\ p + 3 \in 1..Len(calls)
      /\ Sets(calls[p + 1], c, "position", new)
      /\ Sets(calls[p + 2], c, "face_up", "up" \in new)
      /\ Sets(calls[p + 3], c, "defense_position", "defense" \in new)
      /\ \A j \in p + 4..Len(calls) : \A f \in PositionFields : ~Writes(calls[j], c, f)
  BY DEF Positions
<1>2. object \in [Cards -> CardFields] /\ Len(calls) \in Nat
  BY SeriesOf DEF IInv, TypeOK
<1>3. /\ "position" \in Fields /\ "face_up" \in Fields /\ "defense_position" \in Fields
      /\ "position" \in PositionFields /\ "face_up" \in PositionFields
      /\ "defense_position" \in PositionFields
  BY DEF Fields, PositionFields
<1>4. "position" # "face_up" /\ "position" # "defense_position" /\ "face_up" # "defense_position"
  OBVIOUS
<1>5. After(calls)[c]["position"] = new
  <2>1. Writes(calls[p + 1], c, "position") /\ calls[p + 1][c]["position"] = new
    BY <1>1 DEF Sets
  <2>2. ASSUME NEW j \in 1..Len(calls), j > p + 1 PROVE ~Writes(calls[j], c, "position")
    <3>1. j = p + 2 \/ j = p + 3 \/ j \in p + 4..Len(calls)
      BY <1>2, <2>2
    <3> QED
      BY <3>1, <1>1, <1>3, <1>4 DEF Sets
  <2>3. After(calls)[c]["position"] = calls[p + 1][c]["position"]
    BY <2>1, <2>2, <1>1, <1>2, <1>3, AfterLast
  <2> QED
    BY <2>1, <2>3
<1>6. After(calls)[c]["face_up"] = ("up" \in new)
  <2>1. Writes(calls[p + 2], c, "face_up") /\ calls[p + 2][c]["face_up"] = ("up" \in new)
    BY <1>1 DEF Sets
  <2>2. ASSUME NEW j \in 1..Len(calls), j > p + 2 PROVE ~Writes(calls[j], c, "face_up")
    <3>1. j = p + 3 \/ j \in p + 4..Len(calls)
      BY <1>2, <2>2
    <3> QED
      BY <3>1, <1>1, <1>3, <1>4 DEF Sets
  <2>3. After(calls)[c]["face_up"] = calls[p + 2][c]["face_up"]
    BY <2>1, <2>2, <1>1, <1>2, <1>3, AfterLast
  <2> QED
    BY <2>1, <2>3
<1>7. After(calls)[c]["defense_position"] = ("defense" \in new)
  <2>1. Writes(calls[p + 3], c, "defense_position") /\ calls[p + 3][c]["defense_position"] = ("defense" \in new)
    BY <1>1 DEF Sets
  <2>2. ASSUME NEW j \in 1..Len(calls), j > p + 3 PROVE ~Writes(calls[j], c, "defense_position")
    <3>1. j \in p + 4..Len(calls)
      BY <1>2, <2>2
    <3> QED
      BY <3>1, <1>1, <1>3
  <2>3. After(calls)[c]["defense_position"] = calls[p + 3][c]["defense_position"]
    BY <2>1, <2>2, <1>1, <1>2, <1>3, AfterLast
  <2> QED
    BY <2>1, <2>3
<1>8. new = (IF "up" \in new THEN {"up"} ELSE {}) \cup (IF "defense" \in new THEN {"defense"} ELSE {})
  BY DEF Canonical
<1> QED
  BY <1>5, <1>6, <1>7, <1>8 DEF PositionAgrees

\* The calls of a POSITION.
LEMMA PositionCallsAre ==
  ASSUME IInv, NEW c \in Cards, NEW operation \in FullPositions \cup PartialChanges, Changeable(c, operation),
         NEW new, new = NewPosition(operation, object[c].position)
  PROVE  /\ new \in Canonical
         /\ PositionCalls(c, operation) \in Seq(StorageCalls) /\ Len(PositionCalls(c, operation)) = 3
         /\ Sets(PositionCalls(c, operation)[1], c, "position", new)
         /\ Sets(PositionCalls(c, operation)[2], c, "face_up", "up" \in new)
         /\ Sets(PositionCalls(c, operation)[3], c, "defense_position", "defense" \in new)
<1>1. new \in Canonical
  BY NewIsCanonical
<1> DEFINE c1 == One(c, [position |-> new])
           c2 == One(c, [face_up |-> "up" \in new])
           c3 == One(c, [defense_position |-> "defense" \in new])
<1>2. PositionCalls(c, operation) = <<c1, c2, c3>>
  BY Zenon DEF PositionCalls
<1>3. /\ Sets(c1, c, "position", new) /\ Sets(c2, c, "face_up", "up" \in new)
      /\ Sets(c3, c, "defense_position", "defense" \in new)
  <2>1. ("up" \in new) \in BOOLEAN /\ ("defense" \in new) \in BOOLEAN
    OBVIOUS
  <2> QED
    BY <1>1, <2>1, FieldCalls, Zenon
<1>4. c1 \in StorageCalls /\ c2 \in StorageCalls /\ c3 \in StorageCalls
  BY <1>3, Zenon DEF Sets
<1> HIDE DEF c1, c2, c3
<1> QED
  BY <1>1, <1>2, <1>3, <1>4

\* POSITION.
LEMMA PositionIInv ==
  ASSUME IInv, NEW c \in Cards, NEW operation \in Changes, Position(c, operation)
  PROVE  IInv'
<1> DEFINE calls == PositionCalls(c, operation)
           new == NewPosition(operation, object[c].position)
<1>1. /\ new \in Canonical /\ calls \in Seq(StorageCalls) /\ Len(calls) = 3
      /\ Sets(calls[1], c, "position", new) /\ Sets(calls[2], c, "face_up", "up" \in new)
      /\ Sets(calls[3], c, "defense_position", "defense" \in new)
  BY PositionCallsAre, CardOperationsAssumption DEF Position
<1>2. \/ Complete(calls, {}) /\ seen' = seen /\ worn' = worn
      \/ Break(calls, {})
  BY DEF Position, told
<1> HIDE DEF calls, new
<1>3. ASSUME NEW i \in 1..Len(calls), NEW d \in Cards, NEW f, Writes(calls[i], d, f)
      PROVE  d = c /\ f \in PositionFields
  <2>1. i = 1 \/ i = 2 \/ i = 3
    BY <1>1
  <2> QED
    BY <2>1, <1>1, <1>3 DEF Sets, PositionFields
<1>4. "place" \notin PositionFields /\ "controller" \notin PositionFields /\ "equip_target" \notin PositionFields
  BY DEF PositionFields
<1>5. Proper(calls, {})
  <2>1. \A i \in 1..Len(calls) : ProperCall(calls[i])
    BY <1>3, <1>4 DEF ProperCall
  <2>2. ASSUME NEW d \in Cards PROVE ~Wrote(calls, d, ControlFields)
    BY <1>3, <1>4, WroteIs DEF ControlFields
  <2>3. ASSUME NEW d \in Cards, Wrote(calls, d, PositionFields) PROVE PositionAgrees(After(calls)[d])
    <3>1. d = c
      BY <1>3, <2>3, WroteIs
    <3>2. Positions(calls, 0, c, new)
      <4>1. 1..Len(calls) = 1..3 /\ 4..Len(calls) = {}
        BY <1>1
      <4> QED
        BY <4>1, <1>1 DEF Positions
    <3> QED
      BY <3>1, <3>2, <1>1, Positioned
  <2> QED
    BY <2>1, <2>2, <2>3, <1>1 DEF Proper
<1>6. CASE Complete(calls, {}) /\ seen' = seen /\ worn' = worn
  <2>1. \A d \in Cards : ~Wrote(calls, d, {"place"}) /\ seen'[d] = seen[d]
    BY <1>3, <1>4, <1>6, WroteIs
  <2>2. seen' \in [Cards -> Locations \cup {Nowhere}]
    BY <1>6 DEF IInv, TypeOK
  <2> QED
    BY <2>1, <2>2, <1>5, <1>6, CompleteIInv
<1> QED
  BY <1>2, <1>5, <1>6, BreakIInv

-----------------------------------------------------------------------------
(* SUMMON.                                                                 *)

\* The control and the event of a card are lost.
Misled(c, lost) == <<c, "control">> \in lost /\ <<c, "event">> \in lost

\* What comes before the position of a SUMMON: calls on the card, that leave it at `at`
\* unless the address misled the instruction.
Leads(first, c, at, lost) ==
  /\ lost \subseteq Cards \X Parts
  /\ first \in Seq(StorageCalls)
  /\ \A i \in 1..Len(first) : ProperCall(first[i]) /\ DOMAIN first[i] = {c}
  /\ \/ /\ object[c].place = at
        /\ \A i \in 1..Len(first) : ~Writes(first[i], c, "place")
     \/ \E i \in 1..Len(first) :
          /\ Writes(first[i], c, "place") /\ first[i][c]["place"] = at
          /\ \A j \in i + 1..Len(first) : ~Writes(first[j], c, "place")
     \/ Misled(c, lost)

\* The calls of a SUMMON, one by one.
Summons(calls, first, n, c, at, new) ==
  /\ n \in Nat /\ n = Len(first) /\ new \in Canonical
  /\ calls \in Seq(StorageCalls) /\ Len(calls) = n + 5
  /\ \A i \in 1..n : calls[i] = first[i]
  /\ Sets(calls[n + 1], c, "position", new)
  /\ Sets(calls[n + 2], c, "face_up", "up" \in new)
  /\ Sets(calls[n + 3], c, "defense_position", "defense" \in new)
  /\ Sets(calls[n + 4], c, "controller", at.player)
  /\ \A d : \A f : ~Writes(calls[n + 5], d, f)

\* SummonCalls are these.
LEMMA SummonCallsAre ==
  ASSUME IInv, NEW c \in Cards, NEW at \in Locations, NEW operation \in FullPositions,
         NEW first, NEW lost, Leads(first, c, at, lost)
  PROVE  \E n, new : Summons(SummonCalls(first, c, at, operation), first, n, c, at, new)
<1>13. PICK n : n = Len(first)
  OBVIOUS
<1>14. PICK new : new = NewPosition(operation, object[c].position)
  OBVIOUS
<1>15. PICK calls : calls = SummonCalls(first, c, at, operation)
  OBVIOUS
<1> DEFINE position == PositionCalls(c, operation)
           last == << Claim(c, at), WriteLastSummoned >>
<1>1. /\ new \in Canonical /\ position \in Seq(StorageCalls) /\ Len(position) = 3
      /\ Sets(position[1], c, "position", new) /\ Sets(position[2], c, "face_up", "up" \in new)
      /\ Sets(position[3], c, "defense_position", "defense" \in new)
  BY <1>14, PositionCallsAre DEF Changeable
<1>2. at.player \in Players
  BY DEF Locations
<1>3. Sets(Claim(c, at), c, "controller", at.player)
  BY <1>2, FieldCalls, Zenon DEF Claim
<1>4. WriteLastSummoned \in StorageCalls /\ \A d : \A f : ~Writes(WriteLastSummoned, d, f)
  <2>1. DOMAIN WriteLastSummoned = {} /\ WriteLastSummoned \in [{} -> Writable] /\ {} \in SUBSET Cards
    BY DEF WriteLastSummoned
  <2> QED
    BY <2>1 DEF StorageCalls, Writes
<1>5. last \in Seq(StorageCalls) /\ Len(last) = 2 /\ last[1] = Claim(c, at) /\ last[2] = WriteLastSummoned
  <2>1. Claim(c, at) \in StorageCalls
    BY <1>3, Zenon DEF Sets
  <2> HIDE DEF Claim, WriteLastSummoned
  <2> QED
    BY <2>1, <1>4
<1>6. first \in Seq(StorageCalls) /\ n \in Nat
  BY <1>13, LenProperties DEF Leads
<1>7. calls = (first \o position) \o last
  BY <1>15 DEF SummonCalls
<1> HIDE DEF position, last
<1>8. /\ n \in Nat /\ calls \in Seq(StorageCalls) /\ Len(calls) = n + 5
      /\ \A i \in 1..n : calls[i] = first[i]
      /\ calls[n + 1] = position[1] /\ calls[n + 2] = position[2] /\ calls[n + 3] = position[3]
      /\ calls[n + 4] = last[1] /\ calls[n + 5] = last[2]
  <2>1. ThreeAndTwo(position, last)
    BY <1>1, <1>5 DEF ThreeAndTwo
  <2>2. position \in Seq(StorageCalls) /\ last \in Seq(StorageCalls)
    BY <1>1, <1>5
  <2>3. calls \in Seq(StorageCalls) /\ Thrice(calls, n, first, position, last)
    BY <2>1, <2>2, <1>6, <1>7, <1>13, JoinedThrice
  <2> QED
    BY <2>3, <1>6 DEF Thrice
<1>9. Summons(calls, first, n, c, at, new)
  BY <1>1, <1>3, <1>4, <1>5, <1>8, <1>13 DEF Summons
<1> QED
  BY <1>9, <1>15, Zenon

\* They are proper, and leave the card at `at`.
LEMMA SummonProper ==
  ASSUME IInv, NEW c \in Cards, NEW at \in Locations, NEW operation \in FullPositions,
         NEW first, NEW lost, Leads(first, c, at, lost), NEW calls, calls = SummonCalls(first, c, at, operation)
  PROVE  /\ Proper(calls, lost) /\ (After(calls)[c].place = at \/ Misled(c, lost))
         /\ \A d \in Cards : d # c => ~Wrote(calls, d, {"place"})
<1>13. PICK n, new : Summons(calls, first, n, c, at, new)
  BY SummonCallsAre, Zenon
<1>1. /\ n \in Nat /\ n = Len(first) /\ new \in Canonical
      /\ calls \in Seq(StorageCalls) /\ Len(calls) = n + 5
      /\ \A i \in 1..n : calls[i] = first[i]
      /\ Sets(calls[n + 1], c, "position", new)
      /\ Sets(calls[n + 2], c, "face_up", "up" \in new)
      /\ Sets(calls[n + 3], c, "defense_position", "defense" \in new)
      /\ Sets(calls[n + 4], c, "controller", at.player)
      /\ \A d : \A f : ~Writes(calls[n + 5], d, f)
  BY <1>13 DEF Summons
<1>2. /\ \A i \in 1..n : ProperCall(first[i]) /\ DOMAIN first[i] = {c}
      /\ \/ /\ object[c].place = at
            /\ \A i \in 1..n : ~Writes(first[i], c, "place")
         \/ \E i \in 1..n :
              /\ Writes(first[i], c, "place") /\ first[i][c]["place"] = at
              /\ \A j \in i + 1..n : ~Writes(first[j], c, "place")
         \/ Misled(c, lost)
      /\ lost \subseteq Cards \X Parts
  BY <1>1 DEF Leads
<1>0. object \in [Cards -> CardFields]
  BY DEF IInv, TypeOK
<1>3. ASSUME NEW i \in 1..Len(calls)
      PROVE  i \in 1..n \/ i = n + 1 \/ i = n + 2 \/ i = n + 3 \/ i = n + 4 \/ i = n + 5
  BY <1>1
<1>4. ASSUME NEW i \in 1..Len(calls), i \notin 1..n, NEW d \in Cards, NEW f, Writes(calls[i], d, f)
      PROVE  d = c /\ f \in PositionFields \cup {"controller"}
  BY <1>1, <1>3, <1>4 DEF Sets, PositionFields
<1>5. "place" \notin PositionFields \cup {"controller"} /\ "equip_target" \notin PositionFields \cup {"controller"}
  BY DEF PositionFields
<1>6. ASSUME NEW i \in 1..Len(calls) PROVE ProperCall(calls[i])
  <2>1. CASE i \in 1..n
    BY <2>1, <1>1, <1>2
  <2>2. CASE i \notin 1..n
    BY <2>2, <1>4, <1>5 DEF ProperCall
  <2> QED
    BY <2>1, <2>2
<1>7. ASSUME NEW i \in 1..Len(calls), NEW d \in Cards, NEW f, Writes(calls[i], d, f)
      PROVE  d = c
  <2>1. CASE i \in 1..n
    BY <2>1, <1>1, <1>2, <1>7 DEF Writes
  <2>2. CASE i \notin 1..n
    BY <2>2, <1>4, <1>7
  <2> QED
    BY <2>1, <2>2
<1>8. ASSUME NEW d \in Cards, NEW F, Wrote(calls, d, F) PROVE d = c
  BY <1>7, <1>8, WroteIs
<1>9. After(calls)[c]["place"] = at \/ Misled(c, lost)
  <2>0. "place" \in Fields
    BY DEF Fields
  <2>1. CASE object[c].place = at /\ \A i \in 1..n : ~Writes(first[i], c, "place")
    <3>1. \A i \in 1..Len(calls) : ~Writes(calls[i], c, "place")
      BY <2>1, <1>1, <1>4, <1>5
    <3>2. After(calls)[c]["place"] = object[c]["place"]
      BY <3>1, <2>0, <1>0, <1>1, AfterUnwritten
    <3> QED
      BY <3>2, <2>1
  <2>2. ASSUME NEW i \in 1..n, Writes(first[i], c, "place"), first[i][c]["place"] = at,
               \A j \in i + 1..n : ~Writes(first[j], c, "place")
        PROVE  After(calls)[c]["place"] = at
    <3>1. i \in 1..Len(calls) /\ calls[i] = first[i]
      BY <1>1
    <3>2. ASSUME NEW j \in 1..Len(calls), j > i PROVE ~Writes(calls[j], c, "place")
      <4>1. j \in 1..n => j \in i + 1..n
        BY <1>1, <3>2
      <4> QED
        BY <4>1, <2>2, <1>1, <1>4, <1>5
    <3>3. calls \in Seq(StorageCalls) /\ Writes(calls[i], c, "place")
      BY <3>1, <2>2, <1>1
    <3>4. After(calls)[c]["place"] = calls[i][c]["place"]
      BY <3>1, <3>2, <3>3, <2>0, <1>0, AfterLast
    <3> QED
      BY <3>1, <3>4, <2>2
  <2> QED
    BY <2>1, <2>2, <1>2
<1>10. ControlAgrees(After(calls)[c]) \/ <<c, "control">> \in lost
  <2>1. "controller" \in Fields
    BY DEF Fields
  <2>2. PICK i \in 1..Len(calls) : i = n + 4
    BY <1>1
  <2>3. ASSUME NEW j \in 1..Len(calls), j > i PROVE ~Writes(calls[j], c, "controller")
    <3>1. j = n + 5
      BY <2>2, <2>3, <1>1
    <3> QED
      BY <3>1, <1>1
  <2>4. Writes(calls[i], c, "controller") /\ calls[i][c]["controller"] = at.player
    BY <2>2, <1>1 DEF Sets
  <2>5. calls \in Seq(StorageCalls)
    BY <1>1
  <2>6. After(calls)[c]["controller"] = calls[i][c]["controller"]
    BY <2>1, <2>3, <2>4, <2>5, <1>0, AfterLast
  <2> QED
    BY <2>4, <2>6, <1>9 DEF ControlAgrees, Misled
<1>11. PositionAgrees(After(calls)[c])
  <2>1. ASSUME NEW j \in n + 4..Len(calls), NEW f \in PositionFields PROVE ~Writes(calls[j], c, f)
    <3>1. (j = n + 4 \/ j = n + 5) /\ f # "controller"
      BY <1>1 DEF PositionFields
    <3> QED
      BY <3>1, <1>1 DEF Sets
  <2>2. n + 1 \in 1..Len(calls) /\ n + 2 \in 1..Len(calls) /\ n + 3 \in 1..Len(calls)
    BY <1>1
  <2>3. Positions(calls, n, c, new)
    BY <2>1, <2>2, <1>1 DEF Positions
  <2> QED
    BY <2>3, <1>1, Positioned
<1>12. Proper(calls, lost)
  BY <1>1, <1>2, <1>6, <1>8, <1>10, <1>11 DEF Proper
<1> QED
  BY <1>8, <1>9, <1>12

\* Every SUMMON keeps the invariant.
LEMMA SummonIInv ==
  ASSUME IInv, NEW c \in Cards, NEW at \in Locations, NEW operation \in FullPositions,
         NEW first, NEW lost, Leads(first, c, at, lost), Summon(first, c, at, operation, lost),
         lost = {} \/ failures < MaxFailures
  PROVE  IInv'
<1> DEFINE calls == SummonCalls(first, c, at, operation)
<1>1. /\ Proper(calls, lost) /\ (After(calls)[c].place = at \/ Misled(c, lost))
      /\ \A d \in Cards : d # c => ~Wrote(calls, d, {"place"})
  BY SummonProper
<1>2. \/ Complete(calls, lost) /\ seen' = [seen EXCEPT ![c] = at] /\ worn' = worn
      \/ Break(calls, lost)
  BY DEF Summon, Tell
<1> HIDE DEF calls
<1>3. CASE Complete(calls, lost) /\ seen' = [seen EXCEPT ![c] = at] /\ worn' = worn
  <2>1. seen \in [Cards -> Locations \cup {Nowhere}]
    BY DEF IInv, TypeOK
  <2>2. seen' \in [Cards -> Locations \cup {Nowhere}] /\ seen'[c] = at /\ \A d \in Cards : d # c => seen'[d] = seen[d]
    BY <2>1, <1>3
  <2>3. ASSUME NEW d \in Cards
        PROVE  \/ seen'[d] = After(calls)[d].place
               \/ ~Wrote(calls, d, {"place"}) /\ seen'[d] = seen[d]
               \/ <<d, "event">> \in lost
    BY <2>2, <1>1 DEF Misled
  <2> QED
    BY <2>2, <2>3, <1>1, <1>3, CompleteIInv
<1> QED
  BY <1>1, <1>2, <1>3, BreakIInv

\* A first call that puts the card there leads to it.
LEMMA LeadsByOne ==
  ASSUME IInv, NEW c \in Cards, NEW at \in Locations, NEW call \in StorageCalls,
         DOMAIN call = {c}, ProperCall(call), Writes(call, c, "place"), call[c]["place"] = at
  PROVE  Leads(<<call>>, c, at, {})
<1> DEFINE first == <<call>>
<1>1. first \in Seq(StorageCalls) /\ Len(first) = 1 /\ first[1] = call
  OBVIOUS
<1> HIDE DEF first
<1>2. \A i \in 1..Len(first) : first[i] = call
  BY <1>1
<1>3. \A j \in 1 + 1..Len(first) : FALSE
  BY <1>1
<1>4. 1 \in 1..Len(first)
  BY <1>1
<1>5. Leads(first, c, at, {})
  BY <1>1, <1>2, <1>3, <1>4 DEF Leads
<1> QED
  BY <1>5 DEF first

\* A relocation is a call of its own.
LEMMA RelocateIs ==
  ASSUME IInv, NEW c \in Cards, NEW at \in Locations
  PROVE  /\ Sets(Relocate(c, at), c, "place", at) /\ DOMAIN Relocate(c, at) = {c}
         /\ Present(c) => ProperCall(Relocate(c, at))
<1>1. Sets(Relocate(c, at), c, "place", at)
  BY FieldCalls, Zenon DEF Relocate
<1>2. DOMAIN Relocate(c, at) = {c}
  BY DEF Relocate, One
<1>3. ASSUME Present(c) PROVE ProperCall(Relocate(c, at))
  BY <1>1, <1>3 DEF Sets, ProperCall
<1> QED
  BY <1>1, <1>2, <1>3

\* The methods that move a card.
LEMMA SummonCardIInv ==
  ASSUME IInv, NEW c \in Cards, NEW at \in Locations, NEW operation \in FullPositions,
         SummonCard(c, at, operation)
  PROVE  IInv'
<1>1. Present(c) /\ Summon(<< Relocate(c, at) >>, c, at, operation, {})
  BY DEF SummonCard
<1>2. Leads(<< Relocate(c, at) >>, c, at, {})
  <2> DEFINE call == Relocate(c, at)
  <2>1. Sets(call, c, "place", at) /\ DOMAIN call = {c} /\ ProperCall(call)
    BY <1>1, RelocateIs
  <2> HIDE DEF call
  <2>2. call \in StorageCalls /\ Writes(call, c, "place") /\ call[c]["place"] = at
    BY <2>1 DEF Sets
  <2>3. Leads(<<call>>, c, at, {})
    BY <2>1, <2>2, LeadsByOne
  <2> QED
    BY <2>3 DEF call
<1> QED
  BY <1>1, <1>2, SummonIInv

\* FLIP: with a current address the card is there already, a stale one misleads it.
LEMMA SummonFlipIInv ==
  ASSUME IInv, NEW src \in Addresses, SummonFlip(src)
  PROVE  IInv'
<1>1. src.card \in Cards /\ src.at \in Locations
  BY CardOperationsAssumption DEF Addresses
<1>2. PICK lost : lost = IF Current(src) THEN {} ELSE {src.card} \X {"control", "event"}
  OBVIOUS
<1>3. /\ Summon(<< >>, src.card, src.at, "FACE_UP_ATTACK", lost)
      /\ Current(src) \/ failures < MaxFailures
  BY <1>2 DEF SummonFlip
<1>4. << >> \in Seq(StorageCalls) /\ 1..Len(<< >>) = {}
  OBVIOUS
<1>5. lost \subseteq Cards \X Parts
  BY <1>1, <1>2 DEF Parts
<1>6. object[src.card].place = src.at \/ Misled(src.card, lost)
  BY <1>2 DEF Current, Misled
<1>7. Leads(<< >>, src.card, src.at, lost)
  BY <1>4, <1>5, <1>6 DEF Leads
<1>8. "FACE_UP_ATTACK" \in FullPositions
  BY DEF FullPositions
<1>9. lost = {} \/ failures < MaxFailures
  BY <1>2, <1>3
<1> QED
  BY <1>1, <1>3, <1>7, <1>8, <1>9, SummonIInv

\* What Create writes: every field, from the prototype, and the place.
LEMMA CreateIs ==
  ASSUME IInv, NEW c \in Cards, NEW at \in Locations, object[c].place = Nowhere
  PROVE  /\ Create(c, at) \in StorageCalls /\ DOMAIN Create(c, at) = {c}
         /\ Writes(Create(c, at), c, "place") /\ Create(c, at)[c]["place"] = at
         /\ ProperCall(Create(c, at))
<1>1. Prototype \in CardFields /\ Prototype.equip_target = none
  BY CardOperationsAssumption
<1> DEFINE new == Overwrite(One(c, Prototype), Relocate(c, at))[c]
<1>2. new = [f \in Fields |-> IF f = "place" THEN at ELSE Prototype[f]]
  <2>1. DOMAIN Prototype = Fields
    BY <1>1 DEF CardFields, Fields
  <2>2. DOMAIN Relocate(c, at) = {c} /\ DOMAIN Relocate(c, at)[c] = {"place"} /\ Relocate(c, at)[c]["place"] = at
    BY DEF Relocate, One
  <2>3. DOMAIN One(c, Prototype) = {c} /\ One(c, Prototype)[c] = Prototype
    BY DEF One
  <2> QED
    BY <2>1, <2>2, <2>3 DEF Overwrite
<1>3. new \in CardFields
  <2>1. \A f \in Fields : Prototype[f] \in Holds[f]
    BY <1>1, FieldByField
  <2>2. at \in Holds["place"]
    BY DEF Holds
  <2>3. \A f \in Fields : new[f] \in Holds[f]
    BY <1>2, <2>1, <2>2
  <2> QED
    BY <1>2, <2>3, FieldByField
<1>4. new \in Writable /\ DOMAIN new = Fields
  <2>1. \A f \in Fields : new[f] \in Holds[f]
    BY <1>3, FieldByField
  <2>2. new \in [Fields -> Contents]
    BY <1>2, <2>1 DEF Contents
  <2> QED
    BY <2>1, <2>2, <1>2 DEF Writable
<1>5. new["place"] = at /\ new["equip_target"] = none /\ "place" \in Fields /\ "position" \in Fields
  BY <1>1, <1>2 DEF Fields
<1> HIDE DEF new
<1>6. Create(c, at) = [x \in {c} |-> new]
  BY Zenon DEF Create, One, new
<1>7. object[c].equip_target = none
  BY DEF IInv, Unattached, Present
<1> DEFINE call == Create(c, at)
<1>8. call = [x \in {c} |-> new]
  BY <1>6
<1> HIDE DEF call
<1>9. call \in StorageCalls /\ DOMAIN call = {c} /\ call[c] = new
  <2>1. call \in [{c} -> Writable] /\ {c} \in SUBSET Cards
    BY <1>4, <1>8
  <2> QED
    BY <2>1, <1>8 DEF StorageCalls
<1>10. Writes(call, c, "place") /\ Writes(call, c, "position")
  BY <1>4, <1>5, <1>9 DEF Writes
<1>11. ProperCall(call)
  <2>1. ASSUME NEW d \in Cards, NEW f, Writes(call, d, f) PROVE d = c
    BY <2>1, <1>9 DEF Writes
  <2> QED
    BY <2>1, <1>5, <1>7, <1>9, <1>10 DEF ProperCall
<1> QED
  BY <1>5, <1>9, <1>10, <1>11 DEF call

\* TOKEN: the card is created, and its owner is written.
LEMMA SummonTokenIInv ==
  ASSUME IInv, NEW c \in Cards, NEW at \in Locations, NEW operation \in FullPositions,
         SummonToken(c, at, operation)
  PROVE  IInv'
<1> DEFINE create == Create(c, at)
           own == One(c, [owner |-> at.player])
           first == << create, own >>
<1>1. object[c].place = Nowhere /\ Summon(first, c, at, operation, {})
  BY DEF SummonToken
<1>2. /\ create \in StorageCalls /\ DOMAIN create = {c}
      /\ Writes(create, c, "place") /\ create[c]["place"] = at /\ ProperCall(create)
  BY <1>1, CreateIs
<1>3. Sets(own, c, "owner", at.player) /\ DOMAIN own = {c}
  <2>1. at.player \in Players
    BY DEF Locations
  <2>2. Sets(own, c, "owner", at.player)
    BY <2>1, FieldCalls, Zenon
  <2>3. DOMAIN own = {c}
    BY DEF One
  <2> QED
    BY <2>2, <2>3
<1> HIDE DEF create, own
<1>4. own \in StorageCalls /\ ProperCall(own) /\ ~Writes(own, c, "place")
  BY <1>3 DEF Sets, ProperCall
<1>5. first \in Seq(StorageCalls) /\ Len(first) = 2 /\ first[1] = create /\ first[2] = own
  BY <1>2, <1>4
<1> HIDE DEF first
<1>6. ASSUME NEW i \in 1..Len(first) PROVE i = 1 \/ i = 2
  BY <1>5
<1>7. \A i \in 1..Len(first) : ProperCall(first[i]) /\ DOMAIN first[i] = {c}
  BY <1>6, <1>5, <1>2, <1>3, <1>4
<1>8. \A j \in 1 + 1..Len(first) : j = 2
  BY <1>5
<1>9. 1 \in 1..Len(first)
  BY <1>5
<1>10. Leads(first, c, at, {})
  BY <1>2, <1>4, <1>5, <1>7, <1>8, <1>9 DEF Leads
<1> QED
  BY <1>1, <1>10, SummonIInv

-----------------------------------------------------------------------------
(* CONTROL.                                                                *)

\* The claim of a card.
LEMMA ClaimIs ==
  ASSUME IInv, NEW c \in Cards, NEW at \in Locations
  PROVE  Sets(Claim(c, at), c, "controller", at.player) /\ ProperCall(Claim(c, at))
<1>1. at.player \in Players
  BY DEF Locations
<1>2. Sets(Claim(c, at), c, "controller", at.player)
  BY <1>1, FieldCalls, Zenon DEF Claim
<1> QED
  BY <1>2 DEF Sets, ProperCall

\* The calls of a CONTROL and of a SWAP of current addresses.
ControlCalls(c, at) == << Relocate(c, at), Claim(c, at) >>
SwapCalls(a, b) == << Exchange(a, b), Claim(a, object[b].place), Claim(b, object[a].place) >>

\* A card that is put at `at` and claimed there lies with its controller.
LEMMA ControlProper ==
  ASSUME IInv, NEW c \in Cards, NEW at \in Locations, Present(c),
         NEW calls, calls = ControlCalls(c, at)
  PROVE  /\ Proper(calls, {}) /\ After(calls)[c].place = at
         /\ \A d \in Cards : d # c => ~Wrote(calls, d, {"place"})
<1>0. object \in [Cards -> CardFields] /\ "place" \in Fields /\ "controller" \in Fields
  BY DEF IInv, TypeOK, Fields
<1>1. Sets(Relocate(c, at), c, "place", at) /\ ProperCall(Relocate(c, at))
  BY RelocateIs
<1>2. Sets(Claim(c, at), c, "controller", at.player) /\ ProperCall(Claim(c, at))
  BY ClaimIs
<1>3. Relocate(c, at) \in StorageCalls /\ Claim(c, at) \in StorageCalls
  BY <1>1, <1>2, Zenon DEF Sets
<1>4. /\ calls \in Seq(StorageCalls) /\ 1 \in 1..Len(calls) /\ 2 \in 1..Len(calls)
      /\ calls[1] = Relocate(c, at) /\ calls[2] = Claim(c, at)
      /\ \A i \in 1..Len(calls) : i = 1 \/ i = 2
  BY <1>3 DEF ControlCalls
<1>5. Sets(calls[1], c, "place", at) /\ Sets(calls[2], c, "controller", at.player)
  BY <1>1, <1>2, <1>4
<1>6. ASSUME NEW i \in 1..Len(calls), NEW d, NEW f, Writes(calls[i], d, f)
      PROVE  d = c /\ (f = "place" \/ f = "controller")
  BY <1>4, <1>5, <1>6 DEF Sets
<1>13. \A i \in 1..Len(calls) : \A d : \A f : Writes(calls[i], d, f) => d = c
  BY <1>6
<1>7. After(calls)[c]["place"] = at
  <2>1. Writes(calls[1], c, "place") /\ calls[1][c]["place"] = at
    BY <1>5 DEF Sets
  <2>2. \A j \in 1..Len(calls) : j > 1 => ~Writes(calls[j], c, "place")
    BY <1>4, <1>5 DEF Sets
  <2>3. After(calls)[c]["place"] = calls[1][c]["place"]
    BY <2>1, <2>2, <1>0, <1>4, AfterLast
  <2> QED
    BY <2>1, <2>3
<1>8. After(calls)[c]["controller"] = at.player
  <2>1. Writes(calls[2], c, "controller") /\ calls[2][c]["controller"] = at.player
    BY <1>5 DEF Sets
  <2>2. \A j \in 1..Len(calls) : j > 2 => ~Writes(calls[j], c, "controller")
    BY <1>4
  <2>3. After(calls)[c]["controller"] = calls[2][c]["controller"]
    BY <2>1, <2>2, <1>0, <1>4, AfterLast
  <2> QED
    BY <2>1, <2>3
<1>9. \A i \in 1..Len(calls) : ProperCall(calls[i])
  BY <1>1, <1>2, <1>4
<1>10. ASSUME NEW d \in Cards, NEW F, Wrote(calls, d, F) PROVE d = c
  BY <1>10, <1>13, WroteIs
<1>11. ASSUME NEW d \in Cards PROVE ~Wrote(calls, d, PositionFields)
  BY <1>6, WroteIs DEF PositionFields
<1>12. Proper(calls, {})
  BY <1>4, <1>7, <1>8, <1>9, <1>10, <1>11 DEF Proper, ControlAgrees
<1> QED
  BY <1>7, <1>10, <1>12

\* TAKE, GIVE and RETURN.
LEMMA ControlIInv ==
  ASSUME IInv, NEW c \in Cards, NEW at \in Locations, Control(c, at)
  PROVE  IInv'
<1> DEFINE calls == ControlCalls(c, at)
<1>1. /\ Proper(calls, {}) /\ After(calls)[c].place = at
      /\ \A d \in Cards : d # c => ~Wrote(calls, d, {"place"})
  BY ControlProper DEF Control
<1>2. \/ Complete(calls, {}) /\ seen' = [seen EXCEPT ![c] = at] /\ worn' = worn
      \/ Break(calls, {})
  BY DEF Control, Tell, ControlCalls
<1> HIDE DEF calls
<1>3. CASE Complete(calls, {}) /\ seen' = [seen EXCEPT ![c] = at] /\ worn' = worn
  <2>1. seen \in [Cards -> Locations \cup {Nowhere}]
    BY DEF IInv, TypeOK
  <2>2. seen' \in [Cards -> Locations \cup {Nowhere}] /\ seen'[c] = at /\ \A d \in Cards : d # c => seen'[d] = seen[d]
    BY <2>1, <1>3
  <2> QED
    BY <2>2, <1>1, <1>3, CompleteIInv
<1> QED
  BY <1>1, <1>2, <1>3, BreakIInv

\* The exchange of two cards that are there.
LEMMA ExchangeIs ==
  ASSUME IInv, NEW a \in Cards, NEW b \in Cards, a # b, Present(a), Present(b)
  PROVE  /\ Exchange(a, b) \in StorageCalls /\ ProperCall(Exchange(a, b))
         /\ \A d : \A f : Writes(Exchange(a, b), d, f) <=> d \in {a, b} /\ f = "place"
         /\ Exchange(a, b)[a]["place"] = object[b].place
         /\ Exchange(a, b)[b]["place"] = object[a].place
<1>1. object[a].place \in Locations /\ object[b].place \in Locations
  BY DEF IInv, TypeOK, CardFields, Present
<1> DEFINE call == Exchange(a, b)
<1>2. /\ DOMAIN call = {a, b}
      /\ call[a] = [place |-> object[b].place] /\ call[b] = [place |-> object[a].place]
      /\ call = [c \in {a, b} |-> call[c]]
  BY DEF Exchange
<1>3. [place |-> object[a].place] \in Writable /\ [place |-> object[b].place] \in Writable
  <2>1. ASSUME NEW at \in Locations PROVE [place |-> at] \in Writable
    <3>1. at \in Holds["place"] /\ "place" \in Fields
      BY DEF Holds, Fields
    <3>2. [place |-> at] \in [{"place"} -> Contents]
      BY <3>1 DEF Contents
    <3> QED
      BY <3>1, <3>2 DEF Writable
  <2> QED
    BY <2>1, <1>1
<1> HIDE DEF call
<1>4. call \in StorageCalls
  <2>1. call \in [{a, b} -> Writable] /\ {a, b} \in SUBSET Cards
    BY <1>2, <1>3
  <2> QED
    BY <2>1 DEF StorageCalls
<1>5. \A d : \A f : Writes(call, d, f) <=> d \in {a, b} /\ f = "place"
  <2>1. DOMAIN call[a] = {"place"} /\ DOMAIN call[b] = {"place"}
    BY <1>2
  <2> QED
    BY <2>1, <1>2 DEF Writes
<1>6. call[a]["place"] = object[b].place /\ call[b]["place"] = object[a].place
  BY <1>2
<1>7. ProperCall(call)
  BY <1>1, <1>5, <1>6 DEF ProperCall
<1> QED
  BY <1>4, <1>5, <1>6, <1>7 DEF call

\* Two current addresses: each card is claimed where the other was.
LEMMA SwapProper ==
  ASSUME IInv, NEW a \in Cards, NEW b \in Cards, a # b, Present(a), Present(b),
         NEW calls, calls = SwapCalls(a, b)
  PROVE  /\ Proper(calls, {})
         /\ After(calls)[a].place = object[b].place /\ After(calls)[b].place = object[a].place
         /\ \A d \in Cards : d \notin {a, b} => ~Wrote(calls, d, {"place"})
<1>0. object \in [Cards -> CardFields] /\ "place" \in Fields /\ "controller" \in Fields
  BY DEF IInv, TypeOK, Fields
<1>13. PICK pa \in Locations, pb \in Locations : pa = object[a].place /\ pb = object[b].place
  BY DEF IInv, TypeOK, CardFields, Present
<1> DEFINE ex == Exchange(a, b)
           ca == Claim(a, pb)
           cb == Claim(b, pa)
<1>1. /\ ex \in StorageCalls /\ ProperCall(ex)
      /\ \A d : \A f : Writes(ex, d, f) <=> d \in {a, b} /\ f = "place"
      /\ ex[a]["place"] = pb /\ ex[b]["place"] = pa
  BY <1>13, ExchangeIs
<1>2. /\ Sets(ca, a, "controller", pb.player) /\ ProperCall(ca)
      /\ Sets(cb, b, "controller", pa.player) /\ ProperCall(cb)
  BY ClaimIs
<1>3. ca \in StorageCalls /\ cb \in StorageCalls
  BY <1>2, Zenon DEF Sets
<1>14. calls = <<ex, ca, cb>>
  BY <1>13 DEF SwapCalls
<1> HIDE DEF ex, ca, cb
<1>4. /\ calls \in Seq(StorageCalls) /\ 1 \in 1..Len(calls) /\ 2 \in 1..Len(calls) /\ 3 \in 1..Len(calls)
      /\ calls[1] = ex /\ calls[2] = ca /\ calls[3] = cb
      /\ \A i \in 1..Len(calls) : i = 1 \/ i = 2 \/ i = 3
  BY <1>1, <1>3, <1>14
<1>5. /\ \A d : \A f : Writes(calls[1], d, f) <=> d \in {a, b} /\ f = "place"
      /\ \A d : \A f : Writes(calls[2], d, f) <=> d = a /\ f = "controller"
      /\ \A d : \A f : Writes(calls[3], d, f) <=> d = b /\ f = "controller"
      /\ calls[1][a]["place"] = pb /\ calls[1][b]["place"] = pa
      /\ calls[2][a]["controller"] = pb.player /\ calls[3][b]["controller"] = pa.player
  BY <1>1, <1>2, <1>4 DEF Sets
<1>6. ASSUME NEW i \in 1..Len(calls), NEW d, NEW f, Writes(calls[i], d, f)
      PROVE  d \in {a, b} /\ (f = "place" \/ f = "controller")
  BY <1>4, <1>5, <1>6
<1>7. After(calls)[a]["place"] = pb /\ After(calls)[b]["place"] = pa
  <2>1. \A c \in {a, b} : \A j \in 1..Len(calls) : j > 1 => ~Writes(calls[j], c, "place")
    BY <1>4, <1>5
  <2>2. Writes(calls[1], a, "place") /\ Writes(calls[1], b, "place")
    BY <1>5
  <2>3. After(calls)[a]["place"] = calls[1][a]["place"]
    BY <2>1, <2>2, <1>0, <1>4, AfterLast
  <2>4. After(calls)[b]["place"] = calls[1][b]["place"]
    BY <2>1, <2>2, <1>0, <1>4, AfterLast
  <2> QED
    BY <2>3, <2>4, <1>5
<1>8. After(calls)[a]["controller"] = pb.player
  <2>1. \A j \in 1..Len(calls) : j > 2 => ~Writes(calls[j], a, "controller")
    BY <1>4, <1>5
  <2>2. Writes(calls[2], a, "controller")
    BY <1>5
  <2>3. After(calls)[a]["controller"] = calls[2][a]["controller"]
    BY <2>1, <2>2, <1>0, <1>4, AfterLast
  <2> QED
    BY <2>3, <1>5
<1>9. After(calls)[b]["controller"] = pa.player
  <2>1. \A j \in 1..Len(calls) : j > 3 => ~Writes(calls[j], b, "controller")
    BY <1>4
  <2>2. Writes(calls[3], b, "controller")
    BY <1>5
  <2>3. After(calls)[b]["controller"] = calls[3][b]["controller"]
    BY <2>1, <2>2, <1>0, <1>4, AfterLast
  <2> QED
    BY <2>3, <1>5
<1>10. \A i \in 1..Len(calls) : ProperCall(calls[i])
  BY <1>1, <1>2, <1>4
<1>11. ASSUME NEW d \in Cards, NEW F, Wrote(calls, d, F) PROVE d \in {a, b}
  BY <1>6, <1>11, WroteIs
<1>12. ASSUME NEW d \in Cards PROVE ~Wrote(calls, d, PositionFields)
  BY <1>6, WroteIs DEF PositionFields
<1>15. ControlAgrees(After(calls)[a]) /\ ControlAgrees(After(calls)[b])
  BY <1>7, <1>8, <1>9 DEF ControlAgrees
<1>16. Proper(calls, {})
  BY <1>4, <1>10, <1>11, <1>12, <1>15 DEF Proper
<1> QED
  BY <1>7, <1>11, <1>13, <1>16

\* A SWAP that goes through.
LEMMA SwapIInv ==
  ASSUME IInv, NEW src \in Addresses, NEW dst \in Addresses, Swap(src, dst)
  PROVE  IInv'
<1>1. PICK a \in Cards, b \in Cards : a = src.card /\ b = dst.card
  BY CardOperationsAssumption DEF Addresses
<1>2. a # b /\ Present(a) /\ Present(b) /\ src.at = object[a].place /\ dst.at = object[b].place
  BY <1>1 DEF Swap, Current
<1> DEFINE calls == SwapCalls(a, b)
           events == Swapped(src, dst)
<1>3. /\ Proper(calls, {})
      /\ After(calls)[a].place = object[b].place /\ After(calls)[b].place = object[a].place
      /\ \A d \in Cards : d \notin {a, b} => ~Wrote(calls, d, {"place"})
  BY <1>2, SwapProper
<1>4. calls = << Exchange(src.card, dst.card), Claim(src.card, dst.at), Claim(dst.card, src.at) >>
  BY <1>1, <1>2 DEF SwapCalls
<1>5. DOMAIN events = {a, b} /\ events[a] = object[b].place /\ events[b] = object[a].place
  BY <1>1, <1>2 DEF Swapped
<1>6. \/ /\ Complete(calls, {}) /\ worn' = worn
         /\ seen' = [d \in Cards |-> IF d \in DOMAIN events THEN events[d] ELSE seen[d]]
      \/ Break(calls, {})
  BY <1>4, Zenon DEF Swap
<1> HIDE DEF calls, events
<1>7. CASE /\ Complete(calls, {}) /\ worn' = worn
           /\ seen' = [d \in Cards |-> IF d \in DOMAIN events THEN events[d] ELSE seen[d]]
  <2>1. seen \in [Cards -> Locations \cup {Nowhere}]
    BY DEF IInv, TypeOK
  <2>2. object[a].place \in Locations /\ object[b].place \in Locations
    BY <1>2 DEF IInv, TypeOK, CardFields, Present
  <2>3. /\ seen' \in [Cards -> Locations \cup {Nowhere}]
        /\ seen'[a] = object[b].place /\ seen'[b] = object[a].place
        /\ \A d \in Cards : d \notin {a, b} => seen'[d] = seen[d]
    BY <2>1, <2>2, <1>5, <1>7
  <2>4. ASSUME NEW d \in Cards
        PROVE  seen'[d] = After(calls)[d].place \/ (~Wrote(calls, d, {"place"}) /\ seen'[d] = seen[d])
    BY <2>3, <1>3
  <2> QED
    BY <2>3, <2>4, <1>3, <1>7, CompleteIInv
<1> QED
  BY <1>3, <1>6, <1>7, BreakIInv

-----------------------------------------------------------------------------
(* Instructions that leave the control of what they place torn.            *)

\* One call that places cards which are there, and nothing else.
Places(call, moved) ==
  /\ call \in StorageCalls
  /\ \A d : \A f : Writes(call, d, f) <=> d \in moved /\ f = "place"
  /\ \A c \in moved : call[c]["place"] \in Locations

\* Such a step keeps the invariant if the control of the cards is torn.
LEMMA PlacesIInv ==
  ASSUME IInv, NEW moved \in SUBSET Cards, \A c \in moved : Present(c),
         NEW call, Places(call, moved), object' = Overwrite(object, call),
         failures' \in 0..MaxFailures, torn' \subseteq Cards \X Parts,
         seen' \in [Cards -> Locations \cup {Nowhere}], worn' = worn,
         \A c \in moved : <<c, "control">> \in torn',
         \A c \in Cards : <<c, "position">> \in torn' <=> <<c, "position">> \in torn,
         \A c \in Cards \ moved :
           /\ <<c, "control">> \in torn' <=> <<c, "control">> \in torn
           /\ <<c, "event">> \in torn' <=> <<c, "event">> \in torn
           /\ seen'[c] = seen[c],
         \A c \in moved : <<c, "event">> \in torn' \/ seen'[c] = call[c]["place"]
  PROVE  IInv'
<1>1. object \in [Cards -> CardFields] /\ call \in StorageCalls
  BY DEF IInv, TypeOK, Places
<1>2. /\ object' \in [Cards -> CardFields]
      /\ \A c \in Cards, f \in Fields :
           object'[c][f] = IF Writes(call, c, f) THEN call[c][f] ELSE object[c][f]
  BY <1>1, OverwriteIs
<1>3. /\ "place" \in Fields /\ "controller" \in Fields /\ "position" \in Fields /\ "face_up" \in Fields
      /\ "defense_position" \in Fields /\ "equip_target" \in Fields
  BY DEF Fields
<1>4. ASSUME NEW c \in Cards
      PROVE  /\ object'[c].equip_target = object[c].equip_target
             /\ object'[c].position = object[c].position /\ object'[c].face_up = object[c].face_up
             /\ object'[c].defense_position = object[c].defense_position
             /\ object'[c].controller = object[c].controller
  <2>1. \A f : f # "place" => ~Writes(call, c, f)
    BY DEF Places
  <2>2. \A f \in Fields : f # "place" => object'[c][f] = object[c][f]
    BY <2>1, <1>2
  <2> QED
    BY <2>2, <1>3
<1>5. ASSUME NEW c \in moved
      PROVE  object'[c].place = call[c]["place"] /\ object'[c].place \in Locations
  <2>1. Writes(call, c, "place") /\ call[c]["place"] \in Locations /\ c \in Cards
    BY DEF Places
  <2>2. object'[c]["place"] = call[c]["place"]
    BY <2>1, <1>2, <1>3
  <2> QED
    BY <2>1, <2>2
<1>6. ASSUME NEW c \in Cards \ moved PROVE object'[c].place = object[c].place
  <2>1. ~Writes(call, c, "place")
    BY DEF Places
  <2>2. object'[c]["place"] = object[c]["place"]
    BY <2>1, <1>2, <1>3
  <2> QED
    BY <2>2
<1>7. ASSUME NEW c \in Cards, object'[c].place # Nowhere, <<c, "control">> \notin torn'
      PROVE  ControlAgrees(object'[c])
  <2>1. c \in Cards \ moved /\ <<c, "control">> \notin torn
    BY <1>7
  <2>2. object'[c].place = object[c].place /\ Present(c)
    BY <2>1, <1>6, <1>7 DEF Present
  <2> QED
    BY <2>1, <2>2, <1>4, Agreed DEF ControlAgrees
<1>8. ASSUME NEW c \in Cards, object'[c].place # Nowhere, <<c, "position">> \notin torn'
      PROVE  PositionAgrees(object'[c])
  <2>1. Present(c)
    BY <1>6, <1>8 DEF Present
  <2>2. <<c, "position">> \notin torn
    BY <1>8
  <2>3. PositionAgrees(object[c])
    BY <2>1, <2>2, Agreed
  <2> QED
    BY <2>3, <1>4 DEF PositionAgrees
<1>9. ASSUME NEW c \in Cards, <<c, "event">> \notin torn' PROVE seen'[c] = object'[c].place
  <2>1. CASE c \in moved
    BY <2>1, <1>5, <1>9
  <2>2. CASE c \notin moved
    BY <2>2, <1>6, <1>9, Agreed
  <2> QED
    BY <2>1, <2>2
<1>10. \A c \in Cards : object'[c].place = object[c].place \/ object'[c].place \in Locations
  BY <1>5, <1>6
<1> QED
  BY <1>2, <1>4, <1>7, <1>8, <1>9, <1>10, Kept

\* A SWAP that is refused after the exchange.
LEMMA SwapRefusedIInv ==
  ASSUME IInv, NEW src \in Addresses, NEW dst \in Addresses, SwapRefused(src, dst)
  PROVE  IInv'
<1>1. PICK a \in Cards, b \in Cards : a = src.card /\ b = dst.card
  BY CardOperationsAssumption DEF Addresses
<1> DEFINE call == Exchange(a, b)
<1>2. /\ a # b /\ Present(a) /\ Present(b)
      /\ failures < MaxFailures /\ failures' = failures + 1
      /\ object' = Overwrite(object, call)
      /\ torn' = torn \cup ({a, b} \X {"control", "event"})
      /\ seen' = seen /\ worn' = worn
  BY <1>1 DEF SwapRefused, told
<1>3. /\ call \in StorageCalls
      /\ \A d : \A f : Writes(call, d, f) <=> d \in {a, b} /\ f = "place"
      /\ call[a]["place"] = object[b].place /\ call[b]["place"] = object[a].place
  BY <1>2, ExchangeIs
<1> HIDE DEF call
<1>4. object[a].place \in Locations /\ object[b].place \in Locations
  BY <1>2 DEF IInv, TypeOK, CardFields, Present
<1>5. Places(call, {a, b})
  BY <1>3, <1>4 DEF Places
<1>6. /\ failures \in 0..MaxFailures /\ torn \subseteq Cards \X Parts
      /\ seen \in [Cards -> Locations \cup {Nowhere}]
  BY DEF IInv, TypeOK
<1>7. failures' \in 0..MaxFailures
  BY <1>2, <1>6, CardOperationsAssumption
<1>8. torn' \subseteq Cards \X Parts
  BY <1>2, <1>6 DEF Parts
<1>9. /\ \A c \in {a, b} : <<c, "control">> \in torn' /\ <<c, "event">> \in torn'
      /\ \A c \in Cards : <<c, "position">> \in torn' <=> <<c, "position">> \in torn
      /\ \A c \in Cards \ {a, b} :
           /\ <<c, "control">> \in torn' <=> <<c, "control">> \in torn
           /\ <<c, "event">> \in torn' <=> <<c, "event">> \in torn
  BY <1>2
<1>10. {a, b} \in SUBSET Cards /\ \A c \in {a, b} : Present(c)
  BY <1>2
<1> QED
  BY <1>2, <1>5, <1>6, <1>7, <1>8, <1>9, <1>10, PlacesIInv

\* MOVE.
LEMMA MoveIInv ==
  ASSUME IInv, NEW moved \in SUBSET Operated, NEW at \in Locations, Move(moved, at)
  PROVE  IInv'
<1> DEFINE call == [c \in moved |-> [place |-> at]]
<1>1. /\ moved \in SUBSET Cards /\ \A c \in moved : Present(c)
      /\ object' = Overwrite(object, call)
      /\ torn' = (torn \cup (moved \X {"control"})) \ (moved \X {"event"})
      /\ seen' = [c \in Cards |-> IF c \in moved THEN at ELSE seen[c]]
      /\ failures' = failures /\ worn' = worn
  BY CardOperationsAssumption DEF Move
<1>2. Places(call, moved)
  <2>1. [place |-> at] \in Writable
    <3>1. at \in Holds["place"] /\ "place" \in Fields
      BY DEF Holds, Fields
    <3>2. [place |-> at] \in [{"place"} -> Contents]
      BY <3>1 DEF Contents
    <3> QED
      BY <3>1, <3>2 DEF Writable
  <2>2. call \in [moved -> Writable]
    BY <2>1
  <2> QED
    BY <2>2, <1>1 DEF Places, StorageCalls, Writes
<1>3. \A c \in moved : call[c]["place"] = at
  OBVIOUS
<1> HIDE DEF call
<1>4. /\ failures \in 0..MaxFailures /\ torn \subseteq Cards \X Parts
      /\ seen \in [Cards -> Locations \cup {Nowhere}]
  BY DEF IInv, TypeOK
<1>5. torn' \subseteq Cards \X Parts
  BY <1>1, <1>4 DEF Parts
<1>6. /\ \A c \in moved : <<c, "control">> \in torn'
      /\ \A c \in Cards : <<c, "position">> \in torn' <=> <<c, "position">> \in torn
      /\ \A c \in Cards \ moved :
           /\ <<c, "control">> \in torn' <=> <<c, "control">> \in torn
           /\ <<c, "event">> \in torn' <=> <<c, "event">> \in torn
  BY <1>1
<1>7. /\ seen' \in [Cards -> Locations \cup {Nowhere}]
      /\ \A c \in Cards : seen'[c] = IF c \in moved THEN at ELSE seen[c]
  BY <1>1, <1>4
<1>8. /\ \A c \in moved : seen'[c] = call[c]["place"]
      /\ \A c \in Cards \ moved : seen'[c] = seen[c]
  BY <1>1, <1>3, <1>7
<1> QED
  BY <1>1, <1>2, <1>4, <1>5, <1>6, <1>7, <1>8, PlacesIInv

-----------------------------------------------------------------------------
(* EQUIP.                                                                  *)

\* Its one call.
EquipCalls(c, target) == << One(c, [equip_target |-> target]) >>

\* It writes what the card is attached to and nothing else.
LEMMA EquipCallsAre ==
  ASSUME IInv, NEW c \in Cards, NEW target \in Cards \cup {none},
         NEW calls, calls = EquipCalls(c, target)
  PROVE  /\ After(calls) \in [Cards -> CardFields]
         /\ \A d \in Cards : \A f \in Fields :
              After(calls)[d][f] = IF d = c /\ f = "equip_target" THEN target ELSE object[d][f]
         /\ \A d \in Cards : \A F : Wrote(calls, d, F) => "equip_target" \in F
<1> DEFINE call == One(c, [equip_target |-> target])
<1>0. object \in [Cards -> CardFields]
  BY DEF IInv, TypeOK
<1>1. Sets(call, c, "equip_target", target)
  BY FieldCalls, Zenon
<1>2. calls = <<call>>
  BY DEF EquipCalls
<1> HIDE DEF call
<1>3. call \in StorageCalls
  BY <1>1 DEF Sets
<1>4. /\ calls \in Seq(StorageCalls) /\ 1 \in 1..Len(calls) /\ calls[1] = call
      /\ \A i \in 1..Len(calls) : i = 1
  BY <1>2, <1>3
<1>5. Sets(calls[1], c, "equip_target", target)
  BY <1>1, <1>4
<1>6. ASSUME NEW d \in Cards, NEW f \in Fields
      PROVE  After(calls)[d][f] = IF d = c /\ f = "equip_target" THEN target ELSE object[d][f]
  <2>1. CASE d = c /\ f = "equip_target"
    <3>1. Writes(calls[1], d, f) /\ calls[1][d][f] = target
      BY <2>1, <1>5 DEF Sets
    <3>2. \A j \in 1..Len(calls) : j > 1 => ~Writes(calls[j], d, f)
      BY <1>4
    <3>3. After(calls)[d][f] = calls[1][d][f]
      BY <3>1, <3>2, <1>0, <1>4, AfterLast
    <3> QED
      BY <2>1, <3>1, <3>3
  <2>2. CASE ~(d = c /\ f = "equip_target")
    <3>1. \A j \in 1..Len(calls) : ~Writes(calls[j], d, f)
      BY <2>2, <1>4, <1>5 DEF Sets
    <3>2. After(calls)[d][f] = object[d][f]
      BY <3>1, <1>0, <1>4, AfterUnwritten
    <3> QED
      BY <2>2, <3>2
  <2> QED
    BY <2>1, <2>2
<1>7. ASSUME NEW d \in Cards, NEW F, Wrote(calls, d, F) PROVE "equip_target" \in F
  <2>1. \A i \in 1..Len(calls) : \A f : Writes(calls[i], d, f) => f = "equip_target"
    BY <1>4, <1>5 DEF Sets
  <2> QED
    BY <2>1, <1>7, WroteIs
<1>8. After(calls) \in [Cards -> CardFields]
  BY <1>0, <1>4, AfterTyped
<1> QED
  BY <1>6, <1>7, <1>8

\* EQUIP.
LEMMA EquipIInv ==
  ASSUME IInv, NEW method \in {"ATTACH", "TRANSFER", "DETACH"},
         NEW target \in Cards, NEW equipment \in Cards, Equip(method, target, equipment)
  PROVE  IInv'
<1>1. PICK new \in Cards \cup {none} : new = IF method = "DETACH" THEN none ELSE target
  OBVIOUS
<1> DEFINE calls == EquipCalls(equipment, new)
           old == object[equipment].equip_target
<1>2. /\ Present(equipment) /\ Complete(calls, {}) /\ seen' = seen
      /\ worn' = (worn \ IF old # none THEN {<<equipment, old>>} ELSE {})
                   \cup IF method = "DETACH" THEN {} ELSE {<<equipment, target>>}
  BY <1>1 DEF Equip, EquipCalls, Unequips
<1>3. /\ After(calls) \in [Cards -> CardFields]
      /\ \A d \in Cards : \A f \in Fields :
           After(calls)[d][f] = IF d = equipment /\ f = "equip_target" THEN new ELSE object[d][f]
      /\ \A d \in Cards : \A F : Wrote(calls, d, F) => "equip_target" \in F
  BY EquipCallsAre
<1> HIDE DEF calls
<1>4. torn' = torn
  <2>1. "equip_target" \notin ControlFields /\ "equip_target" \notin PositionFields /\ "equip_target" \notin {"place"}
    BY DEF ControlFields, PositionFields
  <2>2. \A d \in Cards : /\ ~Wrote(calls, d, ControlFields) /\ ~Wrote(calls, d, PositionFields)
                         /\ ~Wrote(calls, d, {"place"})
    BY <2>1, <1>3
  <2>3. Touched(calls) = {} /\ Relocated(calls) = {}
    BY <2>2 DEF Touched, Relocated, ControlFields, PositionFields
  <2> QED
    BY <2>3, <1>2 DEF Complete
<1>5. object' = After(calls) /\ failures' = failures
  BY <1>2 DEF Complete
<1>6. ASSUME NEW d \in Cards
      PROVE  /\ object'[d].place = object[d].place /\ object'[d].controller = object[d].controller
             /\ object'[d].position = object[d].position /\ object'[d].face_up = object[d].face_up
             /\ object'[d].defense_position = object[d].defense_position
             /\ object'[d].equip_target = IF d = equipment THEN new ELSE object[d].equip_target
  <2>1. \A f \in Fields :
          object'[d][f] = IF d = equipment /\ f = "equip_target" THEN new ELSE object[d][f]
    BY <1>3, <1>5
  <2> QED
    BY <2>1 DEF Fields
<1>7. worn \subseteq Cards \X Cards
      /\ \A d \in Cards, t \in Cards : <<d, t>> \in worn <=> object[d].equip_target = t
  BY DEF IInv, TypeOK, EventsEquip
<1>8. worn' \subseteq Cards \X Cards
  BY <1>2, <1>7
<1>9. EventsEquip'
  <2>1. none \notin Cards
    BY CardOperationsAssumption
  <2>2. ASSUME NEW d \in Cards, NEW t \in Cards, d # equipment
        PROVE  <<d, t>> \in worn' <=> object'[d].equip_target = t
    <3>1. <<d, t>> \in worn' <=> <<d, t>> \in worn
      BY <2>2, <1>2
    <3> QED
      BY <2>2, <3>1, <1>6, <1>7
  <2>3. ASSUME NEW t \in Cards
        PROVE  <<equipment, t>> \in worn' <=> object'[equipment].equip_target = t
    <3>1. <<equipment, t>> \notin worn \ IF old # none THEN {<<equipment, old>>} ELSE {}
      BY <2>1, <1>7
    <3>2. <<equipment, t>> \in worn' <=> method # "DETACH" /\ t = target
      BY <3>1, <1>2
    <3> QED
      BY <3>2, <2>1, <1>1, <1>6
  <2>4. \A pair \in Cards \X Cards : pair \in worn' <=> object'[pair[1]].equip_target = pair[2]
    BY <2>2, <2>3
  <2> QED
    BY <2>4, <1>8 DEF EventsEquip
<1>10. TypeOK'
  <2>1. \A d \in Cards \ Tokens : object'[d].place \in Locations
    BY <1>6 DEF IInv, TypeOK
  <2> QED
    BY <2>1, <1>2, <1>3, <1>4, <1>5, <1>8 DEF IInv, TypeOK
<1>11. FieldsAgree'
  BY <1>4, <1>6 DEF IInv, FieldsAgree, Present
<1>12. EventsLocate'
  BY <1>2, <1>4, <1>6 DEF IInv, EventsLocate
<1>13. Unattached'
  BY <1>2, <1>6 DEF IInv, Unattached, Present
<1> QED
  BY <1>9, <1>10, <1>11, <1>12, <1>13 DEF IInv

-----------------------------------------------------------------------------
(* The specification.                                                      *)

\* The cards as the host places them.
LEMMA InitIInv ==
  ASSUME Init
  PROVE  IInv
<1>1. PICK place \in [Cards \ Tokens -> Locations] :
        object = [c \in Cards |-> IF c \in Tokens THEN Prototype ELSE Placed(place[c])]
  BY DEF Init
<1>2. /\ failures = 0 /\ torn = {} /\ seen = [c \in Cards |-> object[c].place] /\ worn = {}
  BY DEF Init
<1>3. /\ Prototype \in CardFields /\ Prototype.place = Nowhere /\ Prototype.equip_target = none
      /\ none \notin Cards /\ MaxFailures \in Nat
  BY CardOperationsAssumption
<1>4. ASSUME NEW c \in Cards, c \notin Tokens
      PROVE  /\ object[c] \in CardFields /\ object[c].place \in Locations
             /\ ControlAgrees(object[c]) /\ PositionAgrees(object[c]) /\ object[c].equip_target = none
  <2>1. PICK at \in Locations : at = place[c]
    BY <1>4
  <2>2. object[c] = Placed(at)
    BY <1>1, <1>4, <2>1
  <2>3. at.player \in Players /\ {"up"} \in Canonical
    BY DEF Locations, Canonical
  <2>4. Placed(at) \in CardFields
    BY <2>3 DEF Placed, CardFields
  <2> QED
    BY <2>2, <2>4 DEF Placed, ControlAgrees, PositionAgrees
<1>5. ASSUME NEW c \in Cards, c \in Tokens
      PROVE  /\ object[c] \in CardFields /\ object[c].place = Nowhere /\ object[c].equip_target = none
  BY <1>1, <1>3, <1>5
<1>6. ASSUME NEW c \in Cards
      PROVE  object[c] \in CardFields /\ object[c].equip_target = none
  BY <1>4, <1>5
<1>7. object \in [Cards -> CardFields]
  BY <1>1, <1>6
<1>8. seen \in [Cards -> Locations \cup {Nowhere}]
  BY <1>2, <1>4, <1>5
<1>9. TypeOK
  BY <1>2, <1>3, <1>4, <1>7, <1>8 DEF TypeOK
<1>10. FieldsAgree
  BY <1>4, <1>5 DEF FieldsAgree, Present, ControlAgrees, PositionAgrees
<1>11. EventsLocate
  BY <1>2 DEF EventsLocate
<1>12. EventsEquip
  BY <1>2, <1>3, <1>6 DEF EventsEquip
<1>13. Unattached
  BY <1>6 DEF Unattached
<1> QED
  BY <1>9, <1>10, <1>11, <1>12, <1>13 DEF IInv

\* Every step keeps the invariant.
LEMMA NextIInv ==
  ASSUME IInv, [Next]_vars
  PROVE  IInv'
<1>1. Operated \subseteq Cards /\ Equipment \subseteq Cards /\ Tokens \subseteq Cards
  BY CardOperationsAssumption
<1>2. ASSUME NEW c \in Operated, NEW operation \in Changes, Position(c, operation) PROVE IInv'
  BY <1>1, <1>2, PositionIInv
<1>3. ASSUME NEW c \in Operated, NEW at \in Locations, NEW operation \in Changes \cap FullPositions,
             SummonCard(c, at, operation)
      PROVE  IInv'
  BY <1>1, <1>3, SummonCardIInv
<1>4. ASSUME NEW c \in Operated, NEW at \in Locations, NEW operation \in Changes \cap FullPositions,
             SummonToken(c, at, operation)
      PROVE  IInv'
  BY <1>1, <1>4, SummonTokenIInv
<1>5. ASSUME NEW c \in Operated, NEW at \in Locations, Control(c, at) \/ Return(c, at) PROVE IInv'
  <2>1. Control(c, at)
    BY <1>5 DEF Return
  <2> QED
    BY <2>1, <1>1, ControlIInv
<1>6. ASSUME NEW a \in Addresses, SummonFlip(a) PROVE IInv'
  BY <1>6, SummonFlipIInv
<1>7. ASSUME NEW a \in Addresses, NEW b \in Addresses, Swap(a, b) PROVE IInv'
  BY <1>7, SwapIInv
<1>8. ASSUME NEW a \in Addresses, NEW b \in Addresses, SwapRefused(a, b) PROVE IInv'
  BY <1>8, SwapRefusedIInv
<1>9. ASSUME NEW method \in {"ATTACH", "TRANSFER", "DETACH"}, NEW target \in Cards,
             NEW equipment \in Equipment, Equip(method, target, equipment)
      PROVE  IInv'
  BY <1>1, <1>9, EquipIInv
<1>10. ASSUME NEW moved \in SUBSET Operated, NEW at \in Locations, Move(moved, at) PROVE IInv'
  BY <1>10, MoveIInv
<1>11. ASSUME vars' = vars PROVE IInv'
  BY <1>11 DEF vars, IInv, TypeOK, FieldsAgree, EventsLocate, EventsEquip, Unattached, Present
<1> QED
  BY <1>2, <1>3, <1>4, <1>5, <1>6, <1>7, <1>8, <1>9, <1>10, <1>11 DEF Next

\* The invariant holds of every run, whatever the instructions and their addresses.
THEOREM Invariance == Spec => []IInv
<1>1. Init => IInv
  BY InitIInv
<1>2. IInv /\ [Next]_vars => IInv'
  BY NextIInv
<1> QED
  BY <1>1, <1>2, PTL DEF Spec

\* The types are as declared, and no instruction loses a card.
THEOREM TypeCorrect == Spec => []TypeOK
<1>1. IInv => TypeOK
  BY DEF IInv
<1> QED
  BY <1>1, Invariance, PTL

\* Location and controller, position and flags agree unless an instruction left them torn.
THEOREM FieldsStayInAgreement == Spec => []FieldsAgree
<1>1. IInv => FieldsAgree
  BY DEF IInv
<1> QED
  BY <1>1, Invariance, PTL

\* The events tell where every card is, except one that an instruction failed to announce.
THEOREM EventsTellLocations == Spec => []EventsLocate
<1>1. IInv => EventsLocate
  BY DEF IInv
<1> QED
  BY <1>1, Invariance, PTL

\* The events tell what is attached to what.
THEOREM EventsTellEquipment == Spec => []EventsEquip
<1>1. IInv => EventsEquip
  BY DEF IInv
<1> QED
  BY <1>1, Invariance, PTL
=============================================================================

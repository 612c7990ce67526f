---------------------------- MODULE ChainProofs ----------------------------
(***************************************************************************)
(* Chain, for every number of drivers and links, every set of bodies and   *)
(* every budget: the inductive invariant, and from it the safety           *)
(* properties the runs check.                                              *)
(***************************************************************************)
EXTENDS Chain, SequenceTheorems, FiniteSetTheorems, TLAPS

\* The stack has unresolved links only, but for the top one while it resolves.
Shape ==
  /\ links # << >> => active
  /\ resolving => active
  /\ running # {} => UnresolvedTop
  /\ \A k \in 1..Depth : links[k].resolved => k = Depth /\ resolving

\* The stack is in the order of the pushes.
InOrder ==
  /\ \A k \in 1..Depth : links[k].id <= pushes
  /\ \A j, k \in 1..Depth : j < k => links[j].id < links[k].id

\* Only what was pushed is reported.
ReportsArePushed ==
  \A i \in 1..Len(reports) : reports[i].id <= pushes

\* Whatever is not unresolved on the stack has been reported, once.
Accounted ==
  \A id \in 1..pushes :
    /\ id \in Unresolved => ReportsOf(id) = {}
    /\ id \notin Unresolved => \E i \in 1..Len(reports) : ReportsOf(id) = {i}

IInv ==
  /\ TypeOK
  /\ Shape
  /\ InOrder
  /\ ReportsArePushed
  /\ Accounted
  /\ NegatedFirstNeverRuns

-----------------------------------------------------------------------------
(* What the instructions do to the links.                                  *)

\* l is the stack after the writes of an instruction that neither pushes, pops
\* nor completes a link: ids and resolutions are left alone, and no body begins
\* that was negated first.
Writes(l) ==
  /\ l \in Seq(ChainLink)
  /\ Len(l) = Depth
  /\ \A k \in 1..Depth :
       /\ l[k].id = links[k].id
       /\ l[k].resolved = links[k].resolved
       /\ l[k].resolved => l[k].negated = links[k].negated
       /\ l[k].negated /\ ~l[k].late => ~l[k].began

\* An instruction does no more to the stack than that, or completes the top link.
Quiet == Writes(links') /\ UNCHANGED <<active, resolving>>
Settles == UnresolvedTop /\ \E f \in Drivers : Finish(f)

\* A link is a record of its fields.
LEMMA LinkFields ==
  ASSUME TypeOK, NEW k \in 1..Depth
  PROVE  /\ links[k] \in ChainLink
         /\ links[k].id \in 1..MaxPushes
         /\ links[k].pc \in Nat \ {0}
         /\ links[k].resolved \in BOOLEAN
         /\ links[k].negated \in BOOLEAN
         /\ links[k].began \in BOOLEAN
         /\ links[k].late \in BOOLEAN
<1>1. links[k] \in ChainLink
  BY DEF TypeOK, Depth
<1> QED
  BY <1>1 DEF ChainLink

\* So is a report.
LEMMA ReportFields ==
  ASSUME TypeOK, NEW i \in 1..Len(reports)
  PROVE  reports[i].id \in 1..MaxPushes
<1>1. reports \in Seq([id: 1..MaxPushes, context: {0, 1}, began: BOOLEAN])
  BY DEF TypeOK
<1>2. reports[i] \in [id: 1..MaxPushes, context: {0, 1}, began: BOOLEAN]
  BY <1>1, ElementOfSeq
<1> QED
  BY <1>2

\* The links a NEGATE marks were unresolved, and it notes which had begun.
LEMMA MarkedWrites ==
  ASSUME IInv, NEW s \in Subjects
  PROVE  Writes(Marked(s))
<1> DEFINE l == Marked(s)
<1>1. DOMAIN links = 1..Depth /\ Depth \in Nat
  BY DEF IInv, TypeOK, Depth
<1>2. ASSUME NEW k \in 1..Depth
      PROVE  /\ l[k] \in ChainLink
             /\ l[k].id = links[k].id
             /\ l[k].resolved = links[k].resolved
             /\ l[k].resolved => l[k].negated = links[k].negated
             /\ l[k].negated /\ ~l[k].late => ~l[k].began
  <2>1. TypeOK /\ (links[k].negated /\ ~links[k].late => ~links[k].began)
    BY DEF IInv, NegatedFirstNeverRuns
  <2>2. CASE k \in Match(s)
    <3>1. l[k] = [links[k] EXCEPT !.negated = TRUE,
                    !.late = IF links[k].negated THEN @ ELSE links[k].began]
      BY <1>1, <2>2 DEF Marked
    <3>2. ~links[k].resolved
      BY <2>2 DEF Match, Negatable
    <3> QED
      BY <2>1, <3>1, <3>2, LinkFields DEF ChainLink
  <2>3. CASE k \notin Match(s)
    <3>1. l[k] = links[k]
      BY <1>1, <2>3 DEF Marked
    <3> QED
      BY <2>1, <3>1, LinkFields
  <2> QED
    BY <2>2, <2>3
<1>3. l \in [1..Depth -> ChainLink]
  BY <1>1, <1>2 DEF Marked
<1> QED
  BY <1>1, <1>2, <1>3 DEF Writes

\* Leaving the links alone is a write.
LEMMA NothingWrites ==
  ASSUME IInv
  PROVE  Writes(links)
BY LinkFields DEF IInv, TypeOK, Depth, Writes, NegatedFirstNeverRuns

-----------------------------------------------------------------------------
(* The invariant is inductive.                                             *)

\* An instruction that neither pushes, pops nor completes a link.
LEMMA WritesIInv ==
  ASSUME IInv, Writes(links'),
         UNCHANGED <<active, resolving, pushes, reports>>,
         passes' \in 0..MaxPasses,
         running' \in {{}} \cup {{f} : f \in Drivers},
         running' # {} => UnresolvedTop,
         left' \in Nat,
         status' \in [Drivers -> {"free", "suspended", "faulted"}],
         decision' \in [Drivers -> OptionalDecision],
         answer' \in [Drivers -> OptionalDecision]
  PROVE  IInv' /\ Quiet
<1>1. /\ Depth' = Depth
      /\ Depth \in Nat
      /\ \A k \in 1..Depth : links'[k].id = links[k].id
      /\ \A k \in 1..Depth : links'[k].resolved = links[k].resolved
  BY DEF Writes, Depth, IInv, TypeOK
<1>2. TypeOK'
  BY DEF IInv, TypeOK, Writes
<1>3. Unresolved' = Unresolved
  BY <1>1 DEF Unresolved
<1>4. \A id : ReportsOf(id)' = ReportsOf(id)
  BY DEF ReportsOf
<1>5. (links' = << >>) <=> (links = << >>)
  BY <1>1, <1>2 DEF Depth, IInv, TypeOK
<1>6. UnresolvedTop => UnresolvedTop'
  <2>1. SUFFICES ASSUME UnresolvedTop PROVE UnresolvedTop'
    OBVIOUS
  <2>2. Depth \in 1..Depth
    BY <2>1, <1>1 DEF UnresolvedTop, Depth, IInv, TypeOK
  <2>3. Top'.resolved = Top.resolved
    BY <1>1, <2>2 DEF Top
  <2> QED
    BY <1>5, <2>1, <2>3 DEF UnresolvedTop
<1>7. Shape'
  BY <1>1, <1>5, <1>6 DEF IInv, Shape
<1>8. InOrder'
  BY <1>1 DEF IInv, InOrder
<1>9. ReportsArePushed' /\ Accounted'
  BY <1>3, <1>4 DEF IInv, ReportsArePushed, Accounted
<1>10. NegatedFirstNeverRuns'
  BY <1>1 DEF Writes, NegatedFirstNeverRuns
<1> QED
  BY <1>2, <1>7, <1>8, <1>9, <1>10 DEF IInv, Quiet

\* The stack and the frames at the start.
LEMMA InitIInv == Init => IInv
<1> SUFFICES ASSUME Init PROVE IInv
  OBVIOUS
<1>1. Depth = 0 /\ Len(reports) = 0
  BY DEF Init, Depth
<1>2. TypeOK
  <2>1. /\ << >> \in Seq(ChainLink)
        /\ << >> \in Seq([id: 1..MaxPushes, context: {0, 1}, began: BOOLEAN])
    OBVIOUS
  <2>2. 0 \in 0..MaxPasses /\ 0 \in 0..MaxPushes /\ 0 \in Nat
    BY ChainAssumption
  <2>3. NoDecision \in OptionalDecision
    BY DEF OptionalDecision
  <2>4. /\ status \in [Drivers -> {"free", "suspended", "faulted"}]
        /\ decision \in [Drivers -> OptionalDecision]
        /\ answer \in [Drivers -> OptionalDecision]
    BY <2>3 DEF Init
  <2> QED
    BY <2>1, <2>2, <2>4 DEF Init, TypeOK
<1>3. Shape /\ InOrder /\ ReportsArePushed /\ NegatedFirstNeverRuns
  BY <1>1 DEF Init, Shape, InOrder, ReportsArePushed, NegatedFirstNeverRuns
<1>4. Accounted
  BY DEF Init, Accounted
<1> QED
  BY <1>2, <1>3, <1>4 DEF IInv

\* BEGIN, PASS, BEGIN_RESOLVE, END_RESOLVE and END: the flags of the chain.
LEMMA FlagsIInv ==
  ASSUME IInv, NEW f \in Drivers,
         Begin(f) \/ Pass(f) \/ BeginResolve(f) \/ EndResolve(f) \/ End(f)
  PROVE  IInv'
<1>1. links' = links
  BY DEF IInv, Shape, Begin, Pass, BeginResolve, EndResolve, End
<1>2. /\ running = {}
      /\ UNCHANGED <<running, left, frames, pushes, reports>>
  BY DEF CanIssue, Begin, Pass, BeginResolve, EndResolve, End
<1>3. TypeOK'
  <2>1. active' \in BOOLEAN /\ resolving' \in BOOLEAN
    BY DEF IInv, TypeOK, Begin, Pass, BeginResolve, EndResolve, End
  <2>2. passes' \in 0..MaxPasses
    BY ChainAssumption DEF IInv, TypeOK, Begin, Pass, BeginResolve, EndResolve, End, PassLeft
  <2> QED
    BY <1>1, <1>2, <2>1, <2>2 DEF IInv, TypeOK, frames
<1>4. Shape'
  BY <1>1, <1>2 DEF IInv, Shape, TypeOK, Depth, Begin, Pass, BeginResolve, EndResolve, End,
     UnresolvedTop, Top
<1>5. Unresolved' = Unresolved /\ \A id : ReportsOf(id)' = ReportsOf(id)
  BY <1>1, <1>2 DEF Unresolved, Depth, ReportsOf
<1>6. InOrder' /\ ReportsArePushed' /\ NegatedFirstNeverRuns'
  BY <1>1, <1>2 DEF IInv, InOrder, ReportsArePushed, NegatedFirstNeverRuns, Depth
<1>7. Accounted'
  BY <1>2, <1>5 DEF IInv, Accounted
<1> QED
  BY <1>3, <1>4, <1>6, <1>7 DEF IInv

\* PUSH: the new link is above all others, unresolved and not yet reported.
LEMMA PushIInv ==
  ASSUME IInv, NEW f \in Drivers, NEW s \in Subjects, NEW code \in Bodies,
         Push(f, s, code)
  PROVE  IInv'
<1> DEFINE link == NewLink(s, code)
<1>1. /\ links \in Seq(ChainLink) /\ Depth \in Nat /\ Depth = Len(links)
      /\ pushes \in Nat /\ pushes < MaxPushes /\ MaxPushes \in Nat
  BY ChainAssumption DEF IInv, TypeOK, Depth, Push
<1>2. link \in ChainLink /\ link.id = pushes + 1 /\ ~link.resolved /\ ~link.negated
  BY <1>1 DEF NewLink, ChainLink, OptionalDecision
<1>3. /\ links' = Append(links, link)
      /\ running = {} /\ active /\ ~resolving
      /\ pushes' = pushes + 1
      /\ passes' = 0
      /\ UNCHANGED <<active, resolving, running, left, frames, reports>>
  BY DEF Push, CanIssue, CanPush
<1> HIDE DEF link
<1>4. /\ links' \in Seq(ChainLink) /\ Depth' = Depth + 1
      /\ \A k \in 1..Depth : links'[k] = links[k]
      /\ links'[Depth + 1] = link
  BY <1>1, <1>2, <1>3, AppendProperties DEF Depth
<1>5. TypeOK'
  <2>1. passes' \in 0..MaxPasses /\ pushes' \in 0..MaxPushes
    BY <1>1, <1>3, ChainAssumption
  <2> QED
    BY <1>3, <1>4, <2>1 DEF IInv, TypeOK, frames
<1>6. \A k \in 1..Depth : ~links[k].resolved
  BY <1>3 DEF IInv, Shape
<1>7. Shape'
  BY <1>1, <1>2, <1>3, <1>4, <1>6 DEF Shape
<1>8. InOrder'
  <2>1. ASSUME NEW k \in 1..Depth
        PROVE  links[k].id \in Nat /\ links[k].id <= pushes
    BY <1>1, LinkFields DEF IInv, InOrder
  <2> QED
    BY <1>1, <1>2, <1>3, <1>4, <2>1 DEF IInv, InOrder
<1>9. Unresolved' = Unresolved \cup {pushes + 1}
  BY <1>1, <1>2, <1>4, <1>6 DEF Unresolved
<1>10. ReportsArePushed' /\ ReportsOf(pushes + 1) = {}
  <2>1. ASSUME NEW i \in 1..Len(reports)
        PROVE  reports[i].id <= pushes + 1 /\ reports[i].id # pushes + 1
    <3>1. reports[i].id \in 1..MaxPushes
      BY ReportFields DEF IInv
    <3>2. reports[i].id <= pushes
      BY DEF IInv, ReportsArePushed
    <3> QED
      BY <1>1, <3>1, <3>2
  <2> QED
    BY <1>3, <2>1 DEF ReportsArePushed, ReportsOf
<1>11. Accounted'
  <2>1. \A id : ReportsOf(id)' = ReportsOf(id)
    BY <1>3 DEF ReportsOf
  <2>2. 1..pushes' = 1..pushes \cup {pushes + 1} /\ reports' = reports
    BY <1>1, <1>3
  <2>3. pushes + 1 \notin 1..pushes
    BY <1>1
  <2>4. ASSUME NEW id \in 1..pushes
        PROVE  /\ id \in Unresolved => ReportsOf(id) = {}
               /\ id \notin Unresolved => \E i \in 1..Len(reports) : ReportsOf(id) = {i}
    BY DEF IInv, Accounted
  <2>5. ASSUME NEW id \in 1..pushes'
        PROVE  /\ id \in Unresolved' => ReportsOf(id)' = {}
               /\ id \notin Unresolved' => \E i \in 1..Len(reports)' : ReportsOf(id)' = {i}
    <3>1. CASE id = pushes + 1
      BY <1>9, <1>10, <2>1, <3>1
    <3>2. CASE id \in 1..pushes
      BY <1>9, <2>1, <2>2, <2>3, <2>4, <3>2
    <3> QED
      BY <2>2, <3>1, <3>2
  <2> QED
    BY <2>5 DEF Accounted
<1>12. NegatedFirstNeverRuns'
  BY <1>1, <1>2, <1>4 DEF IInv, NegatedFirstNeverRuns
<1> QED
  BY <1>5, <1>7, <1>8, <1>10, <1>11, <1>12 DEF IInv

\* POP: the link that goes has been reported.
LEMMA PopIInv ==
  ASSUME IInv, NEW f \in Drivers, Pop(f)
  PROVE  IInv'
<1>1. /\ links \in Seq(ChainLink) /\ Depth \in Nat \ {0} /\ Depth = Len(links)
      /\ Top.resolved /\ active /\ resolving /\ running = {}
      /\ links' = SubSeq(links, 1, Depth - 1)
      /\ UNCHANGED <<active, resolving, passes, running, left, frames, pushes, reports>>
  BY EmptySeq DEF IInv, TypeOK, Depth, Top, Pop, CanPop, CanIssue
<1>2. /\ links' \in Seq(ChainLink) /\ Depth' = Depth - 1
      /\ \A k \in 1..(Depth - 1) : links'[k] = links[k]
  <2>1. \A k \in 1..(Depth - 1) : links[k] \in ChainLink
    BY <1>1
  <2>2. 1 \in Int /\ Depth - 1 \in Int
    BY <1>1
  <2>3. /\ SubSeq(links, 1, Depth - 1) \in Seq(ChainLink)
        /\ Len(SubSeq(links, 1, Depth - 1)) = IF 1 <= Depth - 1 THEN (Depth - 1) - 1 + 1 ELSE 0
        /\ \A k \in 1..((Depth - 1) - 1 + 1) : SubSeq(links, 1, Depth - 1)[k] = links[1 + k - 1]
    BY <2>1, <2>2, SubSeqProperties
  <2>4. Len(links') = Depth - 1
    BY <1>1, <2>3
  <2>5. \A k \in 1..(Depth - 1) : links'[k] = links[k]
    BY <1>1, <2>3
  <2> QED
    BY <1>1, <2>3, <2>4, <2>5 DEF Depth
<1>3. TypeOK'
  BY <1>1, <1>2 DEF IInv, TypeOK, frames
<1>4. \A k \in 1..(Depth - 1) : ~links[k].resolved
  BY <1>1 DEF IInv, Shape
<1>5. Shape'
  BY <1>1, <1>2, <1>4 DEF Shape
<1>6. InOrder' /\ NegatedFirstNeverRuns'
  BY <1>1, <1>2 DEF IInv, InOrder, NegatedFirstNeverRuns
<1>7. Unresolved' = Unresolved
  <2>1. {k \in 1..Depth' : ~links'[k].resolved} = 1..(Depth - 1)
    BY <1>1, <1>2, <1>4
  <2>2. {k \in 1..Depth : ~links[k].resolved} = 1..(Depth - 1)
    BY <1>1, <1>4 DEF Top
  <2>3. Unresolved' = {links'[k].id : k \in 1..(Depth - 1)}
    BY <2>1 DEF Unresolved
  <2>4. Unresolved = {links[k].id : k \in 1..(Depth - 1)}
    BY <2>2 DEF Unresolved
  <2>5. {links'[k].id : k \in 1..(Depth - 1)} = {links[k].id : k \in 1..(Depth - 1)}
    BY <1>2
  <2> QED
    BY <2>3, <2>4, <2>5
<1>8. ReportsArePushed' /\ Accounted'
  BY <1>1, <1>7 DEF IInv, ReportsArePushed, Accounted, ReportsOf
<1> QED
  BY <1>3, <1>5, <1>6, <1>8 DEF IInv

\* The completion of a link: it leaves the unresolved ones and is reported.
LEMMA FinishIInv ==
  ASSUME IInv, NEW f \in Drivers, UnresolvedTop, Finish(f)
  PROVE  IInv'
<1> DEFINE report == [id |-> Top.id, context |-> IF Top.negated THEN 0 ELSE 1,
                      began |-> Top.began]
<1>1. /\ links \in Seq(ChainLink) /\ Depth \in Nat \ {0} /\ Depth = Len(links)
      /\ Depth \in 1..Depth
      /\ ~Top.resolved /\ active /\ resolving
  BY EmptySeq DEF IInv, TypeOK, Depth, UnresolvedTop
<1>2. /\ Top \in ChainLink /\ Top.id \in 1..MaxPushes /\ Top.began \in BOOLEAN
      /\ Top.id <= pushes
  BY <1>1, LinkFields DEF Top, IInv, InOrder
<1>3. /\ links' = [links EXCEPT ![Depth].resolved = TRUE]
      /\ reports' = Append(reports, report)
      /\ running' = {} /\ left' = 0
      /\ UNCHANGED <<active, resolving, passes, pushes>>
  BY DEF Finish, Set
<1>4. /\ links' \in Seq(ChainLink) /\ Depth' = Depth
      /\ \A k \in 1..Depth : /\ links'[k].id = links[k].id
                             /\ links'[k].resolved <=> (links[k].resolved \/ k = Depth)
                             /\ links'[k].negated = links[k].negated
                             /\ links'[k].began = links[k].began
                             /\ links'[k].late = links[k].late
  <2>1. [Top EXCEPT !.resolved = TRUE] \in ChainLink
    BY <1>2 DEF ChainLink
  <2>2. links' = [links EXCEPT ![Depth] = [Top EXCEPT !.resolved = TRUE]]
    BY <1>1, <1>3 DEF Top
  <2>3. /\ links' \in Seq(ChainLink) /\ Len(links') = Depth
        /\ \A k \in 1..Depth : links'[k] = IF k = Depth THEN [Top EXCEPT !.resolved = TRUE]
                                                       ELSE links[k]
    BY <1>1, <2>1, <2>2
  <2>4. \A k \in 1..Depth : links[k] \in ChainLink
    BY <1>1
  <2> QED
    <3>1. Depth' = Depth
      BY <2>3 DEF Depth
    <3>2. ASSUME NEW k \in 1..Depth
          PROVE  /\ links'[k].id = links[k].id
                 /\ links'[k].resolved <=> (links[k].resolved \/ k = Depth)
                 /\ links'[k].negated = links[k].negated
                 /\ links'[k].began = links[k].began
                 /\ links'[k].late = links[k].late
      <4>1. CASE k = Depth
        BY <1>2, <2>3, <4>1 DEF ChainLink, Top
      <4>2. CASE k # Depth
        <5>1. links'[k] = links[k] /\ links[k].resolved \in BOOLEAN
          BY <2>3, <4>2, LinkFields DEF IInv
        <5> QED
          BY <4>2, <5>1
      <4> QED
        BY <4>1, <4>2
    <3> QED
      BY <2>3, <3>1, <3>2
<1>5. /\ report \in [id: 1..MaxPushes, context: {0, 1}, began: BOOLEAN]
      /\ report.id = Top.id
  BY <1>2
<1> HIDE DEF report
<1>6. /\ reports' \in Seq([id: 1..MaxPushes, context: {0, 1}, began: BOOLEAN])
      /\ Len(reports) \in Nat
      /\ Len(reports') = Len(reports) + 1
      /\ \A i \in 1..Len(reports) : reports'[i] = reports[i]
      /\ reports'[Len(reports) + 1] = report
  BY <1>3, <1>5, AppendProperties DEF IInv, TypeOK
<1>7. TypeOK'
  <2>1. /\ status' \in [Drivers -> {"free", "suspended", "faulted"}]
        /\ decision' \in [Drivers -> OptionalDecision]
        /\ answer' \in [Drivers -> OptionalDecision]
    BY DEF IInv, TypeOK, Finish, OptionalDecision
  <2> QED
    BY <1>3, <1>4, <1>6, <2>1 DEF IInv, TypeOK
<1>8. \A k \in 1..(Depth - 1) : ~links[k].resolved
  BY <1>1 DEF IInv, Shape
<1>9. Shape'
  BY <1>1, <1>3, <1>4, <1>8 DEF Shape
<1>10. InOrder' /\ NegatedFirstNeverRuns'
  BY <1>3, <1>4 DEF IInv, InOrder, NegatedFirstNeverRuns
<1>11. \A k \in 1..(Depth - 1) : links[k].id # Top.id
  <2>1. \A k \in 1..(Depth - 1) : links[k].id < Top.id /\ links[k].id \in Nat
    BY <1>1, LinkFields DEF IInv, InOrder, Top
  <2> QED
    BY <1>2, <2>1
<1>12. Unresolved = Unresolved' \cup {Top.id} /\ Top.id \notin Unresolved'
  <2>1. {k \in 1..Depth' : ~links'[k].resolved} = 1..(Depth - 1)
    <3>1. \A k \in 1..Depth : links'[k].resolved <=> k = Depth
      BY <1>1, <1>4, <1>8
    <3>2. \A k \in 1..Depth : k = Depth <=> k \notin 1..(Depth - 1)
      BY <1>1
    <3>3. \A k \in 1..Depth : ~links'[k].resolved <=> k \in 1..(Depth - 1)
      BY <3>1, <3>2
    <3>4. {k \in 1..Depth : ~links'[k].resolved} = {k \in 1..Depth : k \in 1..(Depth - 1)}
      BY <3>3, Zenon
    <3>5. {k \in 1..Depth : k \in 1..(Depth - 1)} = 1..(Depth - 1)
      BY <1>1
    <3> QED
      BY <1>4, <3>4, <3>5
  <2>2. {k \in 1..Depth : ~links[k].resolved} = 1..(Depth - 1) \cup {Depth}
    BY <1>1, <1>8 DEF Top
  <2>3. Unresolved' = {links[k].id : k \in 1..(Depth - 1)}
    <3>1. Unresolved' = {links'[k].id : k \in 1..(Depth - 1)}
      BY <2>1 DEF Unresolved
    <3>2. \A k \in 1..(Depth - 1) : links'[k].id = links[k].id
      BY <1>1, <1>4
    <3> QED
      BY <3>1, <3>2
  <2> QED
    BY <1>11, <2>2, <2>3 DEF Unresolved, Top
<1>13. ReportsArePushed'
  BY <1>2, <1>3, <1>5, <1>6 DEF IInv, ReportsArePushed
<1>14. Accounted'
  <2>1. ASSUME NEW id \in 1..pushes
        PROVE  ReportsOf(id)' = ReportsOf(id) \cup
                                (IF id = Top.id THEN {Len(reports) + 1} ELSE {})
    BY <1>5, <1>6 DEF ReportsOf
  <2>2. ReportsOf(Top.id) = {}
    <3>1. Top.id \in 1..pushes
      BY <1>2 DEF IInv, TypeOK
    <3> QED
      BY <1>12, <3>1 DEF IInv, Accounted
  <2>3. ASSUME NEW id \in 1..pushes
        PROVE  /\ id \in Unresolved' => ReportsOf(id)' = {}
               /\ id \notin Unresolved' => \E i \in 1..Len(reports') : ReportsOf(id)' = {i}
    <3>1. CASE id = Top.id
      <4>1. ReportsOf(id)' = {Len(reports) + 1} /\ Len(reports) + 1 \in 1..Len(reports')
        BY <1>6, <2>1, <2>2, <3>1
      <4> QED
        BY <1>12, <3>1, <4>1
    <3>2. CASE id # Top.id
      <4>1. /\ id \in Unresolved => ReportsOf(id) = {}
            /\ id \notin Unresolved => \E i \in 1..Len(reports) : ReportsOf(id) = {i}
        BY DEF IInv, Accounted
      <4>2. ReportsOf(id)' = ReportsOf(id) /\ 1..Len(reports) \subseteq 1..Len(reports')
        <5>1. ReportsOf(id)' = ReportsOf(id)
          BY <2>1, <3>2
        <5>2. 1..Len(reports) \subseteq 1..Len(reports')
          BY <1>6
        <5> QED
          BY <5>1, <5>2
      <4>3. id \in Unresolved' <=> id \in Unresolved
        BY <1>12, <3>2
      <4> QED
        BY <4>1, <4>2, <4>3
    <3> QED
      BY <3>1, <3>2
  <2> QED
    BY <1>3, <2>3 DEF Accounted
<1> QED
  BY <1>7, <1>9, <1>10, <1>13, <1>14 DEF IInv

\* A frame that is a body runs on an unresolved top link.
LEMMA RunningTop ==
  ASSUME IInv, UnresolvedTop
  PROVE  /\ links \in Seq(ChainLink) /\ Depth = Len(links)
         /\ Depth \in Nat /\ Depth \in 1..Depth
         /\ Top \in ChainLink /\ ~Top.resolved
<1>1. links \in Seq(ChainLink) /\ Depth = Len(links)
  BY DEF IInv, TypeOK, Depth
<1>2. Depth \in Nat \ {0}
  BY <1>1, EmptySeq DEF UnresolvedTop
<1>3. Depth \in 1..Depth
  BY <1>2
<1> QED
  BY <1>1, <1>2, <1>3, ElementOfSeq DEF UnresolvedTop, Top

\* Replacing the top link by one that differs from it in what a body changes.
LEMMA TopWrites ==
  ASSUME IInv, UnresolvedTop
  PROVE  \A from, link :
           /\ Writes(from)
           /\ link \in ChainLink
           /\ link.id = from[Depth].id
           /\ link.resolved = from[Depth].resolved
           /\ link.negated /\ ~link.late => ~link.began
           => Writes([from EXCEPT ![Depth] = link])
<1>1. SUFFICES ASSUME NEW from, NEW link,
                      Writes(from),
                      link \in ChainLink,
                      link.id = from[Depth].id,
                      link.resolved = from[Depth].resolved,
                      link.negated /\ ~link.late => ~link.began
               PROVE  Writes([from EXCEPT ![Depth] = link])
  BY Zenon
<1> DEFINE l == [from EXCEPT ![Depth] = link]
<1>2. Depth \in 1..Depth /\ from \in Seq(ChainLink) /\ Len(from) = Depth
  BY <1>1, RunningTop DEF Writes
<1>3. /\ l \in Seq(ChainLink) /\ Len(l) = Depth
      /\ \A k \in 1..Depth : l[k] = IF k = Depth THEN link ELSE from[k]
  BY <1>1, <1>2
<1>4. ~link.resolved
  BY <1>1, <1>2, RunningTop DEF Writes, Top
<1> HIDE DEF l
<1>5. ASSUME NEW k \in 1..Depth
      PROVE  /\ l[k].id = links[k].id
             /\ l[k].resolved = links[k].resolved
             /\ l[k].resolved => l[k].negated = links[k].negated
             /\ l[k].negated /\ ~l[k].late => ~l[k].began
  <2>1. CASE k = Depth
    <3>1. l[k] = link
      BY <1>3, <2>1
    <3>2. link.id = links[k].id /\ link.resolved = links[k].resolved
      BY <1>1, <2>1 DEF Writes
    <3> QED
      BY <1>1, <1>4, <3>1, <3>2
  <2>2. CASE k # Depth
    <3>1. l[k] = from[k]
      BY <1>3, <2>2
    <3> QED
      BY <1>1, <3>1 DEF Writes
  <2> QED
    BY <2>1, <2>2
<1>6. Writes(l)
  BY <1>3, <1>5 DEF Writes
<1> QED
  BY <1>6 DEF l

\* The next instruction of a body.
LEMMA AdvanceIInv ==
  ASSUME IInv, NEW f \in Drivers, running = {f},
         NEW cost \in {1, 2}, left >= cost
  PROVE  \A from : Writes(from) /\ Advance(from, cost) => IInv' /\ Quiet
<1> SUFFICES ASSUME NEW from, Writes(from), Advance(from, cost)
             PROVE  IInv' /\ Quiet
  BY Zenon
<1> DEFINE link == [from[Depth] EXCEPT !.pc = @ + 1,
                                       !.decision = NoDecision,
                                       !.answer = NoDecision]
<1>1. UnresolvedTop
  BY DEF IInv, Shape
<1>2. /\ Depth \in 1..Depth /\ from \in Seq(ChainLink) /\ Len(from) = Depth
      /\ from[Depth] \in ChainLink
      /\ from[Depth].negated /\ ~from[Depth].late => ~from[Depth].began
  BY <1>1, RunningTop, ElementOfSeq DEF Writes
<1>3. links' = [from EXCEPT ![Depth] = link]
  BY <1>2 DEF Advance
<1>4. /\ link \in ChainLink
      /\ link.id = from[Depth].id
      /\ link.resolved = from[Depth].resolved
      /\ link.negated /\ ~link.late => ~link.began
  <2>1. NoDecision \in OptionalDecision
    BY DEF OptionalDecision
  <2>2. from[Depth].pc + 1 \in Nat \ {0}
    BY <1>2 DEF ChainLink
  <2>3. link \in ChainLink
    BY <1>2, <2>1, <2>2 DEF ChainLink
  <2>4. /\ link.id = from[Depth].id
        /\ link.resolved = from[Depth].resolved
        /\ link.negated = from[Depth].negated
        /\ link.late = from[Depth].late
        /\ link.began = from[Depth].began
    BY <1>2 DEF ChainLink
  <2> QED
    BY <1>2, <2>3, <2>4
<1> HIDE DEF link
<1>5. Writes(links')
  BY <1>1, <1>3, <1>4, TopWrites
<1>6. left' \in Nat
  BY DEF IInv, TypeOK, Advance
<1>7. UNCHANGED <<active, resolving, passes, running, status, decision, answer, pushes, reports>>
  BY DEF Advance, frames
<1> QED
  BY <1>1, <1>5, <1>6, <1>7, WritesIInv DEF IInv, TypeOK

\* A body that stops without completing.
LEMMA ReturnIInv ==
  ASSUME IInv, NEW f \in Drivers, NEW st \in {"suspended", "faulted"},
         Return(f, st), Writes(links'),
         decision' \in [Drivers -> OptionalDecision]
  PROVE  IInv' /\ Quiet
<1>1. /\ UNCHANGED <<active, resolving, passes, answer, pushes, reports>>
      /\ running' = {} /\ left' = 0
      /\ status' \in [Drivers -> {"free", "suspended", "faulted"}]
  BY DEF Return, IInv, TypeOK
<1> QED
  BY <1>1, WritesIInv DEF IInv, TypeOK

\* RESOLVE_LINK starts or continues a body that has not been negated.
LEMMA EnterIInv ==
  ASSUME IInv, NEW f \in Drivers, NEW budget \in Budgets, ResolveEnter(f, budget)
  PROVE  IInv' /\ Quiet
<1> DEFINE link == [Top EXCEPT !.answer = Forwarded(f), !.began = TRUE]
<1>1. UnresolvedTop /\ ~Top.negated
  BY DEF ResolveEnter, Skips
<1>2. /\ Depth \in 1..Depth /\ links \in Seq(ChainLink) /\ Top \in ChainLink
      /\ Len(links) = Depth
  BY <1>1, RunningTop
<1>3. answer[f] \in OptionalDecision /\ Forwarded(f) \in OptionalDecision
  BY <1>2 DEF IInv, TypeOK, Forwarded, ChainLink
<1>4. links' = [links EXCEPT ![Depth] = link]
  BY <1>2 DEF ResolveEnter, Top
<1>5. /\ link \in ChainLink
      /\ link.id = links[Depth].id
      /\ link.resolved = links[Depth].resolved
      /\ ~link.negated
  BY <1>1, <1>2, <1>3 DEF ChainLink, Top
<1> HIDE DEF link
<1>6. Writes(links')
  BY <1>1, <1>4, <1>5, NothingWrites, TopWrites
<1>7. /\ UNCHANGED <<active, resolving, passes, status, pushes, reports>>
      /\ running' = {f} /\ left' \in Nat
      /\ decision' \in [Drivers -> OptionalDecision]
      /\ answer' \in [Drivers -> OptionalDecision]
  BY ChainAssumption DEF IInv, TypeOK, ResolveEnter, Kept, OptionalDecision
<1> QED
  BY <1>1, <1>6, <1>7, WritesIInv DEF IInv, TypeOK

\* The rest of RESOLVE_LINK: no body is run.
LEMMA ResolveIInv ==
  ASSUME IInv, NEW f \in Drivers, ResolveLink(f)
  PROVE  IInv' /\ (Quiet \/ Settles)
<1>1. CASE ResolveSkip(f)
  BY <1>1, FinishIInv DEF ResolveSkip, Settles
<1>2. CASE \E budget \in Budgets : ResolveEnter(f, budget)
  BY <1>2, EnterIInv
<1>3. CASE ResolveFault(f)
  <2>1. /\ UNCHANGED <<active, resolving, passes, links, running, left,
                       decision, answer, pushes, reports>>
        /\ running = {}
        /\ status' \in [Drivers -> {"free", "suspended", "faulted"}]
    BY <1>3 DEF IInv, TypeOK, ResolveFault, stack
  <2>2. Writes(links')
    BY <2>1, NothingWrites
  <2> QED
    BY <2>1, <2>2, WritesIInv DEF IInv, TypeOK
<1> QED
  BY <1>1, <1>2, <1>3 DEF ResolveLink

\* One instruction of a body.
LEMMA BodyIInv ==
  ASSUME IInv, NEW f \in Drivers, Body(f)
  PROVE  IInv' /\ (Quiet \/ Settles)
<1>1. running = {f} => UnresolvedTop
  BY DEF IInv, Shape
<1>2. left \in Nat
  BY DEF IInv, TypeOK
<1>3. CASE BodyPlain(f)
  BY <1>2, <1>3, NothingWrites, AdvanceIInv DEF BodyPlain, AtInstruction
<1>4. CASE BodyAsks(f)
  <2> DEFINE asked == IF Top.decision = NoDecision THEN <<Top.id, Top.pc>> ELSE Top.decision
             link == [Top EXCEPT !.decision = asked]
  <2>1. UnresolvedTop
    BY <1>1, <1>4 DEF BodyAsks, AtInstruction
  <2>2. /\ Depth \in 1..Depth /\ links \in Seq(ChainLink) /\ Len(links) = Depth
        /\ Top \in ChainLink
        /\ Top.negated /\ ~Top.late => ~Top.began
    BY <2>1, RunningTop DEF IInv, NegatedFirstNeverRuns, Top
  <2>3. asked \in OptionalDecision
    BY <2>2 DEF ChainLink, OptionalDecision, Decisions
  <2> HIDE DEF asked
  <2>4. /\ link \in ChainLink
        /\ link.id = links[Depth].id
        /\ link.resolved = links[Depth].resolved
        /\ link.negated /\ ~link.late => ~link.began
    BY <2>2, <2>3 DEF ChainLink, Top
  <2>5. links' = [links EXCEPT ![Depth] = link] /\ decision' = [decision EXCEPT ![f] = asked]
    BY <1>4, <2>2 DEF BodyAsks, Set, Top, asked
  <2> HIDE DEF link
  <2>6. Writes(links')
    BY <2>1, <2>4, <2>5, NothingWrites, TopWrites
  <2>7. decision' \in [Drivers -> OptionalDecision]
    BY <2>3, <2>5 DEF IInv, TypeOK
  <2>8. Return(f, "suspended")
    BY <1>4 DEF BodyAsks
  <2> QED
    BY <2>6, <2>7, <2>8, ReturnIInv
<1>5. CASE BodyChooses(f)
  BY <1>2, <1>5, NothingWrites, AdvanceIInv DEF BodyChooses, AtInstruction
<1>6. ASSUME NEW s \in Subjects, BodyNegates(f, s) PROVE IInv' /\ Quiet
  <2>1. CASE Advance(Marked(s), 1)
    BY <1>2, <1>6, <2>1, MarkedWrites, AdvanceIInv DEF BodyNegates, AtInstruction
  <2>2. CASE links' = Marked(s) /\ Return(f, "faulted") /\ UNCHANGED decision
    BY <2>2, MarkedWrites, ReturnIInv DEF IInv, TypeOK
  <2> QED
    BY <1>6, <2>1, <2>2 DEF BodyNegates
<1>7. CASE BodyCommits(f)
  BY <1>2, <1>7, NothingWrites, AdvanceIInv DEF BodyCommits, AtInstruction
<1>8. CASE BodyCommitStarves(f) \/ BodyAwaits(f) \/ BodyFaults(f) \/ BodyStarves(f)
  <2>1. /\ Return(f, "suspended") \/ Return(f, "faulted")
        /\ UNCHANGED <<links, decision>>
    BY <1>8 DEF BodyCommitStarves, BodyAwaits, BodyFaults, BodyStarves
  <2>2. Writes(links') /\ decision' \in [Drivers -> OptionalDecision]
    BY <2>1, NothingWrites DEF IInv, TypeOK
  <2> QED
    BY <2>1, <2>2, ReturnIInv
<1>9. CASE BodyEnds(f)
  BY <1>1, <1>9, FinishIInv DEF BodyEnds, Settles
<1> QED
  BY <1>3, <1>4, <1>5, <1>6, <1>7, <1>8, <1>9 DEF Body

\* The host's answer and a NEGATE by a frame that is no body.
LEMMA OutsideIInv ==
  ASSUME IInv,
         (\E f \in Drivers : Answer(f)) \/ (\E s \in Subjects : Negate(s))
  PROVE  IInv' /\ Quiet
<1>1. ASSUME NEW f \in Drivers, Answer(f) PROVE IInv' /\ Quiet
  <2>1. /\ UNCHANGED <<active, resolving, passes, links, running, left,
                       status, decision, pushes, reports>>
        /\ running = {}
        /\ answer' \in [Drivers -> OptionalDecision]
    BY <1>1 DEF IInv, TypeOK, Answer, stack
  <2>2. Writes(links')
    BY <2>1, NothingWrites
  <2> QED
    BY <2>1, <2>2, WritesIInv DEF IInv, TypeOK
<1>2. ASSUME NEW s \in Subjects, Negate(s) PROVE IInv' /\ Quiet
  <2>1. /\ UNCHANGED <<active, resolving, passes, running, left, status,
                       decision, answer, pushes, reports>>
        /\ running = {}
        /\ links' = Marked(s)
    BY <1>2 DEF Negate, frames
  <2>2. Writes(links')
    BY <2>1, MarkedWrites
  <2> QED
    BY <2>1, <2>2, WritesIInv DEF IInv, TypeOK
<1> QED
  BY <1>1, <1>2

\* A stuttering step.
LEMMA StutterIInv ==
  ASSUME IInv, UNCHANGED vars
  PROVE  IInv' /\ Quiet
<1>1. UNCHANGED <<active, resolving, passes, links, running, left, status,
                  decision, answer, pushes, reports>>
  BY DEF vars, stack, frames
<1>2. Writes(links')
  BY <1>1, NothingWrites
<1>3. running' # {} => UnresolvedTop
  BY <1>1 DEF IInv, Shape
<1> QED
  BY <1>1, <1>2, <1>3, WritesIInv DEF IInv, TypeOK

\* Every step keeps the invariant.
LEMMA NextIInv == IInv /\ [Next]_vars => IInv'
<1> SUFFICES ASSUME IInv, [Next]_vars PROVE IInv'
  OBVIOUS
<1>1. ASSUME NEW f \in Drivers, Issue(f) PROVE IInv'
  BY <1>1, FlagsIInv, PushIInv, PopIInv DEF Issue
<1>2. ASSUME NEW f \in Drivers, ResolveLink(f) PROVE IInv'
  BY <1>2, ResolveIInv
<1>3. ASSUME NEW f \in Drivers, Body(f) PROVE IInv'
  BY <1>3, BodyIInv
<1>4. CASE (\E f \in Drivers : Answer(f)) \/ (\E s \in Subjects : Negate(s))
  BY <1>4, OutsideIInv
<1>5. CASE UNCHANGED vars
  BY <1>5, StutterIInv
<1> QED
  BY <1>1, <1>2, <1>3, <1>4, <1>5 DEF Next

-----------------------------------------------------------------------------
(* What follows from the invariant.                                        *)

\* The invariant holds in every reachable state of the chain.
THEOREM Invariance == Spec => []IInv
BY InitIInv, NextIInv, PTL DEF Spec

\* The types hold for every set of bodies and budgets; in particular passes never
\* outgrows an immediate.
THEOREM TypeCorrect == Spec => []TypeOK
<1>1. IInv => TypeOK
  BY DEF IInv
<1> QED
  BY <1>1, Invariance, PTL

\* Nothing that a body, another driver or a negation does takes the link away
\* whose frame is executing.
THEOREM StackStaysHeld == Spec => []StackIsHeld
<1>1. IInv => StackIsHeld
  <2>1. SUFFICES ASSUME IInv PROVE StackIsHeld
    OBVIOUS
  <2>2. Depth \in Nat
    BY <2>1 DEF IInv, TypeOK, Depth
  <2> QED
    BY <2>1, <2>2 DEF IInv, Shape, StackIsHeld
<1> QED
  BY <1>1, Invariance, PTL

\* RESOLVE_END is emitted exactly once for each link, whoever drives the chain.
THEOREM EveryLinkIsReportedOnce == Spec => []ReportedOnce
<1>1. IInv => ReportedOnce
  <2>1. SUFFICES ASSUME IInv, NEW id \in 1..pushes
                 PROVE  Cardinality(ReportsOf(id)) = IF id \in Unresolved THEN 0 ELSE 1
    BY DEF ReportedOnce
  <2>2. CASE id \in Unresolved
    BY <2>1, <2>2, FS_EmptySet DEF IInv, Accounted
  <2>3. CASE id \notin Unresolved
    <3>1. PICK i \in 1..Len(reports) : ReportsOf(id) = {i}
      BY <2>1, <2>3 DEF IInv, Accounted
    <3> QED
      BY <2>3, <3>1, FS_Singleton
  <2> QED
    BY <2>2, <2>3
<1> QED
  BY <1>1, Invariance, PTL

\* A link that was negated before RESOLVE_LINK reached it never runs its body.
THEOREM NegatedLinksNeverBegin == Spec => []NegatedFirstNeverRuns
<1>1. IInv => NegatedFirstNeverRuns
  BY DEF IInv
<1> QED
  BY <1>1, Invariance, PTL

\* Only the completion of a link is reported.
LEMMA OnlyFinishReports ==
  ASSUME Next
  PROVE  \/ UNCHANGED reports
         \/ /\ UnresolvedTop \/ running # {}
            /\ \E f \in Drivers : Finish(f)
<1>1. ASSUME NEW f \in Drivers, Issue(f) PROVE UNCHANGED reports
  BY <1>1 DEF Issue, Begin, Push, Pass, BeginResolve, Pop, EndResolve, End
<1>2. ASSUME NEW f \in Drivers, ResolveLink(f)
      PROVE  UNCHANGED reports \/ (UnresolvedTop /\ Finish(f))
  BY <1>2 DEF ResolveLink, ResolveSkip, ResolveEnter, ResolveFault
<1>3. ASSUME NEW f \in Drivers, Body(f)
      PROVE  UNCHANGED reports \/ (running # {} /\ Finish(f))
  <2>1. \A from, cost : Advance(from, cost) => UNCHANGED reports
    BY DEF Advance
  <2>2. \A st : Return(f, st) => UNCHANGED reports
    BY DEF Return
  <2>3. CASE BodyEnds(f)
    BY <2>3 DEF BodyEnds
  <2>4. CASE ~BodyEnds(f)
    BY <1>3, <2>1, <2>2, <2>4 DEF Body, BodyPlain, BodyAsks, BodyChooses, BodyNegates,
       BodyCommits, BodyCommitStarves, BodyAwaits, BodyFaults, BodyStarves
  <2> QED
    BY <2>3, <2>4
<1>4. ASSUME (\E f \in Drivers : Answer(f)) \/ (\E s \in Subjects : Negate(s))
      PROVE  UNCHANGED reports
  BY <1>4 DEF Answer, Negate
<1> QED
  BY <1>1, <1>2, <1>3, <1>4 DEF Next

\* A link is reported only after every link pushed since.
THEOREM ReportsAreLastInFirst == Spec => LastInFirstReported
<1> DEFINE Order == Len(reports') > Len(reports) =>
                      \A id \in (reports'[Len(reports')].id + 1)..pushes : ReportsOf(id) # {}
<1>1. IInv /\ [Next]_vars => [Order]_vars
  <2>1. SUFFICES ASSUME IInv, Next, Len(reports') > Len(reports),
                        NEW id \in (reports'[Len(reports')].id + 1)..pushes
                 PROVE  ReportsOf(id) # {}
    OBVIOUS
  <2>2. reports \in Seq([id: 1..MaxPushes, context: {0, 1}, began: BOOLEAN])
        /\ Len(reports) \in Nat
    BY <2>1 DEF IInv, TypeOK
  <2>3. PICK f \in Drivers : UnresolvedTop /\ Finish(f)
    BY <2>1, <2>2, OnlyFinishReports DEF IInv, Shape
  <2>4. /\ Depth \in Nat /\ Depth \in 1..Depth /\ Top \in ChainLink
        /\ links \in Seq(ChainLink)
    BY <2>1, <2>3, RunningTop
  <2>5. reports'[Len(reports')].id = Top.id
    BY <2>2, <2>3, AppendProperties DEF Finish
  <2>6. Top.id \in 1..MaxPushes /\ pushes \in 0..MaxPushes
    BY <2>1, <2>4 DEF ChainLink, IInv, TypeOK
  <2>7. id \in 1..pushes /\ id > Top.id
    BY <2>1, <2>5, <2>6, ChainAssumption
  <2>8. \A k \in 1..Depth : links[k].id \in Nat /\ links[k].id <= Top.id
    <3>1. ASSUME NEW k \in 1..Depth
          PROVE  links[k].id \in Nat /\ links[k].id <= Top.id
      <4>1. links[k].id \in Nat
        BY <2>1, LinkFields, ChainAssumption DEF IInv
      <4>2. k = Depth \/ k < Depth
        BY <2>4
      <4>3. k < Depth => links[k].id < Top.id
        BY <2>1, <2>4 DEF IInv, InOrder, Top
      <4> QED
        BY <2>6, <4>1, <4>2, <4>3 DEF Top
    <3> QED
      BY <3>1
  <2>9. id \notin Unresolved
    <3>1. \A k \in 1..Depth : links[k].id # id
      BY <2>6, <2>7, <2>8
    <3> QED
      BY <3>1 DEF Unresolved
  <2> QED
    BY <2>1, <2>7, <2>9 DEF IInv, Accounted
<1> QED
  BY <1>1, Invariance, PTL DEF Spec, LastInFirstReported

-----------------------------------------------------------------------------
(* The chain implements the abstract stack of outcomes.                    *)

Outcomes == {"pending", "negated", "executed"}

Image == [k \in 1..Depth |-> Outcome(links[k])]

\* The image is a sequence of outcomes, one for each link.
LEMMA ImageIsASequence ==
  ASSUME TypeOK
  PROVE  /\ Depth \in Nat
         /\ Image \in Seq(Outcomes)
         /\ Len(Image) = Depth
         /\ \A k \in 1..Depth : Image[k] = Outcome(links[k])
<1>1. Depth \in Nat
  BY DEF TypeOK, Depth
<1>2. \A k \in 1..Depth : Outcome(links[k]) \in Outcomes
  BY DEF Outcome, Outcomes
<1>3. Image \in [1..Depth -> Outcomes]
  BY <1>2 DEF Image
<1>4. \A k \in 1..Depth : Image[k] = Outcome(links[k])
  BY DEF Image
<1> QED
  BY <1>1, <1>3, <1>4

\* Sequences of outcomes with the same elements are equal.
LEMMA SameOutcomes ==
  ASSUME TypeOK', NEW seq \in Seq(Outcomes), Len(seq) = Depth',
         \A k \in 1..Depth' : seq[k] = Outcome(links'[k])
  PROVE  Image' = seq
<1>1. /\ Image' \in Seq(Outcomes) /\ Len(Image') = Depth' /\ Depth' \in Nat
      /\ \A k \in 1..Depth' : Image'[k] = Outcome(links'[k])
  <2>1. \A k : Outcome(links[k])' = Outcome(links'[k])
    BY DEF Outcome
  <2>2. /\ (Depth \in Nat)'
        /\ (Image \in Seq(Outcomes))'
        /\ (Len(Image) = Depth)'
        /\ (\A k \in 1..Depth : Image[k] = Outcome(links[k]))'
    BY ImageIsASequence, PTL
  <2> QED
    BY <2>1, <2>2 DEF Outcomes
<1> QED
  BY <1>1, SeqEqual

\* A quiet step leaves the image alone.
LEMMA QuietImage ==
  ASSUME IInv, IInv', Quiet
  PROVE  Image' = Image /\ Phase' = Phase
<1>1. /\ Depth' = Depth
      /\ \A k \in 1..Depth : /\ links'[k].resolved = links[k].resolved
                             /\ links'[k].resolved => links'[k].negated = links[k].negated
  BY DEF Quiet, Writes, Depth
<1>2. \A k \in 1..Depth : Outcome(links'[k]) = Outcome(links[k])
  BY <1>1 DEF Outcome
<1>3. Image' = Image
  BY <1>1, <1>2, ImageIsASequence, SameOutcomes DEF IInv
<1> QED
  BY <1>3 DEF Quiet, Phase

\* PUSH puts a pending outcome on top.
LEMMA PushImage ==
  ASSUME IInv, IInv', NEW f \in Drivers, NEW s \in Subjects, NEW code \in Bodies,
         Push(f, s, code)
  PROVE  Abstract!Push
<1>1. /\ links \in Seq(ChainLink) /\ links' \in Seq(ChainLink)
      /\ Depth = Len(links) /\ Depth \in Nat
      /\ links' = Append(links, NewLink(s, code))
      /\ active /\ ~resolving
      /\ UNCHANGED <<active, resolving>>
  BY DEF IInv, TypeOK, Depth, Push, CanPush
<1>2. /\ Depth' = Depth + 1
      /\ \A k \in 1..Depth : links'[k] = links[k]
      /\ ~links'[Depth + 1].resolved
  <2>1. Len(links') = Depth + 1 /\ links'[Depth + 1] = NewLink(s, code)
    BY <1>1
  <2>2. \A k \in 1..Depth : links'[k] = links[k]
    BY <1>1
  <2> QED
    BY <2>1, <2>2 DEF Depth, NewLink
<1>3. Image' = Append(Image, "pending")
  <2> DEFINE seq == Append(Image, "pending")
  <2>1. /\ Image \in Seq(Outcomes) /\ Len(Image) = Depth
        /\ \A k \in 1..Depth : Image[k] = Outcome(links[k])
    BY ImageIsASequence DEF IInv
  <2>2. /\ seq \in Seq(Outcomes) /\ Len(seq) = Depth'
        /\ \A k \in 1..Depth : seq[k] = Image[k]
        /\ seq[Depth + 1] = "pending"
    BY <1>1, <1>2, <2>1, AppendProperties DEF Outcomes
  <2> HIDE DEF seq
  <2>3. ASSUME NEW k \in 1..Depth' PROVE seq[k] = Outcome(links'[k])
    <3>1. CASE k = Depth + 1
      BY <1>2, <2>2, <3>1 DEF Outcome
    <3>2. CASE k \in 1..Depth
      BY <1>2, <2>1, <2>2, <3>2
    <3> QED
      BY <1>1, <1>2, <3>1, <3>2
  <2>4. Image' = seq
    BY <2>2, <2>3, SameOutcomes DEF IInv
  <2> QED
    BY <2>4 DEF seq
<1> QED
  BY <1>1, <1>3 DEF Abstract!Push, Phase, Image

\* POP removes the top outcome, which is decided.
LEMMA PopImage ==
  ASSUME IInv, IInv', NEW f \in Drivers, Pop(f)
  PROVE  Abstract!Pop
<1>1. /\ links \in Seq(ChainLink) /\ links # << >>
      /\ Depth = Len(links) /\ Depth \in Nat \ {0}
      /\ links' = SubSeq(links, 1, Depth - 1)
      /\ active /\ resolving /\ Top.resolved
      /\ UNCHANGED <<active, resolving>>
  BY EmptySeq DEF IInv, TypeOK, Depth, Pop, CanPop, Top
<1>2. /\ Image \in Seq(Outcomes) /\ Len(Image) = Depth
      /\ \A k \in 1..Depth : Image[k] = Outcome(links[k])
  BY ImageIsASequence DEF IInv
<1>3. Depth' = Depth - 1 /\ \A k \in 1..(Depth - 1) : links'[k] = links[k]
  <2>1. \A k \in 1..(Depth - 1) : links[k] \in ChainLink
    BY <1>1
  <2>2. /\ Len(SubSeq(links, 1, Depth - 1)) = Depth - 1
        /\ \A k \in 1..(Depth - 1) : SubSeq(links, 1, Depth - 1)[k] = links[k]
    <3>1. 1 \in Int /\ Depth - 1 \in Int
      BY <1>1
    <3>2. /\ Len(SubSeq(links, 1, Depth - 1)) = IF 1 <= Depth - 1 THEN (Depth - 1) - 1 + 1 ELSE 0
          /\ \A k \in 1..((Depth - 1) - 1 + 1) : SubSeq(links, 1, Depth - 1)[k] = links[1 + k - 1]
      BY <2>1, <3>1, SubSeqProperties
    <3> QED
      BY <1>1, <3>2
  <2> QED
    BY <1>1, <2>2 DEF Depth
<1>4. Image' = SubSeq(Image, 1, Depth - 1)
  <2> DEFINE seq == SubSeq(Image, 1, Depth - 1)
  <2>1. \A k \in 1..(Depth - 1) : Image[k] \in Outcomes
    BY <1>1, <1>2
  <2>2. 1 \in Int /\ Depth - 1 \in Int
    BY <1>1
  <2>3. /\ seq \in Seq(Outcomes)
        /\ Len(seq) = IF 1 <= Depth - 1 THEN (Depth - 1) - 1 + 1 ELSE 0
        /\ \A k \in 1..((Depth - 1) - 1 + 1) : seq[k] = Image[1 + k - 1]
    BY <2>1, <2>2, SubSeqProperties
  <2> HIDE DEF seq
  <2>4. Len(seq) = Depth'
    BY <1>1, <1>3, <2>3
  <2>5. \A k \in 1..(Depth - 1) : seq[k] = Image[k]
    BY <1>1, <2>3
  <2>6. \A k \in 1..Depth' : seq[k] = Outcome(links'[k])
    BY <1>1, <1>2, <1>3, <2>5
  <2>7. Image' = seq
    BY <2>3, <2>4, <2>6, SameOutcomes DEF IInv
  <2> QED
    BY <2>7 DEF seq
<1>5. Image # << >> /\ Image[Len(Image)] # "pending"
  <2>1. Depth \in 1..Depth
    BY <1>1
  <2>2. Image[Depth] = Outcome(Top)
    BY <1>2, <2>1 DEF Top
  <2>3. Outcome(Top) # "pending"
    BY <1>1 DEF Outcome
  <2> QED
    BY <1>1, <1>2, <2>2, <2>3
<1> QED
  BY <1>1, <1>2, <1>4, <1>5 DEF Abstract!Pop, Abstract!Top, Phase, Image

\* A completion decides the top outcome.
LEMMA SettleImage ==
  ASSUME IInv, IInv', Settles
  PROVE  Abstract!Settle
<1>1. PICK f \in Drivers : Finish(f)
  BY DEF Settles
<1>2. /\ links \in Seq(ChainLink) /\ links # << >> /\ Depth = Len(links)
      /\ Depth \in Nat /\ Depth \in 1..Depth /\ Top \in ChainLink /\ ~Top.resolved
      /\ active /\ resolving
  BY RunningTop DEF Settles, UnresolvedTop
<1>3. /\ links' = [links EXCEPT ![Depth].resolved = TRUE]
      /\ UNCHANGED <<active, resolving>>
  BY <1>1 DEF Finish, Set
<1>4. /\ Image \in Seq(Outcomes) /\ Len(Image) = Depth
      /\ \A k \in 1..Depth : Image[k] = Outcome(links[k])
  BY ImageIsASequence DEF IInv
<1> DEFINE outcome == IF Top.negated THEN "negated" ELSE "executed"
           seq == [Image EXCEPT ![Depth] = outcome]
<1>5. /\ Depth' = Depth
      /\ \A k \in 1..Depth : links'[k] = IF k = Depth THEN [Top EXCEPT !.resolved = TRUE]
                                                      ELSE links[k]
  <2>1. [Top EXCEPT !.resolved = TRUE] \in ChainLink
    BY <1>2 DEF ChainLink
  <2>2. links' = [links EXCEPT ![Depth] = [Top EXCEPT !.resolved = TRUE]]
    BY <1>2, <1>3 DEF Top
  <2>3. /\ Len(links') = Depth
        /\ \A k \in 1..Depth : links'[k] = IF k = Depth THEN [Top EXCEPT !.resolved = TRUE]
                                                        ELSE links[k]
    BY <1>2, <2>1, <2>2, ExceptSeq
  <2> QED
    BY <2>3 DEF Depth
<1>6. Outcome([Top EXCEPT !.resolved = TRUE]) = outcome
  BY <1>2 DEF Outcome, ChainLink
<1>7. outcome \in Outcomes
  BY DEF Outcomes
<1> HIDE DEF outcome
<1>8. /\ seq \in Seq(Outcomes) /\ Len(seq) = Depth
      /\ \A k \in 1..Depth : seq[k] = IF k = Depth THEN outcome ELSE Image[k]
  BY <1>2, <1>4, <1>7, ExceptSeq
<1> HIDE DEF seq
<1>9. ASSUME NEW k \in 1..Depth PROVE seq[k] = Outcome(links'[k])
  <2>1. CASE k = Depth
    <3>1. links'[k] = [Top EXCEPT !.resolved = TRUE] /\ seq[k] = outcome
      BY <1>5, <1>8, <2>1
    <3> QED
      BY <1>6, <3>1
  <2>2. CASE k # Depth
    BY <1>4, <1>5, <1>8, <2>2
  <2> QED
    BY <2>1, <2>2
<1>10. Image' = [Image EXCEPT ![Len(Image)] = outcome]
  <2>1. Image' = seq
    BY <1>5, <1>8, <1>9, SameOutcomes DEF IInv
  <2> QED
    BY <1>4, <2>1 DEF seq
<1>11. Image # << >> /\ Image[Len(Image)] = "pending"
  <2>1. Image[Depth] = Outcome(Top)
    BY <1>2, <1>4 DEF Top
  <2> QED
    BY <1>2, <1>4, <2>1 DEF Outcome
<1>12. outcome \in {"executed", "negated"}
  BY DEF outcome
<1> QED
  BY <1>2, <1>3, <1>10, <1>11, <1>12 DEF Abstract!Settle, Abstract!Top, Phase, Image

\* The image is empty when the stack is.
LEMMA EmptyImage ==
  ASSUME TypeOK
  PROVE  links = << >> <=> Image = << >>
<1>1. links \in Seq(ChainLink) /\ Depth = Len(links)
  BY DEF TypeOK, Depth
<1>2. Image \in Seq(Outcomes) /\ Len(Image) = Depth
  BY ImageIsASequence
<1>3. Depth = 0 => links = << >> /\ Image = << >>
  BY <1>1, <1>2, EmptySeq
<1> QED
  BY <1>1, <1>2, <1>3

\* BEGIN, PASS, BEGIN_RESOLVE, END_RESOLVE and END change the phase only.
LEMMA FlagsImage ==
  ASSUME IInv, IInv', NEW f \in Drivers,
         Begin(f) \/ Pass(f) \/ BeginResolve(f) \/ EndResolve(f) \/ End(f)
  PROVE  Abstract!Next \/ UNCHANGED Abstract!vars
<1>1. links' = links
  BY DEF IInv, Shape, Begin, Pass, BeginResolve, EndResolve, End
<1>2. Image' = Image /\ (links = << >> <=> Image = << >>)
  BY <1>1, EmptyImage DEF IInv, Image, Depth, Outcome
<1>3. CASE Begin(f)
  <2>1. Image' = << >>
    BY <1>1, <1>2, <1>3 DEF Begin
  <2>2. Abstract!Open
    BY <1>3, <2>1 DEF Abstract!Open, Begin, Phase, Image
  <2> QED
    BY <2>2 DEF Abstract!Next
<1>4. CASE Pass(f)
  BY <1>2, <1>4 DEF Pass, Phase, Image, Abstract!vars
<1>5. CASE BeginResolve(f)
  <2>1. Abstract!Seal
    BY <1>2, <1>5 DEF Abstract!Seal, BeginResolve, Phase, Image
  <2> QED
    BY <2>1 DEF Abstract!Next
<1>6. CASE EndResolve(f)
  <2>1. Abstract!Reopen
    BY <1>2, <1>6 DEF Abstract!Reopen, EndResolve, Phase, Image
  <2> QED
    BY <2>1 DEF Abstract!Next
<1>7. CASE End(f)
  <2>1. Abstract!Close
    BY <1>2, <1>7 DEF Abstract!Close, End, Phase, Image
  <2> QED
    BY <2>1 DEF Abstract!Next
<1> QED
  BY <1>3, <1>4, <1>5, <1>6, <1>7

\* Every step of the chain is a step of the stack of outcomes, or none.
LEMMA StepImage ==
  ASSUME IInv, IInv', [Next]_vars
  PROVE  [Abstract!Next]_(Abstract!vars)
<1>1. CASE Quiet
  BY <1>1, QuietImage DEF Abstract!vars, Image
<1>2. CASE Settles
  BY <1>2, SettleImage DEF Abstract!Next
<1>3. ASSUME NEW f \in Drivers, Issue(f)
      PROVE  Abstract!Next \/ UNCHANGED Abstract!vars
  <2>1. CASE \E s \in Subjects, code \in Bodies : Push(f, s, code)
    BY <2>1, PushImage DEF Abstract!Next
  <2>2. CASE Pop(f)
    BY <2>2, PopImage DEF Abstract!Next
  <2>3. CASE Begin(f) \/ Pass(f) \/ BeginResolve(f) \/ EndResolve(f) \/ End(f)
    BY <2>3, FlagsImage
  <2> QED
    BY <1>3, <2>1, <2>2, <2>3 DEF Issue
<1>4. ASSUME NEW f \in Drivers, ResolveLink(f) \/ Body(f)
      PROVE  Quiet \/ Settles
  BY <1>4, ResolveIInv, BodyIInv
<1>5. CASE (\E f \in Drivers : Answer(f)) \/ (\E s \in Subjects : Negate(s))
  BY <1>1, <1>5, OutsideIInv
<1>6. CASE UNCHANGED vars
  BY <1>1, <1>6, StutterIInv
<1> QED
  BY <1>1, <1>2, <1>3, <1>4, <1>5, <1>6 DEF Next

\* The chain keeps the protocol of LinkStack: links are settled from the top, each
\* once and for good, for any drivers, bodies, budgets and negations.
THEOREM Implementation == Spec => ImplementsStack
<1>1. Init => Abstract!Init
  <2>1. SUFFICES ASSUME Init PROVE Abstract!Init
    OBVIOUS
  <2>2. TypeOK /\ links = << >>
    BY <2>1, InitIInv DEF IInv, Init
  <2>3. Image = << >>
    BY <2>2, EmptyImage
  <2> QED
    BY <2>1, <2>3 DEF Init, Abstract!Init, Phase, Image
<1>2. IInv /\ IInv' /\ [Next]_vars => [Abstract!Next]_(Abstract!vars)
  BY StepImage
<1> QED
  BY <1>1, <1>2, Invariance, PTL DEF Spec, ImplementsStack, Abstract!Spec
-----------------------------------------------------------------------------
(* Answers.  With one driver, what the host was shown is still what the    *)
(* body asks when the driver forwards the answer: as long as the driver    *)
(* holds a decision it stays at its RESOLVE_LINK, and the link on top      *)
(* stays at the CHOOSE that asked.                                         *)

Alone == \A d, e \in Drivers : d = e

\* The link is at a CHOOSE without an answer, and has asked d.
Asked(link, d) ==
  /\ link.decision = d /\ link.answer = NoDecision
  /\ link.pc <= Len(link.code) /\ link.code[link.pc] = "choose"
Pending(f) ==
  decision[f] # NoDecision => UnresolvedTop /\ status[f] # "free" /\ Asked(Top, decision[f])
Forwards(f) ==
  /\ answer[f] \in {NoDecision, decision[f]}
  /\ running = {f} => answer[f] = NoDecision
AInv == AnswerMeetsItsDecision /\ \A f \in Drivers : Pending(f) /\ Forwards(f)

\* l is the stack, but for what a NEGATE marks.
Alike(l) ==
  /\ l \in Seq(ChainLink) /\ Len(l) = Depth
  /\ \A k \in 1..Depth :
       /\ l[k].answer = links[k].answer /\ l[k].decision = links[k].decision
       /\ l[k].pc = links[k].pc /\ l[k].code = links[k].code
       /\ l[k].resolved = links[k].resolved

\* A NEGATE touches neither questions nor answers.
LEMMA MarkedAlike ==
  ASSUME IInv, NEW s \in Subjects
  PROVE  Alike(Marked(s))
<1> DEFINE l == Marked(s)
<1>1. DOMAIN links = 1..Depth /\ l \in Seq(ChainLink) /\ Len(l) = Depth
  BY MarkedWrites DEF IInv, TypeOK, Depth, Writes
<1>2. ASSUME NEW k \in 1..Depth
      PROVE  /\ l[k].answer = links[k].answer /\ l[k].decision = links[k].decision
             /\ l[k].pc = links[k].pc /\ l[k].code = links[k].code
             /\ l[k].resolved = links[k].resolved
  <2>1. links[k] \in ChainLink
    BY LinkFields DEF IInv
  <2>2. CASE k \in Match(s)
    <3>1. l[k] = [links[k] EXCEPT !.negated = TRUE,
                    !.late = IF links[k].negated THEN @ ELSE links[k].began]
      BY <1>1, <2>2 DEF Marked
    <3> QED
      BY <2>1, <3>1 DEF ChainLink
  <2>3. CASE k \notin Match(s)
    BY <1>1, <2>3 DEF Marked
  <2> QED
    BY <2>2, <2>3
<1> QED
  BY <1>1, <1>2 DEF Alike

\* Nor does a step that leaves the links alone.
LEMMA LinksAlike ==
  ASSUME IInv
  PROVE  Alike(links)
BY DEF IInv, TypeOK, Depth, Alike

\* When nothing is asked, nothing is forwarded.
LEMMA QuietAInv ==
  ASSUME \A g \in Drivers : decision'[g] = NoDecision /\ answer'[g] = NoDecision,
         \A k \in 1..Depth' : links'[k].answer \in {NoDecision, links'[k].decision}
  PROVE  AInv'
BY DEF AInv, AnswerMeetsItsDecision, Pending, Forwards

\* The next instruction of a body that has asked nothing.
LEMMA AdvanceAInv ==
  ASSUME Alone, IInv, AInv, NEW f \in Drivers, running = {f}, decision[f] = NoDecision,
         NEW from, Alike(from), NEW cost, Advance(from, cost)
  PROVE  AInv'
<1>1. UnresolvedTop
  BY DEF IInv, Shape
<1>2. Depth \in 1..Depth /\ Depth \in Nat
  BY <1>1, RunningTop
<1> DEFINE link == [from[Depth] EXCEPT !.pc = @ + 1, !.decision = NoDecision, !.answer = NoDecision]
<1>3. from \in Seq(ChainLink) /\ Len(from) = Depth /\ from[Depth] \in ChainLink
  BY <1>2 DEF Alike
<1>4. links' = [from EXCEPT ![Depth] = link]
  BY <1>2, <1>3 DEF Advance
<1>5. link.answer = NoDecision
  BY <1>3 DEF ChainLink
<1> HIDE DEF link
<1>6. Depth' = Depth /\ \A k \in 1..Depth : links'[k] = IF k = Depth THEN link ELSE from[k]
  <2>1. Len(links') = Depth
    BY <1>3, <1>4
  <2> QED
    BY <1>3, <1>4, <2>1 DEF Depth
<1>7. \A k \in 1..Depth' : links'[k].answer \in {NoDecision, links'[k].decision}
  BY <1>5, <1>6 DEF AInv, AnswerMeetsItsDecision, Alike
<1>8. \A g \in Drivers : decision'[g] = NoDecision /\ answer'[g] = NoDecision
  BY DEF Alone, AInv, Forwards, Advance, frames
<1> QED
  BY <1>7, <1>8, QuietAInv

\* What completes a link leaves no question and no answer with the driver.
LEMMA FinishAInv ==
  ASSUME Alone, IInv, AInv, NEW f \in Drivers, UnresolvedTop, Finish(f)
  PROVE  AInv'
<1>1. Depth \in 1..Depth /\ links \in Seq(ChainLink) /\ Len(links) = Depth /\ Top \in ChainLink
  BY RunningTop
<1> DEFINE link == [Top EXCEPT !.resolved = TRUE]
<1>2. links' = [links EXCEPT ![Depth] = link]
  BY <1>1 DEF Finish, Set, Top
<1>3. link.answer = Top.answer /\ link.decision = Top.decision
  BY <1>1 DEF ChainLink
<1> HIDE DEF link
<1>4. Depth' = Depth /\ \A k \in 1..Depth : links'[k] = IF k = Depth THEN link ELSE links[k]
  <2>1. Len(links') = Depth
    BY <1>1, <1>2
  <2> QED
    BY <1>1, <1>2, <2>1 DEF Depth
<1>5. \A k \in 1..Depth' : links'[k].answer \in {NoDecision, links'[k].decision}
  BY <1>3, <1>4 DEF AInv, AnswerMeetsItsDecision, Top
<1>6. \A g \in Drivers : decision'[g] = NoDecision /\ answer'[g] = NoDecision
  BY DEF Alone, IInv, TypeOK, Finish
<1> QED
  BY <1>5, <1>6, QuietAInv

\* A frame at an instruction of its own has nothing to answer.
LEMMA IssueAInv ==
  ASSUME Alone, IInv, AInv, NEW f \in Drivers, Issue(f)
  PROVE  AInv'
<1>1. CanIssue(f) /\ UNCHANGED frames
  BY DEF Issue, Begin, Push, Pass, BeginResolve, Pop, EndResolve, End
<1>2. decision[f] = NoDecision /\ answer[f] = NoDecision
  BY <1>1 DEF AInv, Pending, Forwards, CanIssue
<1>3. \A g \in Drivers : decision'[g] = NoDecision /\ answer'[g] = NoDecision
  BY <1>1, <1>2 DEF Alone, frames
<1>4. links \in Seq(ChainLink) /\ Depth = Len(links) /\ Depth \in Nat
  BY DEF IInv, TypeOK, Depth
<1>5. \A k \in 1..Depth : links[k].answer \in {NoDecision, links[k].decision}
  BY DEF AInv, AnswerMeetsItsDecision
<1>6. CASE links' = links
  BY <1>3, <1>5, <1>6, QuietAInv DEF Depth
<1>7. CASE links' = << >>
  <2>1. Depth' = 0
    BY <1>7 DEF Depth
  <2> QED
    BY <1>3, <2>1, QuietAInv
<1>8. ASSUME NEW s \in Subjects, NEW code \in Bodies, Push(f, s, code) PROVE AInv'
  <2> DEFINE link == NewLink(s, code)
  <2>1. links' = Append(links, link) /\ link.answer = NoDecision
    BY <1>8 DEF Push, NewLink
  <2> HIDE DEF link
  <2>2. Depth' = Depth + 1 /\ \A k \in 1..Depth + 1 : links'[k] = IF k = Depth + 1 THEN link ELSE links[k]
    BY <1>4, <2>1 DEF Depth
  <2>3. \A k \in 1..Depth' : links'[k].answer \in {NoDecision, links'[k].decision}
    BY <1>4, <1>5, <2>1, <2>2
  <2> QED
    BY <1>3, <2>3, QuietAInv
<1>9. CASE Pop(f)
  <2>1. links' = SubSeq(links, 1, Depth - 1) /\ links # << >>
    BY <1>9 DEF Pop, CanPop
  <2>2. Depth \in Nat \ {0}
    BY <1>4, <2>1, EmptySeq
  <2>3. Depth' = Depth - 1 /\ \A k \in 1..(Depth - 1) : links'[k] = links[k]
    <3>1. (\A k \in 1..(Depth - 1) : links[k] \in ChainLink) /\ 1 \in Int /\ Depth - 1 \in Int
      BY <1>4, <2>2
    <3>2. /\ Len(SubSeq(links, 1, Depth - 1)) = IF 1 <= Depth - 1 THEN (Depth - 1) - 1 + 1 ELSE 0
          /\ \A k \in 1..((Depth - 1) - 1 + 1) : SubSeq(links, 1, Depth - 1)[k] = links[1 + k - 1]
      BY <3>1, SubSeqProperties
    <3>3. Len(links') = Depth - 1
      BY <2>1, <2>2, <3>2
    <3>4. \A k \in 1..(Depth - 1) : links'[k] = links[k]
      BY <2>1, <2>2, <3>2
    <3> QED
      BY <3>3, <3>4 DEF Depth
  <2>4. \A k \in 1..Depth' : links'[k].answer \in {NoDecision, links'[k].decision}
    BY <1>5, <2>2, <2>3
  <2> QED
    BY <1>3, <2>4, QuietAInv
<1> QED
  BY <1>6, <1>7, <1>8, <1>9 DEF Issue, Begin, Pass, BeginResolve, EndResolve, End
\* A step that leaves questions and answers where they are.
LEMMA KeepAInv ==
  ASSUME IInv, AInv, Alike(links'), UNCHANGED <<active, resolving, decision, answer>>,
         \A g \in Drivers : status[g] # "free" => status'[g] # "free",
         running' \in {{}, running}
  PROVE  AInv'
<1>1. Depth' = Depth /\ links' \in Seq(ChainLink)
  BY DEF Alike, Depth
<1>2. AnswerMeetsItsDecision'
  BY <1>1 DEF AInv, AnswerMeetsItsDecision, Alike
<1>3. ASSUME NEW g \in Drivers PROVE Forwards(g)'
  BY DEF AInv, Forwards
<1>4. ASSUME NEW g \in Drivers PROVE Pending(g)'
  <2>1. CASE decision[g] = NoDecision
    BY <2>1 DEF Pending
  <2>2. CASE decision[g] # NoDecision
    <3>1. UnresolvedTop /\ status[g] # "free" /\ Asked(Top, decision[g])
      BY <2>2 DEF AInv, Pending
    <3>2. Depth \in 1..Depth /\ links # << >> /\ links \in Seq(ChainLink)
      BY <3>1, RunningTop DEF UnresolvedTop
    <3>3. Top' = links'[Depth]
      BY <1>1 DEF Top
    <3>4. /\ Top'.answer = Top.answer /\ Top'.decision = Top.decision
          /\ Top'.pc = Top.pc /\ Top'.code = Top.code /\ Top'.resolved = Top.resolved
      BY <3>2, <3>3 DEF Alike, Top
    <3>5. links' # << >>
      BY <1>1, <3>2 DEF Depth
    <3>6. UnresolvedTop'
      BY <3>1, <3>4, <3>5 DEF UnresolvedTop
    <3>7. Asked(Top, decision[g])'
      BY <3>1, <3>4 DEF Asked
    <3> QED
      BY <3>1, <3>6, <3>7 DEF Pending
  <2> QED
    BY <2>1, <2>2
<1> QED
  BY <1>2, <1>3, <1>4 DEF AInv

\* RESOLVE_LINK forwards the answer to the body that asked for it.
LEMMA EnterAInv ==
  ASSUME Alone, IInv, AInv, NEW f \in Drivers, NEW budget \in Budgets, ResolveEnter(f, budget)
  PROVE  AInv'
<1>1. UnresolvedTop /\ UNCHANGED <<active, resolving, status>>
  BY DEF ResolveEnter
<1>2. Depth \in 1..Depth /\ links \in Seq(ChainLink) /\ Len(links) = Depth /\ Top \in ChainLink
  BY <1>1, RunningTop
<1> DEFINE link == [Top EXCEPT !.answer = Forwarded(f), !.began = TRUE]
<1>3. links' = [links EXCEPT ![Depth] = link]
  BY <1>2 DEF ResolveEnter, Top
<1>4. /\ link.answer = Forwarded(f) /\ link.decision = Top.decision
      /\ link.pc = Top.pc /\ link.code = Top.code /\ link.resolved = Top.resolved
  BY <1>2 DEF ChainLink
<1> HIDE DEF link
<1>5. /\ Depth' = Depth /\ links' # << >>
      /\ \A k \in 1..Depth : links'[k] = IF k = Depth THEN link ELSE links[k]
  <2>1. Len(links') = Depth
    BY <1>2, <1>3
  <2> QED
    BY <1>2, <1>3, <2>1 DEF Depth
<1>6. answer'[f] = NoDecision
  BY DEF IInv, TypeOK, ResolveEnter, Kept
<1>7. \A g \in Drivers : g = f
  BY DEF Alone
<1>8. answer[f] \in {NoDecision, decision[f]}
  BY DEF AInv, Forwards
<1>9. CASE answer[f] # NoDecision
  <2>1. decision'[f] = NoDecision
    BY <1>9 DEF IInv, TypeOK, ResolveEnter
  <2>2. Top.decision = answer[f]
    BY <1>8, <1>9 DEF AInv, Pending, Asked
  <2>3. link.answer = link.decision
    BY <1>4, <1>9, <2>2 DEF Forwarded
  <2>4. \A k \in 1..Depth' : links'[k].answer \in {NoDecision, links'[k].decision}
    BY <1>5, <2>3 DEF AInv, AnswerMeetsItsDecision
  <2> QED
    BY <1>6, <1>7, <2>1, <2>4, QuietAInv
<1>10. CASE answer[f] = NoDecision
  <2>1. decision'[f] = decision[f]
    BY <1>10 DEF IInv, TypeOK, ResolveEnter
  <2>2. link.answer = Top.answer
    BY <1>4, <1>10 DEF Forwarded
  <2>3. AnswerMeetsItsDecision'
    BY <1>4, <1>5, <2>2 DEF AInv, AnswerMeetsItsDecision, Top
  <2>4. Top' = link
    BY <1>2, <1>5 DEF Top
  <2>5. UnresolvedTop'
    BY <1>1, <1>4, <1>5, <2>4 DEF UnresolvedTop
  <2>6. decision[f] # NoDecision => status[f] # "free" /\ Asked(Top, decision[f])
    BY DEF AInv, Pending
  <2>7. decision[f] # NoDecision => Asked(link, decision[f])
    BY <1>4, <2>2, <2>6 DEF Asked
  <2>8. Pending(f)'
    BY <1>1, <2>1, <2>4, <2>5, <2>6, <2>7 DEF Pending
  <2>9. Forwards(f)'
    BY <1>6 DEF Forwards
  <2> QED
    BY <1>7, <2>3, <2>8, <2>9 DEF AInv
<1> QED
  BY <1>9, <1>10

\* A body asks the question that its driver shows.
LEMMA AsksAInv ==
  ASSUME Alone, IInv, AInv, NEW f \in Drivers, BodyAsks(f)
  PROVE  AInv'
<1>1. running = {f} /\ UnresolvedTop
  BY DEF IInv, Shape, BodyAsks, AtInstruction
<1>2. Depth \in 1..Depth /\ links \in Seq(ChainLink) /\ Len(links) = Depth /\ Top \in ChainLink
  BY <1>1, RunningTop
<1> DEFINE asked == IF Top.decision = NoDecision THEN <<Top.id, Top.pc>> ELSE Top.decision
           link == [Top EXCEPT !.decision = asked]
<1>3. links' = [links EXCEPT ![Depth] = link] /\ decision' = [decision EXCEPT ![f] = asked]
  BY <1>2 DEF BodyAsks, Set, Top
<1> HIDE DEF asked
<1>4. /\ link.answer = Top.answer /\ link.decision = asked
      /\ link.pc = Top.pc /\ link.code = Top.code /\ link.resolved = Top.resolved
  BY <1>2 DEF ChainLink
<1> HIDE DEF link
<1>5. /\ Depth' = Depth /\ links' # << >>
      /\ \A k \in 1..Depth : links'[k] = IF k = Depth THEN link ELSE links[k]
  <2>1. Len(links') = Depth
    BY <1>2, <1>3
  <2> QED
    BY <1>2, <1>3, <2>1 DEF Depth
<1>6. /\ Top.answer = NoDecision /\ Top.pc <= Len(Top.code) /\ Top.code[Top.pc] = "choose"
  BY DEF BodyAsks, AtInstruction
<1>7. AnswerMeetsItsDecision'
  BY <1>4, <1>5, <1>6 DEF AInv, AnswerMeetsItsDecision
<1>8. Top' = link
  BY <1>2, <1>5 DEF Top
<1>9. UNCHANGED <<active, resolving, answer>> /\ status' = [status EXCEPT ![f] = "suspended"]
  BY DEF BodyAsks, Return
<1>10. UnresolvedTop'
  BY <1>1, <1>4, <1>5, <1>8, <1>9 DEF UnresolvedTop
<1>11. decision'[f] = asked /\ status'[f] = "suspended"
  BY <1>3, <1>9 DEF IInv, TypeOK
<1>12. Asked(link, asked)
  BY <1>4, <1>6 DEF Asked
<1>13. Pending(f)'
  BY <1>8, <1>10, <1>11, <1>12 DEF Pending
<1>14. Forwards(f)'
  BY <1>1, <1>9 DEF AInv, Forwards
<1> QED
  BY <1>7, <1>13, <1>14 DEF Alone, AInv

\* The other instructions of a body: none is passed that waits for an answer.
LEMMA BodyAInv ==
  ASSUME Alone, IInv, AInv, NEW f \in Drivers, Body(f)
  PROVE  AInv'
<1>1. running = {f} => UnresolvedTop
  BY DEF IInv, Shape
<1>2. decision[f] # NoDecision => Asked(Top, decision[f])
  BY DEF AInv, Pending
<1>3. Alike(links)
  BY LinksAlike
<1>4. CASE BodyPlain(f) \/ BodyChooses(f) \/ BodyCommits(f)
  <2>1. running = {f} /\ decision[f] = NoDecision
    BY <1>2, <1>4 DEF BodyPlain, BodyChooses, BodyCommits, AtInstruction, Asked, Commits
  <2>2. \E cost : Advance(links, cost)
    BY <1>4 DEF BodyPlain, BodyChooses, BodyCommits
  <2> QED
    BY <1>3, <2>1, <2>2, AdvanceAInv
<1>5. CASE BodyAsks(f)
  BY <1>5, AsksAInv
<1>6. ASSUME NEW s \in Subjects, BodyNegates(f, s) PROVE AInv'
  <2>1. running = {f} /\ decision[f] = NoDecision
    BY <1>2, <1>6 DEF BodyNegates, AtInstruction, Asked
  <2>2. CASE Advance(Marked(s), 1)
    BY <2>1, <2>2, MarkedAlike, AdvanceAInv
  <2>3. CASE links' = Marked(s) /\ Return(f, "faulted") /\ UNCHANGED decision
    BY <2>3, MarkedAlike, KeepAInv DEF Return, IInv, TypeOK
  <2> QED
    BY <1>6, <2>2, <2>3 DEF BodyNegates
<1>7. CASE BodyCommitStarves(f) \/ BodyAwaits(f) \/ BodyFaults(f) \/ BodyStarves(f)
  <2>1. /\ Return(f, "suspended") \/ Return(f, "faulted")
        /\ UNCHANGED <<links, decision>>
    BY <1>7 DEF BodyCommitStarves, BodyAwaits, BodyFaults, BodyStarves
  <2> QED
    BY <1>3, <2>1, KeepAInv DEF Return, IInv, TypeOK
<1>8. CASE BodyEnds(f)
  BY <1>1, <1>8, FinishAInv DEF BodyEnds
<1> QED
  BY <1>4, <1>5, <1>6, <1>7, <1>8 DEF Body

\* Every step of a chain with one driver.
LEMMA NextAInv ==
  ASSUME Alone, IInv, AInv, [Next]_vars
  PROVE  AInv'
<1>1. ASSUME NEW f \in Drivers, Issue(f) PROVE AInv'
  BY <1>1, IssueAInv
<1>2. ASSUME NEW f \in Drivers, ResolveLink(f) PROVE AInv'
  <2>1. CASE ResolveSkip(f)
    BY <2>1, FinishAInv DEF ResolveSkip
  <2>2. CASE \E budget \in Budgets : ResolveEnter(f, budget)
    BY <2>2, EnterAInv
  <2>3. CASE ResolveFault(f)
    <3>1. /\ UNCHANGED <<active, resolving, links, running, decision, answer>>
          /\ status' = [status EXCEPT ![f] = "faulted"]
      BY <2>3 DEF ResolveFault, stack
    <3> QED
      BY <3>1, LinksAlike, KeepAInv DEF IInv, TypeOK
  <2> QED
    BY <1>2, <2>1, <2>2, <2>3 DEF ResolveLink
<1>3. ASSUME NEW f \in Drivers, Body(f) PROVE AInv'
  BY <1>3, BodyAInv
<1>4. ASSUME NEW f \in Drivers, Answer(f) PROVE AInv'
  <2>1. /\ UNCHANGED <<active, resolving, links, running, status, decision>>
        /\ running = {} /\ answer' = [answer EXCEPT ![f] = decision[f]]
    BY <1>4 DEF Answer, stack
  <2>2. ASSUME NEW g \in Drivers PROVE Pending(g)'
    BY <2>1 DEF AInv, Pending, UnresolvedTop, Top, Depth
  <2>3. ASSUME NEW g \in Drivers PROVE Forwards(g)'
    BY <2>1 DEF AInv, Forwards, IInv, TypeOK
  <2>4. AnswerMeetsItsDecision'
    BY <2>1 DEF AInv, AnswerMeetsItsDecision, Depth
  <2> QED
    BY <2>2, <2>3, <2>4 DEF AInv
<1>5. ASSUME NEW s \in Subjects, Negate(s) PROVE AInv'
  BY <1>5, MarkedAlike, KeepAInv DEF Negate, frames
<1>6. CASE UNCHANGED vars
  BY <1>6, LinksAlike, KeepAInv DEF vars, stack, frames
<1> QED
  BY <1>1, <1>2, <1>3, <1>4, <1>5, <1>6 DEF Next

\* An answer reaches the CHOOSE that the host saw when it gave it, although it travels
\* through the driver's frame and links may be negated meanwhile, when one frame drives
\* the chain (Frame::Answer, RESOLVE_LINK).
THEOREM AnswersMeetTheirDecisions ==
  ASSUME Alone
  PROVE  Spec => []AnswerMeetsItsDecision
<1>1. Init => AInv
  BY DEF Init, AInv, AnswerMeetsItsDecision, Pending, Forwards, Depth
<1>2. IInv /\ AInv /\ [Next]_vars => AInv'
  BY NextAInv
<1>3. AInv => AnswerMeetsItsDecision
  BY DEF AInv
<1> QED
  BY <1>1, <1>2, <1>3, Invariance, PTL DEF Spec
=============================================================================

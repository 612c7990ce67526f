-------------------------- MODULE SchedulerProofs --------------------------
(***************************************************************************)
(* Scheduler, for any number of ids, kinds, times and calls: what is       *)
(* queued is what the history of calls prescribes, in the right order.     *)
(***************************************************************************)
EXTENDS Scheduler, FiniteSetTheorems, SequenceTheorems, TLAPS

USE SchedulerAssumption DEF Ids

\* Frames are queued for registered ids, by calls that have happened.
QueueOK ==
  /\ Len(history) <= MaxHistory
  /\ \A i \in DOMAIN queue : queue[i].id < next /\ queue[i].cause <= Len(history)

\* A registration is in entries_ until it is cancelled or, as a timer, due.
LiveOK ==
  \A id \in Ids :
    /\ ~Registered(id) => until[id] = MaxHistory
    /\ Registered(id) => since[id] <= Len(history) /\ entry[id] \in Entry
    /\ id \in entries =>
         until[id] = MaxHistory /\ \A g \in 1..Len(history) : ~DueAt(id, g)
    /\ Registered(id) /\ id \notin entries =>
         until[id] <= Len(history) \/ \E g \in 1..Len(history) : DueAt(id, g)

\* The order of two frames that one call queued.
Precedes(i, j) ==
  IF history[queue[i].cause].kind = "event" THEN queue[i].id < queue[j].id
  ELSE Before(queue[i].id, queue[j].id)
Ordered ==
  \A i, j \in DOMAIN queue : i < j =>
    /\ queue[i].cause <= queue[j].cause
    /\ queue[i].cause = queue[j].cause => Precedes(i, j)

Called(h) == {queue[i].id : i \in CausedBy(h)}
CalledExactly == \A h \in 1..Len(history) : Called(h) = Expected(h)

IInv ==
  /\ TypeOK
  /\ QueueOK
  /\ LiveOK
  /\ Ordered
  /\ CalledExactly
  /\ OneShotUnregistered

-----------------------------------------------------------------------------
(* Sequences.                                                              *)

Queued == [id: Ids, cause: 1..MaxHistory, stage: {"queued", "held", "body"}]

\* A function from 1..k is a sequence of that length.
LEMMA Listed ==
  ASSUME NEW Elements, NEW k \in Nat, NEW f \in [1..k -> Elements]
  PROVE  f \in Seq(Elements) /\ Len(f) = k
<1>1. f \in Seq(Elements)
  BY SeqDef
<1> QED
  BY <1>1

\* What the types say of the two sequences.
LEMMA Shapes ==
  ASSUME TypeOK
  PROVE  /\ Len(queue) \in Nat /\ queue \in [1..Len(queue) -> Queued] /\ DOMAIN queue = 1..Len(queue)
         /\ Len(history) \in Nat /\ history \in [1..Len(history) -> Events \cup Ticks]
         /\ next \in Nat \ {0}
<1>1. queue \in Seq(Queued) /\ history \in Seq(Events \cup Ticks)
  BY DEF TypeOK, Queued
<1>2. next \in Nat \ {0}
  BY DEF TypeOK
<1> QED
  BY <1>1, <1>2, LenProperties

\* Keys are numbers.
LEMMA Keys ==
  ASSUME TypeOK, NEW id \in Ids
  PROVE  entry[id].key \in Nat
<1>1. entry[id] \in Entry \cup {Unused}
  BY DEF TypeOK
<1>2. CASE entry[id] \in Entry
  BY <1>2 DEF Entry
<1>3. CASE entry[id] = Unused
  BY <1>3 DEF Unused
<1> QED
  BY <1>1, <1>2, <1>3

\* No registration comes before itself.
LEMMA Irreflexive ==
  ASSUME TypeOK, NEW id \in Ids
  PROVE  ~(id < id) /\ ~Before(id, id)
<1>1. entry[id].key \in Nat /\ id \in Int
  BY Keys
<1> QED
  BY <1>1 DEF Before

\* So is the kind or the time of a call.
LEMMA CallKeys ==
  ASSUME NEW call \in Events \cup Ticks
  PROVE  call.key \in Nat
<1>1. CASE call \in [kind: {"event"}, key: Kinds]
  BY <1>1
<1>2. CASE call \in [kind: {"time"}, key: Times]
  BY <1>2
<1> QED
  BY <1>1, <1>2 DEF Events, Ticks

\* s lists k ids, all different, and there are k of them.
Lists(ids, k, s) ==
  /\ k = Cardinality(ids) /\ s \in [1..k -> ids]
  /\ \A i, j \in DOMAIN s : i < j => s[i] # s[j]

\* Such a list meets every id.
LEMMA Enumerates ==
  ASSUME NEW ids \in SUBSET Ids, NEW k, NEW s, Lists(ids, k, s)
  PROVE  k \in Nat /\ \A id \in ids : \E i \in 1..k : s[i] = id
<1>0. k = Cardinality(ids) /\ s \in [1..k -> ids] /\ \A i, j \in DOMAIN s : i < j => s[i] # s[j]
  BY DEF Lists
<1>1. IsFiniteSet(ids) /\ k \in Nat
  <2>1. IsFiniteSet(1..MaxId)
    BY FS_Interval
  <2> QED
    BY <1>0, <2>1, FS_Subset, FS_CardinalityType
<1>2. IsFiniteSet(1..k) /\ Cardinality(1..k) = k
  BY <1>1, FS_Interval
<1>3. s \in Injection(1..k, ids)
  BY <1>0, <1>1 DEF Injection, IsInjective
<1>4. s \in Surjection(1..k, ids)
  BY <1>0, <1>1, <1>2, <1>3, FS_Injection
<1> QED
  BY <1>1, <1>4 DEF Surjection

-----------------------------------------------------------------------------
(* Steps.                                                                  *)

\* The h-th call queues the frames of ids, in the order s.
Calls(h, call, ids, k, s) ==
  /\ h = Len(history) + 1 /\ h <= MaxHistory
  /\ k = Cardinality(ids) /\ s \in [1..k -> ids]
  /\ history' = Append(history, call)
  /\ \A id \in ids : id < next
  /\ \A i, j \in DOMAIN s : i < j =>
       IF call.kind = "event" THEN s[i] < s[j] ELSE Before(s[i], s[j])
  /\ queue' = queue \o Copies(s)
  /\ UNCHANGED <<next, entry, since, until>>

\* What a call does to the two sequences.
LEMMA CallAppends ==
  ASSUME IInv, NEW h \in Nat, NEW call \in Events \cup Ticks, NEW ids \in SUBSET Ids,
         NEW k \in Nat, NEW s, Calls(h, call, ids, k, s)
  PROVE  /\ history' \in Seq(Events \cup Ticks) /\ Len(history') = h /\ history'[h] = call
         /\ \A g \in 1..h - 1 : history'[g] = history[g]
         /\ queue' \in Seq(Queued) /\ DOMAIN queue' = 1..Len(queue) + k
         /\ \A i \in 1..Len(queue) : queue'[i] = queue[i]
         /\ \A i \in Len(queue) + 1..Len(queue) + k :
              /\ i - Len(queue) \in 1..k /\ queue'[i].id = s[i - Len(queue)]
              /\ queue'[i].cause = h /\ queue'[i].stage = "queued"
<1> DEFINE old == Len(queue)
<1>1. /\ old \in Nat /\ queue \in [1..old -> Queued] /\ DOMAIN queue = 1..old
      /\ Len(history) \in Nat /\ s \in [1..k -> ids] /\ DOMAIN s = 1..k
  BY Shapes DEF IInv, Calls
<1>2. h = Len(history) + 1 /\ h \in 1..MaxHistory /\ history' = Append(history, call)
      /\ queue' = queue \o Copies(s)
  BY <1>1 DEF Calls
<1>3. Copies(s) \in [1..k -> Queued]
  BY <1>1, <1>2 DEF Copies, Queued
<1>4. Copies(s) \in Seq(Queued) /\ queue \in Seq(Queued) /\ Len(Copies(s)) = k
  BY <1>1, <1>3, Listed
<1>5. /\ queue' \in Seq(Queued) /\ Len(queue') = old + k
      /\ \A i \in 1..old + k : queue'[i] = IF i <= old THEN queue[i] ELSE Copies(s)[i - old]
  BY <1>2, <1>4, ConcatProperties
<1>6. DOMAIN queue' = 1..old + k
  BY <1>5, LenProperties
<1>7. \A i \in 1..old : queue'[i] = queue[i]
  BY <1>1, <1>5
<1>8. ASSUME NEW i \in old + 1..old + k
      PROVE  /\ i - old \in 1..k /\ queue'[i].id = s[i - old]
             /\ queue'[i].cause = h /\ queue'[i].stage = "queued"
  <2>1. i \in 1..old + k /\ ~(i <= old) /\ i - old \in 1..k
    BY <1>1
  <2>2. queue'[i] = Copies(s)[i - old]
    BY <1>5, <2>1
  <2> QED
    BY <2>1, <2>2, <1>1, <1>2 DEF Copies
<1>9. history \in Seq(Events \cup Ticks)
  BY DEF IInv, TypeOK
<1>10. /\ history' \in Seq(Events \cup Ticks) /\ Len(history') = h /\ history'[h] = call
       /\ \A g \in 1..h - 1 : history'[g] = history[g]
  BY <1>1, <1>2, <1>9
<1> QED
  BY <1>5, <1>6, <1>7, <1>8, <1>10

\* A call that is expected to call the ids it queues keeps the queue right.
LEMMA CallIInv ==
  ASSUME IInv, NEW h \in Nat, NEW call \in Events \cup Ticks, NEW ids \in SUBSET Ids,
         NEW k, NEW s, Calls(h, call, ids, k, s), Expected(h)' = ids
  PROVE  /\ queue' \in Seq(Queued) /\ history' \in Seq(Events \cup Ticks)
         /\ QueueOK' /\ Ordered' /\ CalledExactly'
         /\ \A i \in DOMAIN queue' : queue'[i].stage = "body" =>
              \E j \in DOMAIN queue : queue[j].stage = "body" /\ queue[j].id = queue'[i].id
<1> DEFINE old == Len(queue)
<1>2. \A i, j \in DOMAIN s : i < j => IF call.kind = "event" THEN s[i] < s[j] ELSE Before(s[i], s[j])
  BY DEF Calls
<1>15. k = Cardinality(ids) /\ s \in [1..k -> ids]
  BY DEF Calls
<1>3. \A i, j \in DOMAIN s : i < j => s[i] # s[j]
  <2> SUFFICES ASSUME NEW i \in DOMAIN s, NEW j \in DOMAIN s, i < j PROVE s[i] # s[j]
    OBVIOUS
  <2>1. s[i] \in ids /\ s[j] \in ids
    BY <1>15
  <2>2. s[i] < s[j] \/ Before(s[i], s[j])
    BY <1>2
  <2>3. TypeOK /\ s[i] \in Ids
    BY <2>1 DEF IInv
  <2> QED
    BY <2>2, <2>3, Irreflexive
<1>4. k \in Nat /\ \A id \in ids : \E i \in 1..k : s[i] = id
  <2>1. Lists(ids, k, s)
    BY <1>3, <1>15 DEF Lists
  <2> QED
    BY <2>1, Enumerates
<1>5. s \in [1..k -> ids]
  BY <1>15
<1>6. /\ history' \in Seq(Events \cup Ticks) /\ Len(history') = h /\ history'[h] = call
      /\ \A g \in 1..h - 1 : history'[g] = history[g]
      /\ queue' \in Seq(Queued) /\ DOMAIN queue' = 1..old + k
      /\ \A i \in 1..old : queue'[i] = queue[i]
      /\ \A i \in old + 1..old + k : /\ i - old \in 1..k /\ queue'[i].id = s[i - old]
                                     /\ queue'[i].cause = h /\ queue'[i].stage = "queued"
  BY <1>4, CallAppends
<1>7. /\ old \in Nat /\ queue \in [1..old -> Queued] /\ DOMAIN queue = 1..old
      /\ Len(history) \in Nat /\ DOMAIN s = 1..k /\ h = Len(history) + 1
  BY <1>5, Shapes DEF IInv, Calls
<1>8. \A i \in 1..old : queue[i].cause \in 1..h - 1 /\ queue[i].id \in Ids /\ queue[i].id < next
  BY <1>7 DEF IInv, QueueOK, Queued
<1>9. next' = next /\ entry' = entry /\ since' = since /\ until' = until /\ \A id \in ids : id < next
  BY DEF Calls
<1> HIDE DEF old
<1>14. h <= MaxHistory
  BY DEF Calls
<1>10. QueueOK'
  <2> SUFFICES ASSUME NEW i \in 1..old + k
               PROVE  queue'[i].id < next' /\ queue'[i].cause <= Len(history')
    BY <1>6, <1>14 DEF QueueOK
  <2>1. CASE i <= old
    <3>1. i \in 1..old /\ next' = next
      BY <2>1, <1>7, <1>9
    <3>2. queue'[i] = queue[i]
      BY <3>1, <1>6
    <3> QED
      BY <3>1, <3>2, <1>6, <1>8
  <2>2. CASE ~(i <= old)
    <3>1. i \in old + 1..old + k
      BY <2>2, <1>4, <1>7
    <3>2. i - old \in 1..k /\ queue'[i].id = s[i - old] /\ queue'[i].cause = h
      BY <3>1, <1>6
    <3>3. s[i - old] \in ids
      BY <3>2, <1>5
    <3>4. s[i - old] < next'
      BY <3>3, <1>9
    <3> QED
      BY <3>2, <3>4, <1>6
  <2> QED
    BY <2>1, <2>2
<1>11. Ordered'
  <2> SUFFICES ASSUME NEW i \in 1..old + k, NEW j \in 1..old + k, i < j
               PROVE  /\ queue'[i].cause <= queue'[j].cause
                      /\ queue'[i].cause = queue'[j].cause => Precedes(i, j)'
    BY <1>6 DEF Ordered
  <2>1. CASE j <= old
    <3>1. i \in 1..old /\ j \in 1..old
      BY <2>1, <1>7
    <3>2. /\ queue[i].cause <= queue[j].cause
          /\ queue[i].cause = queue[j].cause => Precedes(i, j)
      BY <3>1, <1>7 DEF IInv, Ordered
    <3>3. Precedes(i, j)' <=> Precedes(i, j)
      BY <3>1, <1>6, <1>8, <1>9 DEF Precedes, Before
    <3> QED
      BY <3>1, <3>2, <3>3, <1>6
  <2>2. CASE i <= old /\ ~(j <= old)
    <3>1. i \in 1..old /\ j \in old + 1..old + k
      BY <2>2, <1>4, <1>7
    <3> QED
      BY <3>1, <1>6, <1>7, <1>8
  <2>3. CASE ~(i <= old)
    <3>1. /\ i \in old + 1..old + k /\ j \in old + 1..old + k
          /\ i - old \in DOMAIN s /\ j - old \in DOMAIN s /\ i - old < j - old
      BY <2>3, <1>4, <1>7
    <3>2. IF call.kind = "event" THEN s[i - old] < s[j - old] ELSE Before(s[i - old], s[j - old])
      BY <3>1, <1>2
    <3> QED
      BY <3>1, <3>2, <1>6, <1>9 DEF Precedes, Before
  <2> QED
    BY <2>1, <2>2, <2>3
<1>12. CalledExactly'
  <2> SUFFICES ASSUME NEW g \in 1..h PROVE Called(g)' = Expected(g)'
    BY <1>6 DEF CalledExactly
  <2>1. CASE g = h
    <3>1. ASSUME NEW i \in 1..old + k, queue'[i].cause = h PROVE queue'[i].id \in ids
      <4>1. i \notin 1..old
        BY <3>1, <1>6, <1>7, <1>8
      <4>2. i \in old + 1..old + k
        BY <4>1, <1>4, <1>7
      <4>3. i - old \in 1..k /\ queue'[i].id = s[i - old]
        BY <4>2, <1>6
      <4> QED
        BY <4>3, <1>5
    <3>2. \A id \in ids : \E i \in 1..old + k : queue'[i].cause = h /\ queue'[i].id = id
      <4> SUFFICES ASSUME NEW id \in ids
                   PROVE  \E i \in 1..old + k : queue'[i].cause = h /\ queue'[i].id = id
        OBVIOUS
      <4>1. PICK i \in 1..k : s[i] = id
        BY <1>4
      <4>2. i + old \in old + 1..old + k /\ i + old \in 1..old + k /\ (i + old) - old = i
        BY <1>4, <1>7
      <4> QED
        BY <4>1, <4>2, <1>6
    <3>3. Called(h)' = ids
      <4>1. CausedBy(h)' = {i \in 1..old + k : queue'[i].cause = h}
        BY <1>6 DEF CausedBy
      <4>2. Called(h)' = {queue'[i].id : i \in CausedBy(h)'}
        BY DEF Called
      <4>3. ids \subseteq Called(h)'
        BY <4>1, <4>2, <3>2
      <4>4. Called(h)' \subseteq ids
        BY <4>1, <4>2, <3>1
      <4> QED
        BY <4>3, <4>4
    <3> QED
      BY <3>3, <2>1
  <2>2. CASE g # h
    <3>1. g \in 1..h - 1 /\ g \in 1..Len(history)
      BY <2>2, <1>7
    <3>2. CausedBy(g)' = CausedBy(g) /\ CausedBy(g) \subseteq 1..old
      <4>1. \A i \in old + 1..old + k : queue'[i].cause # g
        BY <2>2, <1>6
      <4>2. \A i \in 1..old + k : i \in 1..old \/ i \in old + 1..old + k
        BY <1>4, <1>7
      <4>3. 1..old \subseteq 1..old + k
        BY <1>4, <1>7
      <4> QED
        BY <4>1, <4>2, <4>3, <1>6, <1>7 DEF CausedBy
    <3>3. Called(g)' = Called(g)
      BY <3>2, <1>6 DEF Called
    <3>4. Expected(g)' = Expected(g)
      <4>1. \A id \in 1..next - 1 : \A f \in 1..g : DueAt(id, f)' = DueAt(id, f)
        BY <3>1, <1>6, <1>9 DEF DueAt
      <4> QED
        BY <4>1, <3>1, <1>6, <1>9 DEF Expected
    <3> QED
      BY <3>1, <3>3, <3>4 DEF IInv, CalledExactly
  <2> QED
    BY <2>1, <2>2
<1>13. \A i \in DOMAIN queue' : queue'[i].stage = "body" =>
         \E j \in DOMAIN queue : queue[j].stage = "body" /\ queue[j].id = queue'[i].id
  <2> SUFFICES ASSUME NEW i \in 1..old + k, queue'[i].stage = "body"
               PROVE  \E j \in DOMAIN queue : queue[j].stage = "body" /\ queue[j].id = queue'[i].id
    BY <1>6
  <2>1. i \in 1..old
    BY <1>4, <1>6, <1>7
  <2> QED
    BY <2>1, <1>6, <1>7
<1> QED
  BY <1>6, <1>10, <1>11, <1>12, <1>13

\* The registrations that a call is for.
Addressees(call) ==
  {id \in entries :
     \/ call.kind = "event" /\ entry[id].kind = "event" /\ entry[id].key = call.key
     \/ call.kind = "time" /\ entry[id].kind = "time" /\ entry[id].key <= call.key}

\* The history expects the call to reach the registrations in entries_ that it is for, and a
\* timer is due when it is one of them.
LEMMA CallExpected ==
  ASSUME IInv, NEW call \in Events \cup Ticks, NEW h \in Nat, h = Len(history) + 1, h <= MaxHistory,
         history' = Append(history, call), UNCHANGED <<next, entry, since, until>>
  PROVE  /\ Expected(h)' = Addressees(call)
         /\ \A id \in entries : DueAt(id, h)' <=> (call.kind = "time" /\ id \in Addressees(call))
         /\ \A id \in Ids : \A g \in 1..h - 1 : DueAt(id, g)' = DueAt(id, g)
<1>1. /\ Len(history) \in Nat /\ history \in Seq(Events \cup Ticks)
      /\ entries \subseteq 1..next - 1 /\ next \in 1..MaxId + 1
      /\ next' = next /\ entry' = entry /\ since' = since /\ until' = until
  BY Shapes DEF IInv, TypeOK
<1>2. Len(history') = h /\ history'[h] = call /\ \A g \in 1..h - 1 : history'[g] = history[g]
  BY <1>1
<1>3. \A id \in Ids : \A g \in 1..h - 1 : DueAt(id, g)' = DueAt(id, g)
  BY <1>1, <1>2 DEF DueAt
<1>4. \A id \in 1..next - 1 : /\ id \in Ids /\ Registered(id) /\ since[id] \in Nat /\ until[id] \in Nat
                              /\ since[id] <= Len(history)
  BY <1>1 DEF IInv, LiveOK, TypeOK, Registered
<1>5. ASSUME NEW id \in 1..next - 1
      PROVE  /\ since[id] < h
             /\ id \in entries <=> h <= until[id] /\ \A g \in 1..h - 1 : ~DueAt(id, g)
  <2>1. since[id] < h
    BY <1>1, <1>4
  <2>2. CASE id \in entries
    <3>1. until[id] = MaxHistory /\ \A g \in 1..Len(history) : ~DueAt(id, g)
      BY <2>2, <1>4 DEF IInv, LiveOK
    <3> QED
      BY <2>1, <2>2, <3>1, <1>1
  <2>3. CASE id \notin entries
    <3>1. until[id] <= Len(history) \/ \E g \in 1..Len(history) : DueAt(id, g)
      BY <2>3, <1>4 DEF IInv, LiveOK
    <3> QED
      BY <2>1, <2>3, <3>1, <1>1, <1>4
  <2> QED
    BY <2>2, <2>3
<1>6. ASSUME NEW id \in 1..next - 1
      PROVE  DueAt(id, h)' <=> call.kind = "time" /\ entry[id].kind = "time" /\ entry[id].key <= call.key
  BY <1>1, <1>2, <1>5 DEF DueAt
<1>7. ASSUME NEW id \in 1..next - 1
      PROVE  call.kind = "event" =>
               (call = [kind |-> entry[id].kind, key |-> entry[id].key]
                  <=> entry[id].kind = "event" /\ entry[id].key = call.key)
  BY DEF Events, Ticks
<1>8. ASSUME NEW id \in 1..next - 1
      PROVE  id \in Expected(h)' <=> id \in Addressees(call)
  <2>1. id \in Expected(h)' <=>
          /\ since[id] < h /\ h <= until[id]
          /\ \/ call.kind = "event" /\ call = [kind |-> entry[id].kind, key |-> entry[id].key]
             \/ DueAt(id, h)' /\ \A g \in 1..h - 1 : ~DueAt(id, g)'
    BY <1>1, <1>2 DEF Expected
  <2>2. \A g \in 1..h - 1 : DueAt(id, g)' = DueAt(id, g)
    BY <1>3, <1>4
  <2>3. call.kind = "event" \/ call.kind = "time"
    BY DEF Events, Ticks
  <2>4. call.kind = "event" /\ entry[id].kind = "event" => \A g \in 1..h - 1 : ~DueAt(id, g)
    BY DEF DueAt
  <2> QED
    BY <2>1, <2>2, <2>3, <2>4, <1>5, <1>6, <1>7 DEF Addressees
<1>9. Expected(h)' \subseteq 1..next - 1 /\ Addressees(call) \subseteq 1..next - 1
  BY <1>1 DEF Expected, Addressees
<1>10. Expected(h)' = Addressees(call)
  BY <1>8, <1>9
<1>11. \A id \in entries : DueAt(id, h)' <=> (call.kind = "time" /\ id \in Addressees(call))
  BY <1>1, <1>6 DEF Addressees
<1> QED
  BY <1>3, <1>10, <1>11

\* A call whose timers leave entries_ keeps the invariant.
LEMMA CallKeepsIInv ==
  ASSUME IInv, NEW call \in Events \cup Ticks, Len(history) < MaxHistory,
         history' = Append(history, call), UNCHANGED <<next, entry, since, until>>,
         entries' = {id \in entries : ~(call.kind = "time" /\ id \in Addressees(call))},
         NEW s \in [1..Cardinality(Addressees(call)) -> Addressees(call)],
         \A i, j \in DOMAIN s : i < j =>
           IF call.kind = "event" THEN s[i] < s[j] ELSE Before(s[i], s[j]),
         queue' = queue \o Copies(s)
  PROVE  IInv'
<1>1. /\ Len(history) \in Nat /\ entries \subseteq 1..next - 1 /\ next \in 1..MaxId + 1
      /\ next' = next /\ entry' = entry /\ since' = since /\ until' = until
      /\ entries' \subseteq entries
  BY Shapes DEF IInv, TypeOK
<1>2. PICK h \in Nat : h = Len(history) + 1 /\ h <= MaxHistory
  BY <1>1
<1>3. Addressees(call) \in SUBSET Ids /\ \A id \in Addressees(call) : id < next
  <2>1. Addressees(call) \subseteq entries
    BY DEF Addressees
  <2>2. \A id \in entries : id \in Ids /\ id < next
    BY <1>1
  <2> QED
    BY <2>1, <2>2
<1>4. /\ Expected(h)' = Addressees(call)
      /\ \A id \in entries : DueAt(id, h)' <=> (call.kind = "time" /\ id \in Addressees(call))
      /\ \A id \in Ids : \A g \in 1..h - 1 : DueAt(id, g)' = DueAt(id, g)
  BY <1>2, CallExpected
<1>5. Calls(h, call, Addressees(call), Cardinality(Addressees(call)), s)
  BY <1>2, <1>3 DEF Calls
<1>6. /\ queue' \in Seq(Queued) /\ history' \in Seq(Events \cup Ticks)
      /\ QueueOK' /\ Ordered' /\ CalledExactly'
      /\ \A i \in DOMAIN queue' : queue'[i].stage = "body" =>
           \E j \in DOMAIN queue : queue[j].stage = "body" /\ queue[j].id = queue'[i].id
  BY <1>3, <1>4, <1>5, CallIInv
<1>7. TypeOK'
  BY <1>1, <1>6 DEF IInv, TypeOK, Queued
<1>8. LiveOK'
  <2>1. Len(history') = h
    BY <1>1, <1>2 DEF IInv, TypeOK
  <2> SUFFICES ASSUME NEW id \in Ids
               PROVE  /\ ~Registered(id)' => until'[id] = MaxHistory
                      /\ Registered(id)' => since'[id] <= h /\ entry'[id] \in Entry
                      /\ id \in entries' =>
                           until'[id] = MaxHistory /\ \A g \in 1..h : ~DueAt(id, g)'
                      /\ Registered(id)' /\ id \notin entries' =>
                           until'[id] <= h \/ \E g \in 1..h : DueAt(id, g)'
    BY <2>1 DEF LiveOK
  <2>2. /\ ~Registered(id) => until[id] = MaxHistory
        /\ Registered(id) => since[id] <= Len(history) /\ entry[id] \in Entry
        /\ id \in entries =>
             until[id] = MaxHistory /\ \A g \in 1..Len(history) : ~DueAt(id, g)
        /\ Registered(id) /\ id \notin entries =>
             until[id] <= Len(history) \/ \E g \in 1..Len(history) : DueAt(id, g)
    BY DEF IInv, LiveOK
  <2>3. since[id] \in Nat /\ until[id] \in Nat /\ Registered(id)' = Registered(id)
    BY <1>1 DEF IInv, TypeOK, Registered
  <2>4. \A g \in 1..h - 1 : DueAt(id, g)' = DueAt(id, g)
    BY <1>4
  <2>5. 1..h - 1 = 1..Len(history) /\ \A g \in 1..h : g \in 1..h - 1 \/ g = h
    BY <1>1, <1>2
  <2>6. CASE id \in entries'
    <3>1. id \in entries /\ ~DueAt(id, h)'
      BY <2>6, <1>4
    <3>2. until[id] = MaxHistory /\ \A g \in 1..h : ~DueAt(id, g)'
      BY <3>1, <2>2, <2>4, <2>5
    <3>3. Registered(id)
      BY <3>1, <1>1 DEF Registered
    <3> QED
      BY <2>6, <3>2, <3>3, <2>2, <2>3, <1>1, <1>2
  <2>7. CASE id \in entries /\ id \notin entries'
    <3>1. DueAt(id, h)' /\ h \in 1..h
      BY <2>7, <1>2, <1>4
    <3> QED
      BY <2>7, <3>1, <2>2, <2>3, <1>1, <1>2
  <2>8. CASE id \notin entries
    BY <2>8, <2>2, <2>3, <2>4, <2>5, <1>1, <1>2
  <2> QED
    BY <2>6, <2>7, <2>8
<1>9. OneShotUnregistered'
  BY <1>1, <1>6 DEF IInv, OneShotUnregistered
<1> QED
  BY <1>6, <1>7, <1>8, <1>9 DEF IInv

\* Deliver calls the subscribers in the order of their ids.
LEMMA DeliverIInv ==
  ASSUME IInv, NEW kind \in Kinds, Deliver(kind)
  PROVE  IInv'
<1> DEFINE call == [kind |-> "event", key |-> kind]
<1>1. Addressees(call) = Subscribers(kind)
  BY DEF Addressees, Subscribers
<1>2. PICK s \in ById(Subscribers(kind)) : queue' = queue \o Copies(s)
  BY DEF Deliver
<1>3. /\ s \in [1..Cardinality(Addressees(call)) -> Addressees(call)]
      /\ \A i, j \in DOMAIN s : i < j => s[i] < s[j]
  BY <1>1, <1>2 DEF ById
<1>4. /\ history' = Append(history, call) /\ Len(history) < MaxHistory
      /\ UNCHANGED <<next, entries, entry, since, until>>
  BY DEF Deliver
<1>5. call \in Events \cup Ticks /\ call.kind = "event"
  BY DEF Events
<1>6. entries' = {id \in entries : ~(call.kind = "time" /\ id \in Addressees(call))}
  BY <1>4, <1>5
<1> HIDE DEF call
<1> QED
  BY <1>2, <1>3, <1>4, <1>5, <1>6, CallKeepsIInv

\* Advance calls the timers that are due, and takes them out.
LEMMA AdvanceIInv ==
  ASSUME IInv, NEW time \in Times, Advance(time)
  PROVE  IInv'
<1> DEFINE call == [kind |-> "time", key |-> time]
<1>1. Addressees(call) = Overdue(time)
  BY DEF Addressees, Overdue
<1>2. PICK s \in ByTime(Overdue(time)) : queue' = queue \o Copies(s)
  BY DEF Advance
<1>3. /\ s \in [1..Cardinality(Addressees(call)) -> Addressees(call)]
      /\ \A i, j \in DOMAIN s : i < j => Before(s[i], s[j])
  BY <1>1, <1>2 DEF ByTime
<1>4. /\ history' = Append(history, call) /\ Len(history) < MaxHistory
      /\ UNCHANGED <<next, entry, since, until>> /\ entries' = entries \ Overdue(time)
  BY DEF Advance, Consumed
<1>5. call \in Events \cup Ticks /\ call.kind = "time"
  BY DEF Ticks
<1>6. entries' = {id \in entries : ~(call.kind = "time" /\ id \in Addressees(call))}
  BY <1>1, <1>4, <1>5
<1> HIDE DEF call
<1> QED
  BY <1>2, <1>3, <1>4, <1>5, <1>6, CallKeepsIInv

\* Between two calls, registering and cancelling change nothing that the history prescribes.
LEMMA QuietIInv ==
  ASSUME IInv, history' = history, next' \in Nat, next <= next',
         DOMAIN queue' = DOMAIN queue,
         \A i \in DOMAIN queue : queue'[i].id = queue[i].id /\ queue'[i].cause = queue[i].cause,
         \A id \in 1..next - 1 :
           /\ entry'[id] = entry[id] /\ since'[id] = since[id]
           /\ until'[id] = until[id] \/ (until[id] = MaxHistory /\ until'[id] = Len(history)),
         \A id \in next..next' - 1 : since'[id] = Len(history)
  PROVE  QueueOK' /\ Ordered' /\ CalledExactly'
<1>1. /\ Len(history) \in Nat /\ next \in Nat \ {0} /\ next - 1 <= MaxId
      /\ Len(history) <= MaxHistory
      /\ \A i \in DOMAIN queue : queue[i].id \in 1..next - 1 /\ queue[i].cause \in 1..Len(history)
  <2>1. /\ Len(history) \in Nat /\ queue \in [1..Len(queue) -> Queued] /\ next \in Nat \ {0}
        /\ DOMAIN queue = 1..Len(queue)
    BY Shapes DEF IInv
  <2>2. /\ next - 1 <= MaxId /\ Len(history) <= MaxHistory
        /\ \A i \in DOMAIN queue : queue[i].id < next /\ queue[i].cause <= Len(history)
    BY DEF IInv, TypeOK, QueueOK
  <2>3. \A i \in DOMAIN queue : queue[i].id \in 1..MaxId /\ queue[i].cause \in 1..MaxHistory
    BY <2>1 DEF Queued
  <2> QED
    BY <2>1, <2>2, <2>3
<1>2. QueueOK'
  BY <1>1 DEF QueueOK
<1>3. Ordered'
  <2> SUFFICES ASSUME NEW i \in DOMAIN queue, NEW j \in DOMAIN queue, i < j
               PROVE  /\ queue'[i].cause <= queue'[j].cause
                      /\ queue'[i].cause = queue'[j].cause => Precedes(i, j)'
    BY DEF Ordered
  <2>1. Precedes(i, j)' <=> Precedes(i, j)
    <3>1. entry'[queue[i].id] = entry[queue[i].id] /\ entry'[queue[j].id] = entry[queue[j].id]
      BY <1>1
    <3>2. queue'[i].id = queue[i].id /\ queue'[j].id = queue[j].id /\ queue'[i].cause = queue[i].cause
      OBVIOUS
    <3>3. Before(queue[i].id, queue[j].id)' <=> Before(queue[i].id, queue[j].id)
      BY <3>1, <3>2 DEF Before
    <3>4. history'[queue'[i].cause] = history[queue[i].cause]
      BY <3>2
    <3> QED
      BY <3>2, <3>3, <3>4 DEF Precedes
  <2> QED
    BY <2>1 DEF IInv, Ordered
<1>4. CalledExactly'
  <2> SUFFICES ASSUME NEW h \in 1..Len(history) PROVE Called(h)' = Expected(h)'
    BY DEF CalledExactly
  <2>1. Called(h)' = Called(h)
    BY DEF Called, CausedBy
  <2>2. \A id \in 1..next - 1 : \A g \in 1..h : DueAt(id, g)' = DueAt(id, g)
    BY DEF DueAt
  <2>3. \A id \in 1..next - 1 : h <= until'[id] <=> h <= until[id]
    BY <1>1
  <2>4. \A id \in next..next' - 1 : ~(since'[id] < h)
    <3>1. ~(Len(history) < h)
      BY <1>1
    <3> QED
      BY <3>1
  <2>5. 1..next' - 1 = (1..next - 1) \cup (next..next' - 1)
    BY <1>1
  <2>6. Expected(h)' = Expected(h)
    <3> DEFINE called(id) == \/ /\ history[h].kind = "event"
                                /\ history[h] = [kind |-> entry[id].kind, key |-> entry[id].key]
                             \/ DueAt(id, h) /\ \A g \in 1..h - 1 : ~DueAt(id, g)
    <3>1. Expected(h) = {id \in 1..next - 1 : since[id] < h /\ h <= until[id] /\ called(id)}
      BY DEF Expected
    <3>2. Expected(h)' = {id \in 1..next' - 1 : since'[id] < h /\ h <= until'[id] /\ called(id)'}
      BY DEF Expected
    <3>3. \A id \in 1..next - 1 : called(id)' <=> called(id)
      BY <2>2
    <3> HIDE DEF called
    <3> QED
      BY <3>1, <3>2, <3>3, <2>3, <2>4, <2>5
  <2> QED
    BY <2>1, <2>6 DEF IInv, CalledExactly
<1> QED
  BY <1>2, <1>3, <1>4

\* SUBSCRIBE and SCHEDULE.
LEMMA RegisterIInv ==
  ASSUME IInv, NEW e \in Entry, Register(e)
  PROVE  IInv'
<1>1. /\ Len(history) \in Nat /\ next \in Ids /\ Len(history) <= MaxHistory
      /\ entries \subseteq 1..next - 1 /\ entries' = entries \cup {next}
      /\ entry' = [entry EXCEPT ![next] = e] /\ since' = [since EXCEPT ![next] = Len(history)]
      /\ next' = next + 1 /\ queue' = queue /\ history' = history /\ until' = until
  BY Shapes DEF IInv, TypeOK, QueueOK, Register, IdLeft
<1>2. TypeOK'
  BY <1>1 DEF IInv, TypeOK
<1>3. \A id \in Ids \ {next} : entry'[id] = entry[id] /\ since'[id] = since[id]
  BY <1>1 DEF IInv, TypeOK
<1>4. entry'[next] = e /\ since'[next] = Len(history)
  BY <1>1 DEF IInv, TypeOK
<1>5. QueueOK' /\ Ordered' /\ CalledExactly'
  <2>1. \A id \in 1..next - 1 : id \in Ids \ {next}
    BY <1>1
  <2>2. \A id \in next..next' - 1 : id = next
    BY <1>1
  <2> QED
    BY <2>1, <2>2, <1>1, <1>3, <1>4, QuietIInv
<1>6. LiveOK'
  <2> SUFFICES ASSUME NEW id \in Ids
               PROVE  /\ ~Registered(id)' => until'[id] = MaxHistory
                      /\ Registered(id)' => since'[id] <= Len(history) /\ entry'[id] \in Entry
                      /\ id \in entries' =>
                           until'[id] = MaxHistory /\ \A g \in 1..Len(history) : ~DueAt(id, g)'
                      /\ Registered(id)' /\ id \notin entries' =>
                           until'[id] <= Len(history) \/ \E g \in 1..Len(history) : DueAt(id, g)'
    BY <1>1 DEF LiveOK
  <2>1. CASE id = next
    <3>1. ~Registered(id) /\ until[id] = MaxHistory
      BY <2>1, <1>1 DEF IInv, LiveOK, Registered
    <3>2. \A g \in 1..Len(history) : ~DueAt(id, g)'
      BY <2>1, <1>1, <1>4 DEF DueAt
    <3> QED
      BY <2>1, <3>1, <3>2, <1>1, <1>4 DEF Registered
  <2>2. CASE id # next
    <3>1. entry'[id] = entry[id] /\ since'[id] = since[id]
      BY <2>2, <1>3
    <3>2. \A g \in 1..Len(history) : DueAt(id, g)' <=> DueAt(id, g)
      BY <3>1, <1>1 DEF DueAt
    <3>3. (Registered(id)' <=> Registered(id)) /\ (id \in entries' <=> id \in entries)
      BY <2>2, <1>1 DEF Registered
    <3> QED
      BY <3>1, <3>2, <3>3, <1>1 DEF IInv, LiveOK
  <2> QED
    BY <2>1, <2>2
<1>7. OneShotUnregistered'
  <2>1. \A i \in DOMAIN queue : queue[i].id \in Int /\ queue[i].id < next
    BY Shapes DEF IInv, QueueOK, Queued
  <2> QED
    BY <2>1, <1>1 DEF IInv, OneShotUnregistered
<1> QED
  BY <1>2, <1>5, <1>6, <1>7 DEF IInv

\* CANCEL, of a program or of a one-shot body.
LEMMA ForgetIInv ==
  ASSUME IInv, NEW id0 \in Ids, Forget(id0), UNCHANGED <<next, entry, history, since>>,
         queue' \in Seq(Queued), DOMAIN queue' = DOMAIN queue,
         \A i \in DOMAIN queue : queue'[i].id = queue[i].id /\ queue'[i].cause = queue[i].cause,
         \A i \in DOMAIN queue : queue'[i].stage = "body" =>
           queue[i].stage = "body" \/ queue[i].id = id0
  PROVE  IInv'
<1>1. /\ Len(history) \in 0..MaxHistory /\ next \in Nat \ {0}
      /\ entries \subseteq 1..next - 1 /\ entries' = entries \ {id0}
      /\ next' = next /\ entry' = entry /\ since' = since /\ history' = history
      /\ until \in [Ids -> 0..MaxHistory] /\ next \in 1..MaxId + 1
      /\ until' = IF id0 \in entries THEN [until EXCEPT ![id0] = Len(history)] ELSE until
  BY Shapes DEF IInv, TypeOK, QueueOK, Forget
<1>2. /\ until' \in [Ids -> 0..MaxHistory] /\ \A id \in Ids \ {id0} : until'[id] = until[id]
      /\ id0 \in entries => until[id0] = MaxHistory /\ until'[id0] = Len(history)
      /\ id0 \notin entries => until'[id0] = until[id0]
  BY <1>1 DEF IInv, LiveOK
<1>3. TypeOK'
  BY <1>1, <1>2 DEF IInv, TypeOK, Queued
<1>4. QueueOK' /\ Ordered' /\ CalledExactly'
  <2>1. \A id \in 1..next - 1 :
          until'[id] = until[id] \/ (until[id] = MaxHistory /\ until'[id] = Len(history))
    BY <1>1, <1>2
  <2>2. \A id \in next..next' - 1 : FALSE
    BY <1>1
  <2> QED
    BY <2>1, <2>2, <1>1, QuietIInv
<1>5. LiveOK'
  <2> SUFFICES ASSUME NEW id \in Ids
               PROVE  /\ ~Registered(id)' => until'[id] = MaxHistory
                      /\ Registered(id)' => since'[id] <= Len(history) /\ entry'[id] \in Entry
                      /\ id \in entries' =>
                           until'[id] = MaxHistory /\ \A g \in 1..Len(history) : ~DueAt(id, g)'
                      /\ Registered(id)' /\ id \notin entries' =>
                           until'[id] <= Len(history) \/ \E g \in 1..Len(history) : DueAt(id, g)'
    BY <1>1 DEF LiveOK
  <2>1. (Registered(id)' <=> Registered(id)) /\ \A g \in 1..Len(history) : DueAt(id, g)' <=> DueAt(id, g)
    BY <1>1 DEF Registered, DueAt
  <2>2. id \in entries => Registered(id)
    BY <1>1 DEF Registered
  <2>3. CASE id = id0 /\ id \in entries
    BY <2>1, <2>2, <2>3, <1>1, <1>2 DEF IInv, LiveOK
  <2>4. CASE ~(id = id0 /\ id \in entries)
    BY <2>1, <2>4, <1>1, <1>2 DEF IInv, LiveOK
  <2> QED
    BY <2>3, <2>4
<1>6. OneShotUnregistered'
  BY <1>1 DEF IInv, OneShotUnregistered
<1> QED
  BY <1>3, <1>4, <1>5, <1>6 DEF IInv

\* TakeReady and stuttering.
LEMMA TakeIInv ==
  ASSUME IInv, TakeReady \/ UNCHANGED vars
  PROVE  IInv'
<1>1. /\ next' = next /\ entries' = entries /\ entry' = entry /\ history' = history
      /\ since' = since /\ until' = until
  BY DEF TakeReady, vars
<1>2. queue \in Seq(Queued) /\ queue \in [1..Len(queue) -> Queued] /\ DOMAIN queue = 1..Len(queue)
      /\ Len(queue) \in Nat /\ next \in Nat
  BY Shapes DEF IInv, TypeOK, Queued
<1>3. /\ queue' \in Seq(Queued) /\ DOMAIN queue' = DOMAIN queue
      /\ \A i \in DOMAIN queue : /\ queue'[i].id = queue[i].id /\ queue'[i].cause = queue[i].cause
                                 /\ queue'[i].stage = "body" => queue[i].stage = "body"
  <2>1. CASE TakeReady
    <3> DEFINE to(i) == IF queue[i].stage = "queued" THEN [queue[i] EXCEPT !.stage = "held"]
                        ELSE queue[i]
    <3>1. \A i \in DOMAIN queue :
            /\ to(i) \in Queued /\ to(i).id = queue[i].id /\ to(i).cause = queue[i].cause
            /\ to(i).stage = "body" => queue[i].stage = "body"
      BY <1>2 DEF Queued
    <3>2. queue' = [i \in DOMAIN queue |-> to(i)]
      BY <2>1 DEF TakeReady
    <3> HIDE DEF to
    <3>3. queue' \in [1..Len(queue) -> Queued]
      BY <3>1, <3>2, <1>2
    <3> QED
      BY <3>1, <3>2, <3>3, <1>2, Listed
  <2>2. CASE UNCHANGED vars
    BY <2>2, <1>2 DEF vars
  <2> QED
    BY <2>1, <2>2
<1>4. TypeOK'
  BY <1>1, <1>3 DEF IInv, TypeOK, Queued
<1>5. QueueOK' /\ Ordered' /\ CalledExactly'
  BY <1>1, <1>2, <1>3, QuietIInv
<1>6. LiveOK'
  BY <1>1 DEF IInv, LiveOK, Registered, DueAt
<1>7. OneShotUnregistered'
  BY <1>1, <1>3 DEF IInv, OneShotUnregistered
<1> QED
  BY <1>4, <1>5, <1>6, <1>7 DEF IInv

\* Every operation keeps the invariant.
LEMMA NextIInv ==
  ASSUME IInv, [Next]_vars
  PROVE  IInv'
<1>1. ASSUME NEW e \in Entry, Register(e) PROVE IInv'
  BY <1>1, RegisterIInv
<1>2. ASSUME NEW id \in Ids, Cancel(id) PROVE IInv'
  <2>1. Forget(id) /\ UNCHANGED <<next, entry, history, since, queue>>
    BY <1>2 DEF Cancel
  <2>2. queue' \in Seq(Queued)
    BY <2>1 DEF IInv, TypeOK, Queued
  <2> QED
    BY <2>1, <2>2, ForgetIInv
<1>3. ASSUME NEW kind \in Kinds, Deliver(kind) PROVE IInv'
  BY <1>3, DeliverIInv
<1>4. ASSUME NEW time \in Times, Advance(time) PROVE IInv'
  BY <1>4, AdvanceIInv
<1>5. CASE TakeReady \/ UNCHANGED vars
  BY <1>5, TakeIInv
<1>6. ASSUME NEW i \in DOMAIN queue, StartOneShot(i) PROVE IInv'
  <2>1. /\ Forget(queue[i].id) /\ UNCHANGED <<next, entry, history, since>>
        /\ queue' = [queue EXCEPT ![i].stage = "body"]
    BY <1>6 DEF StartOneShot, Captured
  <2>2. queue \in Seq(Queued) /\ queue \in [1..Len(queue) -> Queued] /\ DOMAIN queue = 1..Len(queue)
        /\ Len(queue) \in Nat
    BY Shapes DEF IInv, TypeOK, Queued
  <2>3. queue[i] \in Queued /\ queue[i].id \in Ids
    BY <2>2 DEF Queued
  <2>4. [queue[i] EXCEPT !.stage = "body"] \in Queued
    BY <2>3 DEF Queued
  <2>5. queue' \in [1..Len(queue) -> Queued]
    BY <2>1, <2>2, <2>4
  <2>6. queue' \in Seq(Queued) /\ DOMAIN queue' = DOMAIN queue
    BY <2>2, <2>5, Listed
  <2>7. ASSUME NEW j \in DOMAIN queue
        PROVE  /\ queue'[j].id = queue[j].id /\ queue'[j].cause = queue[j].cause
               /\ queue'[j].stage = "body" => queue[j].stage = "body" \/ queue[j].id = queue[i].id
    BY <2>1, <2>2, <2>3 DEF Queued
  <2> QED
    BY <2>1, <2>3, <2>6, <2>7, ForgetIInv
<1> QED
  BY <1>1, <1>2, <1>3, <1>4, <1>5, <1>6 DEF Next

\* The initial state satisfies it.
LEMMA InitIInv ==
  ASSUME Init
  PROVE  IInv
<1>1. queue = << >> /\ history = << >> /\ next = 1 /\ entries = {}
      /\ entry = [id \in Ids |-> Unused] /\ since = [id \in Ids |-> 0]
      /\ until = [id \in Ids |-> MaxHistory]
  BY DEF Init
<1>2. Len(history) = 0 /\ DOMAIN queue = {}
  BY <1>1
<1>3. TypeOK
  BY <1>1 DEF TypeOK
<1>4. QueueOK /\ Ordered /\ CalledExactly /\ OneShotUnregistered
  BY <1>2 DEF QueueOK, Ordered, CalledExactly, OneShotUnregistered
<1>5. LiveOK
  BY <1>1, <1>2 DEF LiveOK, Registered
<1> QED
  BY <1>3, <1>4, <1>5 DEF IInv

-----------------------------------------------------------------------------
(* Theorems.                                                               *)

\* The inductive invariant of Scheduler.
THEOREM Invariance == Spec => []IInv
<1>1. Init => IInv
  BY InitIInv
<1>2. IInv /\ [Next]_vars => IInv'
  BY NextIInv
<1> QED
  BY <1>1, <1>2, PTL DEF Spec

\* Registration ids never leave the immediates, however many are asked for, and every queued
\* frame names one of them.
THEOREM TypeCorrect == Spec => []TypeOK
<1>1. IInv => TypeOK
  BY DEF IInv
<1> QED
  BY <1>1, Invariance, PTL

\* Once a one-shot body has begun, its registration is gone.
THEOREM OneShotsUnregister == Spec => []OneShotUnregistered
<1>1. IInv => OneShotUnregistered
  BY DEF IInv
<1> QED
  BY <1>1, Invariance, PTL

\* Two frames of one call are of different registrations.
LEMMA CalledOnce ==
  ASSUME IInv, NEW i \in DOMAIN queue, NEW j \in DOMAIN queue,
         queue[i].cause = queue[j].cause, queue[i].id = queue[j].id
  PROVE  i = j
<1>1. \A n \in DOMAIN queue : n \in Int /\ queue[n].id \in Ids
  BY Shapes DEF IInv, Queued
<1>2. \A n \in DOMAIN queue : queue[n].id \in Int /\ entry[queue[n].id].key \in Int
  BY <1>1, Keys DEF IInv
<1>3. ASSUME NEW a \in DOMAIN queue, NEW b \in DOMAIN queue, a < b,
             queue[a].cause = queue[b].cause, queue[a].id = queue[b].id
      PROVE  FALSE
  <2>1. Precedes(a, b)
    BY <1>3 DEF IInv, Ordered
  <2> QED
    BY <2>1, <1>2, <1>3 DEF Precedes, Before
<1> QED
  BY <1>1, <1>3

\* Every delivery and every tick queues one frame for each registration it is for and for no
\* other, handlers of one event in the order of their ids.
THEOREM DeliveryIsExact == Spec => []DeliveredExactly
<1>1. ASSUME IInv PROVE DeliveredExactly
  <2> SUFFICES ASSUME NEW h \in 1..Len(history)
               PROVE  /\ Called(h) = Expected(h)
                      /\ Cardinality(CausedBy(h)) = Cardinality(Expected(h))
                      /\ history[h].kind = "event" =>
                           \A i, j \in CausedBy(h) : i < j => queue[i].id < queue[j].id
    BY DEF DeliveredExactly, Called
  <2>1. Called(h) = Expected(h)
    BY <1>1 DEF IInv, CalledExactly
  <2>2. CausedBy(h) \subseteq DOMAIN queue /\ \A i \in CausedBy(h) : queue[i].cause = h
    BY DEF CausedBy
  <2>3. Cardinality(CausedBy(h)) = Cardinality(Expected(h))
    <3> DEFINE id == [i \in CausedBy(h) |-> queue[i].id]
    <3>1. IsFiniteSet(CausedBy(h))
      <4>1. Len(queue) \in Nat /\ DOMAIN queue = 1..Len(queue)
        BY <1>1, Shapes DEF IInv
      <4>2. IsFiniteSet(1..Len(queue))
        BY <4>1, FS_Interval
      <4> QED
        BY <4>1, <4>2, <2>2, FS_Subset
    <3>2. id \in [CausedBy(h) -> Expected(h)] /\ \A x \in Expected(h) : \E i \in CausedBy(h) : id[i] = x
      BY <2>1 DEF Called
    <3>3. \A i, j \in CausedBy(h) : id[i] = id[j] => i = j
      BY <1>1, <2>2, CalledOnce
    <3> HIDE DEF id
    <3>4. id \in Bijection(CausedBy(h), Expected(h))
      BY <3>2, <3>3 DEF Bijection, Injection, Surjection, IsInjective
    <3> QED
      BY <3>1, <3>4, FS_Bijection DEF ExistsBijection
  <2>4. history[h].kind = "event" =>
          \A i, j \in CausedBy(h) : i < j => queue[i].id < queue[j].id
    BY <1>1, <2>2 DEF IInv, Ordered, Precedes
  <2> QED
    BY <2>1, <2>3, <2>4
<1> QED
  BY <1>1, Invariance, PTL

\* Of two timers that were registered before either fired, the one that is due first is
\* queued first, in however many ticks the host reaches their times.
THEOREM TicksDoNotMatter == Spec => []TickSizeIndependent
<1>1. ASSUME IInv PROVE TickSizeIndependent
  <2> SUFFICES ASSUME NEW i \in DOMAIN queue, NEW j \in DOMAIN queue, i < j,
                      entry[queue[i].id].kind = "time", entry[queue[j].id].kind = "time",
                      since[queue[j].id] < queue[i].cause
               PROVE  Before(queue[i].id, queue[j].id)
    BY DEF TickSizeIndependent, Before
  <2> DEFINE a == queue[i].id
             b == queue[j].id
             g == queue[i].cause
             h == queue[j].cause
  <2>1. /\ g \in 1..Len(history) /\ h \in 1..Len(history) /\ Len(history) \in Nat
        /\ a \in Ids /\ b \in Ids
    BY <1>1, Shapes DEF IInv, QueueOK, Queued
  <2>2. a \in Expected(g) /\ b \in Expected(h)
    <3>1. a \in Called(g) /\ b \in Called(h)
      BY DEF Called, CausedBy
    <3> QED
      BY <1>1, <2>1, <3>1 DEF IInv, CalledExactly
  <2>3. g <= h /\ (g = h => Precedes(i, j))
    BY <1>1 DEF IInv, Ordered
  <2>4. entry[a].key \in Nat /\ entry[b].key \in Nat
    BY <1>1, <2>1, Keys DEF IInv
  <2>5. /\ history[g].kind = "time" /\ entry[a].key <= history[g].key /\ history[g].key \in Int
    <3>1. history \in [1..Len(history) -> Events \cup Ticks]
      BY <1>1, Shapes DEF IInv
    <3>2. history[g] \in Events \cup Ticks
      BY <3>1, <2>1
    <3>3. history[g].key \in Int
      BY <3>2, CallKeys
    <3>4. DueAt(a, g) \/ history[g] = [kind |-> "time", key |-> entry[a].key]
      BY <2>2 DEF Expected
    <3> QED
      BY <3>3, <3>4, <2>4 DEF DueAt
  <2>6. CASE g = h
    BY <2>3, <2>5, <2>6 DEF Precedes
  <2>7. CASE g # h
    <3>1. g \in 1..h - 1
      BY <2>1, <2>3, <2>7
    <3>2. ~DueAt(b, g)
      <4>1. \/ history[h].kind = "event" /\ history[h] = [kind |-> entry[b].kind, key |-> entry[b].key]
            \/ \A n \in 1..h - 1 : ~DueAt(b, n)
        BY <2>2 DEF Expected
      <4> QED
        BY <4>1, <3>1
    <3>3. ~(entry[b].key <= history[g].key)
      BY <3>2, <2>5 DEF DueAt
    <3> QED
      BY <3>3, <2>4, <2>5 DEF Before
  <2> QED
    BY <2>6, <2>7
<1> QED
  BY <1>1, Invariance, PTL
=============================================================================

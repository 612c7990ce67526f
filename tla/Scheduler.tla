----------------------------- MODULE Scheduler -----------------------------
(***************************************************************************)
(* Registrations, event delivery and logical time.                         *)
(*                                                                         *)
(* SUBSCRIBE and SCHEDULE register a captured frame under a fresh id.      *)
(* Deliver queues a copy of every matching subscription, Advance moves     *)
(* every timer that is due to the queue, and TakeReady hands the queue to  *)
(* the host.  Nothing runs synchronously, so any program may register,     *)
(* cancel and deliver between any two of these steps, also between the     *)
(* moment a frame is queued and the moment it runs.                        *)
(***************************************************************************)
EXTENDS Integers, Sequences, FiniteSets

CONSTANTS
  MaxId,        \* kImmediateMax: the last registration id that can be given out
  Kinds,        \* event kinds
  Times,        \* logical times
  MaxHistory    \* bound on the deliveries and ticks of a run (not in the code)

ASSUME SchedulerAssumption ==
  /\ MaxId \in Nat
  /\ Kinds \subseteq Nat
  /\ Times \subseteq Nat
  /\ MaxHistory \in Nat

Ids == 1..MaxId

\* Scheduler::Entry, with what its frame does first when it runs: a one-shot body
\* (Lowering::OnceOnEvent) begins with CANCEL of the handle it captured.
Events == [kind: {"event"}, key: Kinds]
Ticks == [kind: {"time"}, key: Times]
Entry == [kind: {"event"}, key: Kinds, once: BOOLEAN]
         \cup [kind: {"time"}, key: Times, once: {FALSE}]
Unused == [kind |-> "none", key |-> 0, once |-> FALSE]

VARIABLES
  next,       \* Scheduler::next_
  entries,    \* ids in Scheduler::entries_
  entry,      \* history: what each id was registered with
  queue,      \* frames ever appended to ready_; those at "queued" are ready_ now
  history,    \* Runtime::history, with the calls of Advance
  since,      \* history: how much of it had happened when an id was registered,
  until       \* and when it was cancelled

vars == <<next, entries, entry, queue, history, since, until>>

Registered(id) == id < next

-----------------------------------------------------------------------------
(* Helpers.                                                                *)

MutIdLeft == TRUE
\* Scheduler::Register throws when this does not hold.
IdLeft == next <= MaxId

MutCaptured(id) == id - 1
\* The handle in the captured frame's result register: its own.
Captured(id) == id

MutBefore(a, b) == a < b
\* Due sorts by due time, then by registration id.
Before(a, b) ==
  \/ entry[a].key < entry[b].key
  \/ entry[a].key = entry[b].key /\ a < b

MutConsumed(ids) == {}
\* Due takes the timers it returns out of the registry, Event leaves them.
Consumed(ids) == ids

\* The copies that one delivery or tick appends to ready_.
Copies(ids) ==
  [i \in DOMAIN ids |-> [id |-> ids[i], cause |-> Len(history) + 1, stage |-> "queued"]]

\* The enumerations of some ids in the order of entries_, and in that of Due: there is one.
ById(ids) ==
  {s \in [1..Cardinality(ids) -> ids] : \A i, j \in DOMAIN s : i < j => s[i] < s[j]}
ByTime(ids) ==
  {s \in [1..Cardinality(ids) -> ids] : \A i, j \in DOMAIN s : i < j => Before(s[i], s[j])}

Subscribers(kind) ==
  {id \in entries : entry[id].kind = "event" /\ entry[id].key = kind}

Overdue(time) ==
  {id \in entries : entry[id].kind = "time" /\ entry[id].key <= time}

-----------------------------------------------------------------------------
(* Operations.                                                             *)

\* SUBSCRIBE or SCHEDULE.
Register(e) ==
  /\ IdLeft
  /\ entries' = entries \cup {next}
  /\ entry' = [entry EXCEPT ![next] = e]
  /\ since' = [since EXCEPT ![next] = Len(history)]
  /\ next' = next + 1
  /\ UNCHANGED <<queue, history, until>>

Forget(id) ==
  /\ entries' = entries \ {id}
  /\ until' = IF id \in entries THEN [until EXCEPT ![id] = Len(history)] ELSE until

\* CANCEL by any program; what is queued or held already stays.
Cancel(id) ==
  /\ id \in entries
  /\ Forget(id)
  /\ UNCHANGED <<next, entry, queue, history, since>>

\* Runtime::Deliver: entries_ is a map, sorted by id.
Deliver(kind) ==
  /\ Len(history) < MaxHistory
  /\ \E ids \in ById(Subscribers(kind)) : queue' = queue \o Copies(ids)
  /\ history' = Append(history, [kind |-> "event", key |-> kind])
  /\ UNCHANGED <<next, entries, entry, since, until>>

\* Runtime::Advance: time is the host's, and need not be monotonic.
Advance(time) ==
  /\ Len(history) < MaxHistory
  /\ \E ids \in ByTime(Overdue(time)) : queue' = queue \o Copies(ids)
  /\ entries' = entries \ Consumed(Overdue(time))
  /\ history' = Append(history, [kind |-> "time", key |-> time])
  /\ UNCHANGED <<next, entry, since, until>>

TakeReady ==
  /\ \E i \in DOMAIN queue : queue[i].stage = "queued"
  /\ queue' = [i \in DOMAIN queue |->
                 IF queue[i].stage = "queued" THEN [queue[i] EXCEPT !.stage = "held"]
                 ELSE queue[i]]
  /\ UNCHANGED <<next, entries, entry, history, since, until>>

\* The first instruction of a one-shot body.  What CANCEL answers is not looked
\* at: the body runs in any case.
StartOneShot(i) ==
  /\ queue[i].stage = "held"
  /\ entry[queue[i].id].once
  /\ Forget(Captured(queue[i].id))
  /\ queue' = [queue EXCEPT ![i].stage = "body"]
  /\ UNCHANGED <<next, entry, history, since>>

Init ==
  /\ next = 1
  /\ entries = {}
  /\ entry = [id \in Ids |-> Unused]
  /\ queue = << >>
  /\ history = << >>
  /\ since = [id \in Ids |-> 0]
  /\ until = [id \in Ids |-> MaxHistory]

Next ==
  \/ \E e \in Entry : Register(e)
  \/ \E id \in Ids : Cancel(id)
  \/ \E kind \in Kinds : Deliver(kind)
  \/ \E time \in Times : Advance(time)
  \/ TakeReady
  \/ \E i \in DOMAIN queue : StartOneShot(i)

Spec == Init /\ [][Next]_vars

-----------------------------------------------------------------------------
(* Properties.                                                             *)

\* The type invariant.
TypeOK ==
  /\ next \in 1..(MaxId + 1)
  /\ entries \subseteq 1..(next - 1)
  /\ entry \in [Ids -> Entry \cup {Unused}]
  /\ queue \in Seq([id: Ids, cause: 1..MaxHistory, stage: {"queued", "held", "body"}])
  /\ history \in Seq(Events \cup Ticks)
  /\ since \in [Ids -> 0..MaxHistory]
  /\ until \in [Ids -> 0..MaxHistory]

\* The timer id is due at the h-th occurrence.
DueAt(id, h) ==
  /\ history[h].kind = "time"
  /\ entry[id].kind = "time"
  /\ since[id] < h
  /\ entry[id].key <= history[h].key

\* Who is to be called by the h-th occurrence, by the history alone: whoever was
\* registered before it and not cancelled before it, and, if it is a timer, not
\* due earlier.
Expected(h) ==
  {id \in 1..(next - 1) :
     /\ since[id] < h /\ h <= until[id]
     /\ \/ history[h].kind = "event" /\ history[h] = [kind |-> entry[id].kind, key |-> entry[id].key]
        \/ DueAt(id, h) /\ \A g \in 1..(h - 1) : ~DueAt(id, g)}

CausedBy(h) == {i \in DOMAIN queue : queue[i].cause = h}

\* Every delivery and every tick queues one frame for each registration it is for
\* and for no other, whatever was registered, cancelled or queued around it: a
\* cancelled registration stays silent, a timer fires once, and handlers of one
\* event come in subscription order.
DeliveredExactly ==
  \A h \in 1..Len(history) :
    /\ {queue[i].id : i \in CausedBy(h)} = Expected(h)
    /\ Cardinality(CausedBy(h)) = Cardinality(Expected(h))
    /\ history[h].kind = "event" =>
         \A i, j \in CausedBy(h) : i < j => queue[i].id < queue[j].id

\* "Sort by due time, then registration ID, independent of caller tick size":
\* of two timers that were registered before either fired, the one that is due
\* first is queued first, in however many ticks the host reaches their times.
TickSizeIndependent ==
  \A i, j \in DOMAIN queue :
    /\ i < j
    /\ entry[queue[i].id].kind = "time"
    /\ entry[queue[j].id].kind = "time"
    /\ since[queue[j].id] < queue[i].cause
    => \/ entry[queue[i].id].key < entry[queue[j].id].key
       \/ /\ entry[queue[i].id].key = entry[queue[j].id].key
          /\ queue[i].id < queue[j].id

\* Once a one-shot body has begun, its registration is gone, so the events that
\* the body emits cannot queue it again.
OneShotUnregistered ==
  \A i \in DOMAIN queue : queue[i].stage = "body" => queue[i].id \notin entries

\* A test says of a one-shot subscription that the "one-shot event does not
\* discard twice": its body runs for one event only.
OneShotRunsOnce ==
  \A i, j \in DOMAIN queue :
    queue[i].stage = "body" /\ queue[j].stage = "body" /\ queue[i].id = queue[j].id => i = j
=============================================================================

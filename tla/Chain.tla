------------------------------- MODULE Chain -------------------------------
(***************************************************************************)
(* The chain stack of a Runtime and the link bodies that RESOLVE_LINK runs *)
(* on it.                                                                  *)
(*                                                                         *)
(* A link captures a frame.  RESOLVE_LINK runs that frame with what is     *)
(* left of the caller's budget; when the body waits for a choice or runs   *)
(* out of budget the caller stays at its RESOLVE_LINK, takes over the      *)
(* body's decision and later forwards the answer.  Any number of frames    *)
(* may drive the chain, and any frame or body may NEGATE a link.           *)
(*                                                                         *)
(* A step outside a body is one instruction of a driver; RESOLVE_LINK is   *)
(* one step per body instruction, during which (running # {}) nothing else *)
(* happens, as the whole call is synchronous.  An instruction that faults  *)
(* and changes nothing is a stuttering step, except at RESOLVE_LINK.       *)
(***************************************************************************)
EXTENDS Integers, Sequences, FiniteSets

CONSTANTS
  Drivers,     \* frames that issue CHAIN operations
  Subjects,    \* cards that a link or a NEGATE may name
  Bodies,      \* what the body of a link executes; << >> is no body
  Budgets,     \* steps that a RESOLVE_LINK can leave to the body
  MaxPasses,   \* kImmediateMax, the last value of ChainState::passes
  MaxPushes    \* bound on the links of a run (not in the code)

\* The instructions that matter to a chain: a CHOOSE, a NEGATE of an activation
\* or effect, a COMMIT that is accepted at once, one that first waits for its
\* handlers, a CHAIN, and all the others.
Commits == {"commit", "await"}
BodyInstructions == {"choose", "negate", "chain", "plain"} \cup Commits

ASSUME ChainAssumption ==
  /\ Bodies \subseteq Seq(BodyInstructions)
  /\ Budgets \subseteq Nat
  /\ MaxPasses \in Nat
  /\ MaxPushes \in Nat

\* A decision is named by the link and the pc of the CHOOSE that asked for it,
\* an answer by the decision that the host was shown when it gave the answer.
Decisions == (1..MaxPushes) \X (Nat \ {0})
NoDecision == <<0, 0>>
OptionalDecision == Decisions \cup {NoDecision}

\* ChainLink and the part of its Frame that a chain can tell apart.  id, began
\* and late are history: the PUSH that made the link, whether its body was ever
\* run, and whether it had been when the link was negated.
ChainLink ==
  [id: 1..MaxPushes, subject: Subjects, code: Bodies, pc: Nat \ {0},
   decision: OptionalDecision, answer: OptionalDecision,
   negated: BOOLEAN, resolved: BOOLEAN, began: BOOLEAN, late: BOOLEAN]

VARIABLES
  active, resolving,  \* ChainState, without what nothing can observe
  passes,
  links,
  running,     \* the driver inside RESOLVE_LINK, if chain.running; else {}
  left,        \* the budget that its body has left
  status,      \* of a driver: free, suspended or faulted at a RESOLVE_LINK
  decision,    \* Frame::decision of a driver
  answer,      \* Frame::answer of a driver
  pushes,      \* history: links pushed so far
  reports      \* history: the RESOLVE_END events

stack == <<active, resolving, passes, links>>
frames == <<status, decision, answer>>
vars == <<stack, running, left, frames, pushes, reports>>

Depth == Len(links)
Top == links[Depth]
Set(field, value) == [links EXCEPT ![Depth][field] = value]

-----------------------------------------------------------------------------
(* Guards.                                                                 *)

MutCanPush == active
\* PUSH is refused outside a chain and while it resolves.
CanPush == active /\ ~resolving

MutCanPop == active /\ resolving /\ links # << >>
\* POP takes a link that RESOLVE_LINK has completed.
CanPop == active /\ resolving /\ links # << >> /\ Top.resolved

MutUnresolvedTop == active /\ resolving /\ links # << >>
\* RESOLVE_LINK needs an unresolved link on top.
UnresolvedTop == active /\ resolving /\ links # << >> /\ ~Top.resolved

MutSkips == FALSE
\* There is no body to run, or the link was negated before this call.
Skips == Top.negated \/ Top.code = << >>

MutNegatable(k, s) == links[k].subject = s
\* The links that a NEGATE of s may mark.
Negatable(k, s) == ~links[k].resolved /\ links[k].subject = s

\* The topmost of them, if there is one.
Match(s) ==
  {k \in 1..Depth : /\ Negatable(k, s)
                    /\ \A j \in (k + 1)..Depth : ~Negatable(j, s)}

Marked(s) ==
  [k \in DOMAIN links |->
     IF k \in Match(s)
     THEN [links[k] EXCEPT !.negated = TRUE,
                           !.late = IF links[k].negated THEN @ ELSE links[k].began]
     ELSE links[k]]

MutPassLeft == TRUE
\* PASS is refused at the largest immediate.
PassLeft == passes < MaxPasses

\* A frame at an instruction of its own, with no RESOLVE_LINK under way.
CanIssue(f) == running = {} /\ status[f] = "free"

-----------------------------------------------------------------------------
(* Building and closing the stack.                                         *)

Begin(f) ==
  /\ CanIssue(f)
  /\ ~active
  /\ active' = TRUE
  /\ resolving' = FALSE
  /\ passes' = 0
  /\ links' = << >>
  /\ UNCHANGED <<running, left, frames, pushes, reports>>

NewLink(s, code) ==
  [id |-> pushes + 1, subject |-> s, code |-> code, pc |-> 1,
   decision |-> NoDecision, answer |-> NoDecision,
   negated |-> FALSE, resolved |-> FALSE, began |-> FALSE, late |-> FALSE]

\* The link copies the pusher's frame but none of its decision or answer.
Push(f, s, code) ==
  /\ CanIssue(f)
  /\ CanPush
  /\ pushes < MaxPushes
  /\ links' = Append(links, NewLink(s, code))
  /\ passes' = 0
  /\ pushes' = pushes + 1
  /\ UNCHANGED <<active, resolving, running, left, frames, reports>>

Pass(f) ==
  /\ CanIssue(f)
  /\ active /\ ~resolving
  /\ PassLeft
  /\ passes' = passes + 1
  /\ UNCHANGED <<active, resolving, links, running, left, frames, pushes, reports>>

BeginResolve(f) ==
  /\ CanIssue(f)
  /\ active /\ ~resolving
  /\ links # << >>
  /\ resolving' = TRUE
  /\ UNCHANGED <<active, passes, links, running, left, frames, pushes, reports>>

Pop(f) ==
  /\ CanIssue(f)
  /\ CanPop
  /\ links' = SubSeq(links, 1, Depth - 1)
  /\ UNCHANGED <<active, resolving, passes, running, left, frames, pushes, reports>>

EndResolve(f) ==
  /\ CanIssue(f)
  /\ active /\ resolving
  /\ links = << >>
  /\ resolving' = FALSE
  /\ passes' = 0
  /\ UNCHANGED <<active, links, running, left, frames, pushes, reports>>

End(f) ==
  /\ CanIssue(f)
  /\ active /\ ~resolving
  /\ links = << >>
  /\ active' = FALSE
  /\ passes' = 0
  /\ UNCHANGED <<resolving, links, running, left, frames, pushes, reports>>

\* NEGATE by a frame that is not a body: a driver between its own instructions,
\* a handler, an event frame.
Negate(s) ==
  /\ running = {}
  /\ Match(s) # {}
  /\ links' = Marked(s)
  /\ UNCHANGED <<active, resolving, passes, running, left, frames, pushes, reports>>

-----------------------------------------------------------------------------
(* RESOLVE_LINK.                                                           *)

MutForwarded(f) == Top.answer
\* The body's answer after the driver has forwarded its own, if it holds one.
Forwarded(f) == IF answer[f] = NoDecision THEN Top.answer ELSE answer[f]

MutKept(f) == answer[f]
\* What the driver keeps of an answer that it forwards.
Kept(f) == NoDecision

\* Frame::Answer on the body: it is waiting and has no answer yet.
Accepts(f) ==
  answer[f] # NoDecision => Top.decision # NoDecision /\ Top.answer = NoDecision

\* The body was not asking what the driver's answer is for: the index may be
\* out of its range.
Misfits(f) == answer[f] \notin {NoDecision, Top.decision}

\* What f's Run does when RESOLVE_LINK completes.
Finish(f) ==
  /\ links' = Set("resolved", TRUE)
  /\ reports' = Append(reports, [id |-> Top.id,
                                 context |-> IF Top.negated THEN 0 ELSE 1,
                                 began |-> Top.began])
  /\ decision' = [decision EXCEPT ![f] = NoDecision]
  /\ answer' = [answer EXCEPT ![f] = NoDecision]
  /\ status' = [status EXCEPT ![f] = "free"]
  /\ running' = {}
  /\ left' = 0
  /\ UNCHANGED <<active, resolving, passes, pushes>>

ResolveSkip(f) ==
  /\ running = {}
  /\ UnresolvedTop
  /\ Skips
  /\ Finish(f)

ResolveEnter(f, budget) ==
  /\ running = {}
  /\ UnresolvedTop
  /\ ~Skips
  /\ Accepts(f)
  /\ links' = [links EXCEPT ![Depth].answer = Forwarded(f),
                            ![Depth].began = TRUE]
  /\ decision' = [decision EXCEPT ![f] = IF answer[f] = NoDecision THEN @ ELSE NoDecision]
  /\ answer' = [answer EXCEPT ![f] = Kept(f)]
  /\ running' = {f}
  /\ left' = budget
  /\ UNCHANGED <<active, resolving, passes, status, pushes, reports>>

\* Out of turn, or with an answer that the body refuses.
ResolveFault(f) ==
  /\ running = {}
  /\ UnresolvedTop => ~Skips /\ (~Accepts(f) \/ Misfits(f))
  /\ status' = [status EXCEPT ![f] = "faulted"]
  /\ UNCHANGED <<stack, running, left, decision, answer, pushes, reports>>

ResolveLink(f) ==
  \/ ResolveSkip(f)
  \/ \E budget \in Budgets : ResolveEnter(f, budget)
  \/ ResolveFault(f)

-----------------------------------------------------------------------------
(* The body that f is running.                                             *)

AtInstruction(f, instructions) ==
  /\ running = {f}
  /\ Top.pc <= Len(Top.code)
  /\ Top.code[Top.pc] \in instructions
  /\ left > 0

Advance(from, cost) ==
  /\ links' = [from EXCEPT ![Depth].pc = @ + 1,
                           ![Depth].decision = NoDecision,
                           ![Depth].answer = NoDecision]
  /\ left' = left - cost
  /\ UNCHANGED <<active, resolving, passes, running, frames, pushes, reports>>

\* The body's Run returns anything but kHalted, and so does f's.
Return(f, st) ==
  /\ status' = [status EXCEPT ![f] = st]
  /\ running' = {}
  /\ left' = 0
  /\ UNCHANGED <<active, resolving, passes, answer, pushes, reports>>

BodyPlain(f) == AtInstruction(f, {"plain"}) /\ Advance(links, 1)

\* The first CHOOSE fixes the decision; without an answer the driver waits with it.
BodyAsks(f) ==
  /\ AtInstruction(f, {"choose"})
  /\ Top.answer = NoDecision
  /\ LET asked == IF Top.decision = NoDecision THEN <<Top.id, Top.pc>> ELSE Top.decision
     IN /\ links' = Set("decision", asked)
        /\ decision' = [decision EXCEPT ![f] = asked]
  /\ Return(f, "suspended")

BodyChooses(f) ==
  /\ AtInstruction(f, {"choose"})
  /\ Top.answer # NoDecision
  /\ Advance(links, 1)

\* Marks the link first: when the storage write that follows fails, the link is
\* negated although the instruction faults.
BodyNegates(f, s) ==
  /\ AtInstruction(f, {"negate"})
  /\ \/ Advance(Marked(s), 1)
     \/ links' = Marked(s) /\ Return(f, "faulted") /\ UNCHANGED decision

\* COMMIT takes one step, and the instruction it applies another.
BodyCommits(f) ==
  /\ AtInstruction(f, Commits)
  /\ left > 1
  /\ Advance(links, 2)

\* COMMIT has no step left for the instruction.
BodyCommitStarves(f) ==
  /\ AtInstruction(f, Commits)
  /\ left = 1
  /\ Return(f, "suspended")
  /\ UNCHANGED <<links, decision>>

\* COMMIT waits for its handlers: the driver waits, without a decision.
BodyAwaits(f) ==
  /\ AtInstruction(f, {"await"})
  /\ Return(f, "suspended")
  /\ UNCHANGED <<links, decision>>

\* Any instruction may fault (or throw, when an id runs out); CHAIN always does.
BodyFaults(f) ==
  /\ AtInstruction(f, BodyInstructions)
  /\ Return(f, "faulted")
  /\ UNCHANGED <<links, decision>>

BodyStarves(f) ==
  /\ running = {f}
  /\ Top.pc <= Len(Top.code)
  /\ left = 0
  /\ Return(f, "suspended")
  /\ UNCHANGED <<links, decision>>

BodyEnds(f) ==
  /\ running = {f}
  /\ Top.pc > Len(Top.code)
  /\ Finish(f)

Body(f) ==
  \/ BodyPlain(f)
  \/ BodyAsks(f)
  \/ BodyChooses(f)
  \/ \E s \in Subjects : BodyNegates(f, s)
  \/ BodyCommits(f)
  \/ BodyCommitStarves(f)
  \/ BodyAwaits(f)
  \/ BodyFaults(f)
  \/ BodyStarves(f)
  \/ BodyEnds(f)

-----------------------------------------------------------------------------

\* The host answers the decision that f shows, through Frame::Answer.
Answer(f) ==
  /\ running = {}
  /\ decision[f] # NoDecision
  /\ answer[f] = NoDecision
  /\ answer' = [answer EXCEPT ![f] = decision[f]]
  /\ UNCHANGED <<stack, running, left, status, decision, pushes, reports>>

Init ==
  /\ active = FALSE
  /\ resolving = FALSE
  /\ passes = 0
  /\ links = << >>
  /\ running = {}
  /\ left = 0
  /\ status = [f \in Drivers |-> "free"]
  /\ decision = [f \in Drivers |-> NoDecision]
  /\ answer = [f \in Drivers |-> NoDecision]
  /\ pushes = 0
  /\ reports = << >>

Issue(f) ==
  \/ Begin(f)
  \/ \E s \in Subjects, code \in Bodies : Push(f, s, code)
  \/ Pass(f)
  \/ BeginResolve(f)
  \/ Pop(f)
  \/ EndResolve(f)
  \/ End(f)

Next ==
  \/ \E f \in Drivers : Issue(f) \/ ResolveLink(f) \/ Body(f) \/ Answer(f)
  \/ \E s \in Subjects : Negate(s)

Spec == Init /\ [][Next]_vars

\* The host keeps running a driver that is held at its RESOLVE_LINK, and does not
\* do so for ever without answering what it asks; the call itself returns.  A
\* COMMIT that is tried again and again does not wait for its handlers for ever.
Fairness == \A f \in Drivers :
  /\ SF_vars(Answer(f))
  /\ WF_vars(status[f] = "suspended" /\ ResolveLink(f))
  /\ WF_vars(Body(f))
  /\ SF_vars(BodyCommits(f))

FairSpec == Spec /\ Fairness

-----------------------------------------------------------------------------
(* Properties.                                                             *)

\* The type invariant.
TypeOK ==
  /\ active \in BOOLEAN
  /\ resolving \in BOOLEAN
  /\ passes \in 0..MaxPasses
  /\ links \in Seq(ChainLink)
  /\ running \in {{}} \cup {{f} : f \in Drivers}
  /\ left \in Nat
  /\ status \in [Drivers -> {"free", "suspended", "faulted"}]
  /\ decision \in [Drivers -> OptionalDecision]
  /\ answer \in [Drivers -> OptionalDecision]
  /\ pushes \in 0..MaxPushes
  /\ reports \in Seq([id: 1..MaxPushes, context: {0, 1}, began: BOOLEAN])

\* A body runs only on an unresolved top link of a resolving chain, whatever the
\* body does: nothing replaces or removes the link whose frame is executing.
\* Every link below the top is unresolved.
StackIsHeld ==
  /\ running # {} => UnresolvedTop
  /\ \A k \in 1..(Depth - 1) : ~links[k].resolved

Unresolved == {links[k].id : k \in {j \in 1..Depth : ~links[j].resolved}}
ReportsOf(id) == {i \in 1..Len(reports) : reports[i].id = id}

\* RESOLVE_END is emitted exactly once for each link ever pushed, when its
\* resolution completes: however many drivers issue RESOLVE_LINK, however often
\* its body was suspended, and whoever negated it.
ReportedOnce ==
  \A id \in 1..pushes :
    Cardinality(ReportsOf(id)) = IF id \in Unresolved THEN 0 ELSE 1

\* The chain resolves last in, first out: a link is reported only after every
\* link pushed since.
LastInFirstReported ==
  [][Len(reports') > Len(reports) =>
       \A id \in (reports'[Len(reports')].id + 1)..pushes : ReportsOf(id) # {}]_vars

\* A link that was negated before its first RESOLVE_LINK never runs its body, not
\* even when a decision or an answer of another link is still under way.
NegatedFirstNeverRuns ==
  \A k \in 1..Depth : links[k].negated /\ ~links[k].late => ~links[k].began

\* An answer reaches the CHOOSE that the host saw when it gave it, although it
\* travels through the driver's frame.  Needs a single driver.
AnswerMeetsItsDecision ==
  \A k \in 1..Depth : links[k].answer \in {NoDecision, links[k].decision}

\* A driver held at RESOLVE_LINK gets past it, or is told of a fault.
ResolveReturns ==
  \A f \in Drivers : status[f] = "suspended" ~> status[f] # "suspended"

\* README: "Allow at least two steps per call to make progress inside a body (one
\* for RESOLVE_LINK, one for the body)": with one step left to the body in every
\* call, a driver still gets past its RESOLVE_LINK.
TwoStepsMakeProgress == ResolveReturns

\* README: "A negated link skips its body", and RESOLVE_END is emitted "with
\* context zero for negation or one for execution".
NegatedSkipsItsBody ==
  \A i \in 1..Len(reports) : reports[i].context = 0 => ~reports[i].began

Phase == IF ~active THEN "closed" ELSE IF resolving THEN "resolving" ELSE "open"
Outcome(link) ==
  IF ~link.resolved THEN "pending" ELSE IF link.negated THEN "negated" ELSE "executed"

Abstract == INSTANCE LinkStack WITH
  phase <- Phase,
  stack <- [k \in 1..Depth |-> Outcome(links[k])]

\* Bodies, decisions, budgets and late negations never disturb the stack
\* protocol: the chain is a LinkStack, whose outcomes are final.
ImplementsStack == Abstract!Spec
=============================================================================

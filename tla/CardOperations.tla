--------------------------- MODULE CardOperations ---------------------------
(***************************************************************************)
(* SUMMON, POSITION, EQUIP, CONTROL and MOVE on the storage of cards.      *)
(*                                                                         *)
(* Each of them is a series of storage calls, and there is no rollback: a  *)
(* call that fails leaves the ones before it applied.  Operands are whole  *)
(* addresses, and an address in a register may encode a location that the  *)
(* card has left since; storage finds the card by its identity.  Only FLIP *)
(* and SWAP look at the coordinates of a card, so only they take an        *)
(* address here.  A step is one instruction of any program; one that fails *)
(* before its first write is a stuttering step.  No modifier is on these   *)
(* fields.                                                                 *)
(***************************************************************************)
EXTENDS Integers, Sequences

CONSTANTS
  Cards,         \* identities of instances
  Tokens,        \* those that Create has yet to allocate
  Operated,      \* those that programs summon, position, control and move, and
  Equipment,     \* those that programs equip (bounds: the code takes any card)
  Changes,       \* POSITION operations that programs use; those that replace
                 \* the whole position are also the modes of a SUMMON (a bound)
  Players,
  Zones,         \* of a player; slots are not told apart
  Prototype,     \* what Create initialises a token's fields to
  none,          \* no card
  MaxFailures    \* bound on the instructions of a run that fail after their first
                 \* write or flip by a stale address (not in the code)

Locations == [player: Players, zone: Zones]
Nowhere == [player |-> none, zone |-> none]

\* A whole-card address with the coordinates it encodes.
Addresses == [card: Operated, at: Locations]

\* The numbers that a layout binds to the four canonical positions.
Canonical == SUBSET {"up", "defense"}
NotCanonical == {"?"}
FullPositions == {"FACE_UP_ATTACK", "FACE_UP_DEFENSE", "FACE_DOWN_DEFENSE"}
PartialChanges == {"ATTACK", "DEFENSE", "FACE_UP", "FACE_DOWN", "TOGGLE"}

CardFields ==
  [place: Locations \cup {Nowhere},
   position: Canonical \cup {NotCanonical}, face_up: BOOLEAN, defense_position: BOOLEAN,
   controller: Players \cup {none}, owner: Players \cup {none}, equip_target: Cards \cup {none}]

\* What belongs together: a location with its controller, the position with the
\* flags derived from it, a location with the event that tells of it.
Parts == {"control", "position", "event"}

\* A prototype lies nowhere and is attached to nothing.
ASSUME CardOperationsAssumption ==
  /\ Tokens \subseteq Operated /\ Operated \subseteq Cards
  /\ Equipment \subseteq Cards
  /\ none \notin Cards \cup Players \cup Zones
  /\ Prototype \in CardFields /\ Prototype.place = Nowhere /\ Prototype.equip_target = none
  /\ Changes \subseteq FullPositions \cup PartialChanges
  /\ MaxFailures \in Nat

VARIABLES
  object,     \* storage: the fields of each card
  failures,   \* history: instructions that failed, or flipped by a stale address
  torn,       \* history: parts of cards that no instruction has completed since
  seen,       \* where the last event about a card says it is
  worn        \* what the EQUIPPED and UNEQUIPPED events say it is attached to

vars == <<object, failures, torn, seen, worn>>
told == <<seen, worn>>

MutPresent(c) == TRUE
\* Storage refuses an identity that it does not hold.
Present(c) == object[c].place # Nowhere

-----------------------------------------------------------------------------
(* Storage.  A call writes some fields of some cards at once.              *)

One(c, fields) == [x \in {c} |-> fields]

Overwrite(state, call) ==
  [c \in DOMAIN state |->
     IF c \notin DOMAIN call THEN state[c]
     ELSE [f \in DOMAIN state[c] |-> IF f \in DOMAIN call[c] THEN call[c][f] ELSE state[c][f]]]

\* The cards after the calls, one by one.
After(calls) ==
  LET state[k \in 0..Len(calls)] ==
        IF k = 0 THEN object ELSE Overwrite(state[k - 1], calls[k])
  IN state[Len(calls)]

Wrote(calls, c, fields) ==
  \E i \in 1..Len(calls) : c \in DOMAIN calls[i] /\ DOMAIN calls[i][c] \cap fields # {}

\* The parts of cards that some of the calls write.
Touched(calls) ==
  {c \in Cards : Wrote(calls, c, {"place", "controller"})} \X {"control"}
  \cup {c \in Cards : Wrote(calls, c, {"position", "face_up", "defense_position"})} \X {"position"}

\* The cards whose next event has to tell a location.
Relocated(calls) == {c \in Cards : Wrote(calls, c, {"place"})} \X {"event"}

\* All calls succeed.  Parts that the instruction writes wrongly are lost.
Complete(calls, lost) ==
  /\ object' = After(calls)
  /\ torn' = (torn \ (Touched(calls) \cup Relocated(calls))) \cup lost
  /\ failures' = IF lost = {} THEN failures ELSE failures + 1

\* One of them fails: no event, and what it leaves unfinished is torn.
Break(calls, lost) ==
  /\ failures < MaxFailures
  /\ failures' = failures + 1
  /\ \E k \in 1..(Len(calls) - 1) :
       LET done == SubSeq(calls, 1, k)
           rest == SubSeq(calls, k + 1, Len(calls))
       IN /\ object' = After(done)
          /\ torn' = (torn \ (Touched(done) \ Touched(rest)))
                       \cup (Touched(done) \cap Touched(rest))
                       \cup Relocated(done) \cup lost
  /\ UNCHANGED told

Relocate(c, at) == One(c, [place |-> at])
Create(c, at) == One(c, Overwrite(One(c, Prototype), Relocate(c, at))[c])
\* Both locations at once.
Exchange(a, b) ==
  [c \in {a, b} |-> [place |-> object[IF c = a THEN b ELSE a].place]]

MutClaim(c, at) == One(c, [controller |-> IF Present(c) THEN object[c].place.player ELSE at.player])
Claim(c, at) == One(c, [controller |-> at.player])

Tell(c, at) == seen' = [seen EXCEPT ![c] = at]

-----------------------------------------------------------------------------
(* POSITION.                                                               *)

NewPosition(operation, old) ==
  CASE operation = "FACE_UP_ATTACK" -> {"up"}
    [] operation = "FACE_UP_DEFENSE" -> {"up", "defense"}
    [] operation = "FACE_DOWN_DEFENSE" -> {"defense"}
    [] operation = "ATTACK" -> old \ {"defense"}
    [] operation = "DEFENSE" -> old \cup {"defense"}
    [] operation = "FACE_UP" -> old \cup {"up"}
    [] operation = "FACE_DOWN" -> old \ {"up"}
    [] operation = "TOGGLE" -> IF "defense" \in old THEN old \ {"defense"} ELSE old \cup {"defense"}

\* A partial change needs a canonical position to start from.
Changeable(c, operation) ==
  operation \in FullPositions \/ object[c].position # NotCanonical

\* ApplyPosition.
PositionCalls(c, operation) ==
  LET new == NewPosition(operation, object[c].position)
  IN << One(c, [position |-> new]),
        One(c, [face_up |-> "up" \in new]),
        One(c, [defense_position |-> "defense" \in new]) >>

Position(c, operation) ==
  /\ Present(c)
  /\ Changeable(c, operation)
  /\ LET calls == PositionCalls(c, operation)
     IN \/ Complete(calls, {}) /\ UNCHANGED told
        \/ Break(calls, {})

-----------------------------------------------------------------------------
(* SUMMON.                                                                 *)

\* The write of last_summoned, an attribute of the player that nothing here reads:
\* it changes no card, but it can fail.
WriteLastSummoned == << >>

SummonCalls(first, c, at, operation) ==
  first \o PositionCalls(c, operation)
        \o << Claim(c, at), WriteLastSummoned >>

Summon(first, c, at, operation, lost) ==
  LET calls == SummonCalls(first, c, at, operation)
  IN \/ /\ Complete(calls, lost)
        /\ Tell(c, at)
        /\ UNCHANGED worn
     \/ Break(calls, lost)

\* Every method but FLIP and TOKEN; the mode selects one of the full positions.
SummonCard(c, at, operation) ==
  /\ Present(c)
  /\ Summon(<< Relocate(c, at) >>, c, at, operation, {})

\* Whether an address says where its card is.
Current(a) == a.at = object[a.card].place

\* FLIP compares only encoded coordinates.  With a stale address (README asks for
\* current ones in "operations whose meaning depends on coordinates") it gives the
\* card to the player it lay with, and its event tells where that was.
SummonFlip(src) ==
  /\ Present(src.card)
  /\ ~object[src.card].face_up
  /\ Current(src) \/ failures < MaxFailures
  /\ Summon(<< >>, src.card, src.at, "FACE_UP_ATTACK",
            IF Current(src) THEN {} ELSE {src.card} \X {"control", "event"})

\* The owner is written before the position, so a token can be left without one.
SummonToken(c, at, operation) ==
  /\ c \in Tokens
  /\ object[c].place = Nowhere
  /\ Summon(<< Create(c, at), One(c, [owner |-> at.player]) >>, c, at, operation, {})

-----------------------------------------------------------------------------
(* EQUIP.                                                                  *)

\* ATTACH needs a free equipment, the others an attached one, and DETACH its target.
Equippable(method, equipment, target) ==
  LET previous == object[equipment].equip_target
  IN CASE method = "ATTACH" -> previous = none
       [] method = "TRANSFER" -> previous # none
       [] method = "DETACH" -> previous = target

MutUnequips(method, equipment) == method = "DETACH"
\* An attached equipment is announced as unequipped first.
Unequips(method, equipment) == object[equipment].equip_target # none

\* The target need not exist: only its address is looked at.
Equip(method, target, equipment) ==
  /\ target # equipment
  /\ Present(equipment)
  /\ Equippable(method, equipment, target)
  /\ Complete(<< One(equipment, [equip_target |-> IF method = "DETACH" THEN none ELSE target]) >>, {})
  /\ worn' = (worn \ IF Unequips(method, equipment)
                     THEN {<<equipment, object[equipment].equip_target>>} ELSE {})
               \cup IF method = "DETACH" THEN {} ELSE {<<equipment, target>>}
  /\ UNCHANGED seen

-----------------------------------------------------------------------------
(* CONTROL and MOVE.                                                       *)

\* TAKE and GIVE.  A player operand stands for the zone that the source's address
\* encodes, on that player: any location, whether the address is current or not.
Control(c, at) ==
  /\ Present(c)
  /\ LET calls == << Relocate(c, at), Claim(c, at) >>
     IN \/ Complete(calls, {}) /\ Tell(c, at) /\ UNCHANGED worn
        \/ Break(calls, {})

\* RETURN, to the owner.
Return(c, at) ==
  /\ object[c].owner = at.player
  /\ Control(c, at)

MutSwapped(src, dst) == [c \in {src.card} |-> object[dst.card].place]
\* The cards that the events of a SWAP tell of, and where they are now.
Swapped(src, dst) ==
  [c \in {src.card, dst.card} |-> object[IF c = src.card THEN dst.card ELSE src.card].place]

\* SWAP looks at the encoded coordinates, and does so after the exchange.
Swap(src, dst) ==
  /\ src.card # dst.card
  /\ Present(src.card) /\ Present(dst.card)
  /\ Current(src) /\ Current(dst)
  /\ LET calls == << Exchange(src.card, dst.card), Claim(src.card, dst.at), Claim(dst.card, src.at) >>
         events == Swapped(src, dst)
     IN \/ /\ Complete(calls, {})
           /\ seen' = [c \in Cards |-> IF c \in DOMAIN events THEN events[c] ELSE seen[c]]
           /\ UNCHANGED worn
        \/ Break(calls, {})

SwapRefused(src, dst) ==
  /\ src.card # dst.card
  /\ Present(src.card) /\ Present(dst.card)
  /\ ~(Current(src) /\ Current(dst))
  /\ failures < MaxFailures
  /\ failures' = failures + 1
  /\ object' = Overwrite(object, Exchange(src.card, dst.card))
  /\ torn' = torn \cup ({src.card, dst.card} \X {"control", "event"})
  /\ UNCHANGED told

\* MOVE of a card, or of some members of a container (a zone, a player, the duel),
\* with one event for each card that was moved, also when a later one fails.  It
\* leaves the controller.
Move(moved, at) ==
  /\ moved # {}
  /\ \A c \in moved : Present(c)
  /\ object' = Overwrite(object, [c \in moved |-> [place |-> at]])
  /\ torn' = (torn \cup (moved \X {"control"})) \ (moved \X {"event"})
  /\ seen' = [c \in Cards |-> IF c \in moved THEN at ELSE seen[c]]
  /\ UNCHANGED <<failures, worn>>

-----------------------------------------------------------------------------

\* The host places the cards.
Placed(at) ==
  [place |-> at, position |-> {"up"}, face_up |-> TRUE,
   defense_position |-> FALSE, controller |-> at.player, owner |-> at.player,
   equip_target |-> none]

Init ==
  /\ \E place \in [Cards \ Tokens -> Locations] :
       object = [c \in Cards |-> IF c \in Tokens THEN Prototype ELSE Placed(place[c])]
  /\ failures = 0
  /\ torn = {}
  /\ seen = [c \in Cards |-> object[c].place]
  /\ worn = {}

Next ==
  \/ \E c \in Operated :
       \/ \E operation \in Changes : Position(c, operation)
       \/ \E at \in Locations, operation \in Changes \cap FullPositions :
            SummonCard(c, at, operation) \/ SummonToken(c, at, operation)
       \/ \E at \in Locations : Control(c, at) \/ Return(c, at)
  \/ \E a \in Addresses : SummonFlip(a)
  \/ \E a, b \in Addresses : Swap(a, b) \/ SwapRefused(a, b)
  \/ \E method \in {"ATTACH", "TRANSFER", "DETACH"}, target \in Cards, equipment \in Equipment :
       Equip(method, target, equipment)
  \/ \E moved \in SUBSET Operated, at \in Locations : Move(moved, at)

Spec == Init /\ [][Next]_vars

-----------------------------------------------------------------------------
(* Properties.                                                             *)

\* The type invariant.  No instruction loses a card.
TypeOK ==
  /\ object \in [Cards -> CardFields]
  /\ \A c \in Cards \ Tokens : object[c].place \in Locations
  /\ failures \in 0..MaxFailures
  /\ torn \subseteq Cards \X Parts
  /\ seen \in [Cards -> Locations \cup {Nowhere}]
  /\ worn \subseteq Cards \X Cards

\* The controller of a card is the player it lies with, and its position agrees
\* with the flags derived from it, whatever addresses the instructions were given
\* and in whatever order they ran; unless a storage failure, a refused SWAP, a FLIP
\* of a stale address or a MOVE came between and no instruction has completed that
\* part of the card since.
FieldsAgree ==
  \A c \in Cards : Present(c) =>
    /\ <<c, "control">> \notin torn => object[c].controller = object[c].place.player
    /\ <<c, "position">> \notin torn =>
         object[c].position = (IF object[c].face_up THEN {"up"} ELSE {})
                                \cup (IF object[c].defense_position THEN {"defense"} ELSE {})

\* Who follows the MOVED, SUMMONED and CONTROL_CHANGED events knows where every
\* card is, except where an instruction relocated a card and failed before its event,
\* or flipped it by a stale address.
EventsLocate ==
  \A c \in Cards : <<c, "event">> \notin torn => seen[c] = object[c].place

\* Who follows the EQUIPPED and UNEQUIPPED events knows what is attached to what:
\* a TRANSFER announces the old target before the new one.
EventsEquip ==
  worn = {pair \in Cards \X Cards : object[pair[1]].equip_target = pair[2]}
=============================================================================

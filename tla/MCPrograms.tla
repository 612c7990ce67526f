----------------------------- MODULE MCPrograms -----------------------------
(* A small instance of Programs for TLC.                                   *)
EXTENDS Programs

hand == Zone(0, 1)
deck == Zone(0, 2)
grave == Zone(0, 3)
MCPlaces == {hand, deck, grave}

\* Zones that hold the given cards, and one field of each card.
Holding(h, d, g) == hand :> h @@ deck :> d @@ grave :> g
Valued(v) == [key \in {<<c, 1>> : c \in DOMAIN v} |-> Imm(v[key[1]])]

-----------------------------------------------------------------------------
(* Tokens and lines.                                                       *)

num(n) == <<"number", n>>
imm(n) == <<"immediate", n>>
v(n) == <<"register", ValueBank, n>>
a(n) == <<"register", AddressBank, n>>
f(n) == <<"register", FlagBank, n>>
ctl(n) == <<"control", n>>
word(t) == <<"name", t>>
none == <<"NONE">>
\* A place, a card of it and a field of that card.
at(place) == <<"address", <<PlayerOf(place), ZoneOf(place), 0>>>>
card(place, c) == <<"address", <<PlayerOf(place), ZoneOf(place), 0, c, 0>>>>
field(place, c) == <<"address", <<PlayerOf(place), ZoneOf(place), 0, c, 1>>>>

line(name, args) == CodeLine(NoPC, name, args, <<>>)
noted(name, args, notes) == CodeLine(NoPC, name, args, notes)
numbered(pc, name, args) == CodeLine(pc, name, args, <<>>)
blank == [kind |-> "blank"]
header == [kind |-> "header"]
malformed == [kind |-> "malformed"]
directive == [kind |-> "directive"]
label(t) == [kind |-> "label", name |-> word(t)]
symbol(t, value) == [kind |-> "symbol", name |-> word(t), value |-> value]
open(name) == [kind |-> "program", name |-> name]
close == [kind |-> "end"]

\* A HALT with a reserved bit, and a SET with an operand that it does not use.
reserved == line("WORDS", <<num(Halt[1] + 2^(WordBits - 1)), num(0), num(0), num(0)>>)
unused == line("WORDS", <<num(Plain("SET", V(0), Imm(1), Imm(0))[1]), num(V(0)), num(Imm(1)), num(Imm(0))>>)

MCAlphabets ==
  { {blank, header, label("L"), symbol("X", imm(1)), symbol("L", v(9)), line("JUMP", <<word("L")>>),
     line("SET", <<v(0), word("X")>>), numbered(1, "HALT", <<>>)},
    {noted("HALT", <<>>, <<<<"flags", 4>>, <<"cause", 7>>>>), noted("HALT", <<>>, <<<<"cause", 8>>>>),
     [noted("HALT", <<>>, <<>>) EXCEPT !.annotated = TRUE],
     reserved, unused, line("SUBSCRIBE", <<a(0), num(0), imm(1)>>), line("JUMPIF", <<f(0), num(1)>>),
     numbered(0, "NOP", <<none>>), malformed, directive},
    {open(word("P")), open(word("Q")), open(<<>>), close, blank, header, label("L"),
     line("JUMP", <<word("L")>>)} }

-----------------------------------------------------------------------------
(* Plans.                                                                  *)

text(lines) == [how |-> "assemble", text |-> lines, calls |-> <<>>]
query(calls) == [how |-> "lower", text |-> <<>>, calls |-> calls]
Following(z, w, recipes, posts) == [zones |-> z, fields |-> w, recipes |-> recipes, posts |-> posts]
Running(lines) == Following(Holding(<<1, 2>>, <<3>>, <<>>), Valued(<<0, 1>>), <<text(lines)>>, <<>>)

drawing == [name |-> "DrawToSize", hand |-> hand, deck |-> deck, size |-> Imm(2)]
discarding(n) == [name |-> "RandomMove", source |-> hand, destination |-> grave, count |-> n,
                  method |-> "DISCARD"]
filtering(c) == [name |-> "Filter", container |-> hand,
                 conditions |-> <<[field |-> c, comparison |-> "EQUAL", value |-> Imm(1)],
                                  [field |-> c, comparison |-> "GREATER", value |-> Imm(0)]>>]
choosing == [name |-> "Emit",
             code |-> <<Plain("CHOOSE", A(2), V(1), Imm(0)),
                        Using("MOVE", "DISCARD", grave, A(2), None)>>]
later == [name |-> "OnceOnEvent", event |-> Imm(3), body |-> <<discarding(V(0))>>]

Queries ==
  { Following(Holding(<<1, 2, 3>>, <<>>, <<>>), Valued(<<1, 0, 1>>), <<query(<<filtering(1), choosing>>)>>, <<>>),
    Following(Holding(<<1>>, <<2, 3, 4>>, <<>>), <<>>, <<query(<<drawing>>)>>, <<>>),
    Following(Holding(<<1, 2, 3>>, <<>>, <<>>), <<>>, <<query(<<drawing>>)>>, <<>>),
    Following(Holding(<<1, 2, 3>>, <<>>, <<>>), <<>>, <<query(<<discarding(Imm(2))>>)>>, <<>>),
    Following(Holding(<<1>>, <<>>, <<>>), <<>>, <<query(<<discarding(Imm(2))>>)>>, <<>>),
    \* two at a time
    Following(Holding(<<1, 2>>, <<>>, <<>>), <<>>,
              <<query(<<discarding(Imm(1))>>), query(<<discarding(Imm(1))>>)>>, <<>>),
    Following(Holding(<<1>>, <<2>>, <<>>), <<>>,
              <<query(<<drawing>>), query(<<discarding(Imm(2))>>)>>, <<>>),
    \* draws now, discards what it drew once the event comes
    Following(Holding(<<>>, <<1>>, <<>>), <<>>, <<query(<<drawing, later>>)>>, <<3, 3>>),
    \* too many registers, no such field
    Following(Holding(<<1>>, <<>>, <<>>), <<>>, <<query(<<filtering(1), filtering(1)>>)>>, <<>>),
    Following(Holding(<<1>>, <<>>, <<>>), <<>>, <<query(<<filtering(0)>>)>>, <<>>) }

Texts ==
  { Running(<<line("SET", <<v(0), imm(-1)>>), line("COPY", <<v(1), imm(2)>>),
              line("SWAP", <<v(0), v(1)>>), line("SELECT", <<a(0), card(hand, 1)>>),
              line("ATTRIBUTE", <<a(1), a(0), imm(1)>>), line("LOAD", <<v(2), a(1)>>),
              line("STORE", <<a(1), v(0)>>), line("STORE", <<field(hand, 2), v(1)>>),
              line("ALU", <<v(3), v(0), v(1), word("DIVIDE")>>),
              line("ALU", <<v(3), v(1), word("ABSOLUTE")>>),
              line("STORE", <<ctl(ResultSuccess), v(3)>>), line("NOP", <<>>),
              line("SWAP", <<v(0), a(0)>>)>>),
    Running(<<line("SUBSCRIBE", <<v(0), word("L"), imm(7)>>),
              line("SCHEDULE", <<v(1), word("L"), imm(3)>>),
              line("EVENT", <<word("TRIGGER"), card(hand, 1)>>), line("CANCEL", <<v(1)>>),
              line("HISTORY", <<v(2), word("COUNT")>>),
              line("HISTORY", <<a(0), word("SUBJECT"), imm(0)>>),
              line("HISTORY", <<v(2), word("KIND"), imm(0)>>), label("L"),
              line("LOAD", <<v(4), ctl(8)>>), line("CANCEL", <<v(0)>>), line("CANCEL", <<v(0)>>)>>),
    Running([n \in 1 .. 6 |-> line("RANDOM", <<word("DIE"), v(0), none, imm(n)>>)]
            \o <<line("RANDOM", <<word("DIE"), v(0), imm(4)>>)>>),
    Running(LET cost == noted("MOVE", <<word("DISCARD"), at(grave), at(hand), imm(2)>>,
                              <<<<"flags", FlagCost>>>>)
            IN  <<cost, cost>>),
    Running(<<line("SET", <<f(0), imm(1)>>), line("JUMPIF", <<f(0), num(0), word("ZERO")>>),
              line("JUMPIF", <<f(0), num(4), word("NOT_ZERO")>>), line("HALT", <<>>),
              line("JUMPIF", <<f(0), num(3), word("EQUAL")>>)>>),
    Running(<<line("CHOOSE", <<v(0), imm(2), imm(0)>>), line("CHOOSE", <<v(1), imm(2), imm(0)>>)>>),
    \* refused by the assembler, but not by an assembler with a plausible bug
    Running(<<line("SUBSCRIBE", <<a(0), num(1), imm(1)>>), line("HALT", <<>>)>>),
    Running(<<line("SET", <<f(0), imm(1)>>), line("JUMPIF", <<f(0), num(9)>>)>>),
    Running(<<unused, reserved>>) }

\* Lines that fault in a new frame.
Faults ==
  { line("SET", <<f(0), imm(2)>>), line("STORE", <<a(0), imm(1)>>), line("LOAD", <<v(0), a(0)>>),
    line("SELECT", <<a(0), a(1)>>), line("SWAP", <<v(0), v(1)>>),
    line("ATTRIBUTE", <<a(0), card(hand, 1), imm(2)>>),
    line("ALU", <<v(0), imm(1), imm(0), word("MODULO")>>),
    line("COMPARE", <<f(0), v(0), imm(1), word("LESS")>>), line("JUMPIF", <<f(0), num(0)>>),
    line("COUNT", <<v(0), card(hand, 1)>>), line("AT", <<a(0), v(0), imm(0)>>),
    line("APPEND", <<v(0), card(hand, 1)>>), line("LENGTH", <<v(0), v(1)>>),
    line("CHOOSE", <<v(0), imm(0), imm(0)>>), line("CHOOSE", <<a(0), v(0), imm(0)>>),
    line("RANDOM", <<word("COIN"), v(0), none, imm(0)>>),
    line("MOVE", <<word("DRAW"), a(0), at(deck)>>), line("HISTORY", <<v(0), word("KIND"), imm(0)>>),
    line("SUBSCRIBE", <<v(0), num(0), imm(-1)>>), line("CANCEL", <<imm(0)>>),
    line("EVENT", <<word("DRAW"), v(0)>>) }

MCPlans == Queries \cup Texts \cup {Running(<<l>>) : l \in Faults}
=============================================================================

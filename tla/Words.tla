------------------------------- MODULE Words -------------------------------
(***************************************************************************)
(* The tagged words of the instruction set (include/lacooda/): the tag in  *)
(* the low bits, the payload above it, and the fields of the payload from  *)
(* low to high.  Words are the naturals below 2^WordBits, so masks and     *)
(* shifts are remainders and quotients by powers of two.  The widths are   *)
(* constants; the code has 64-bit words.                                   *)
(***************************************************************************)
EXTENDS Integers

CONSTANTS WordBits, TagBits,
          LevelBits, PlayerBits, ZoneBits, SlotBits, CardBits, AttributeBits,
          BankBits, IndexBits,
          OpBits, MethodBits, ModeBits, FlagsBits, CauseBits, AuxBits

PayloadBits == WordBits - TagBits
SubBits == MethodBits + ModeBits

(* The static assertions of the headers. *)
ASSUME WidthsAssumption ==
  /\ WordBits \in Nat /\ TagBits \in 3 .. WordBits - 1
  /\ \A w \in {LevelBits, PlayerBits, ZoneBits, SlotBits, CardBits, AttributeBits,
               BankBits, IndexBits, OpBits, MethodBits, ModeBits, FlagsBits, CauseBits, AuxBits} :
        w \in Nat \ {0}
  /\ LevelBits + PlayerBits + ZoneBits + SlotBits + CardBits + AttributeBits <= PayloadBits
  /\ BankBits + IndexBits <= PayloadBits
  /\ OpBits + SubBits + FlagsBits + CauseBits + AuxBits <= PayloadBits

\* Powers of two, which the provers do not know.
ASSUME PowersAssumption ==
  /\ 2^0 = 1
  /\ \A n \in 0 .. WordBits : 2^n \in Nat \ {0}
  /\ \A n \in 1 .. WordBits : 2^n = 2 * 2^(n - 1)

Bits(w, shift, width) == (w \div 2^shift) % 2^width
Mask(value, width) == value % 2^width
Largest(width) == 2^width - 1

(* Tags. *)
NoneTag == 0
AddressTag == 1
RegisterTag == 2
ImmediateTag == 3
ControlTag == 4
OperationTag == 5
CollectionTag == 7

MakeTagged(tag, payload) == Mask(payload, PayloadBits) * 2^TagBits + tag
TagOf(w) == Mask(w, TagBits)
PayloadOf(w) == w \div 2^TagBits
None == MakeTagged(NoneTag, 0)

(* Immediates: a signed payload. *)
ImmediateMin == -(2^(PayloadBits - 1))
ImmediateMax == 2^(PayloadBits - 1) - 1
Imm(v) == MakeTagged(ImmediateTag, v)
ImmediateValue(w) ==
  IF PayloadOf(w) > ImmediateMax THEN PayloadOf(w) - 2^PayloadBits ELSE PayloadOf(w)
IsImmediate(w) == TagOf(w) = ImmediateTag

(* Addresses. *)
DuelLevel == 0
PlayerLevel == 1
ZoneLevel == 2
SlotLevel == 3
CardLevel == 4
PlayerShift == LevelBits
ZoneShift == PlayerShift + PlayerBits
SlotShift == ZoneShift + ZoneBits
CardShift == SlotShift + SlotBits
AttributeShift == CardShift + CardBits

MakeAddress(level, player, zone, slot, card, attribute) ==
  MakeTagged(AddressTag,
    Mask(level, LevelBits) + Mask(player, PlayerBits) * 2^PlayerShift
      + Mask(zone, ZoneBits) * 2^ZoneShift + Mask(slot, SlotBits) * 2^SlotShift
      + Mask(card, CardBits) * 2^CardShift + Mask(attribute, AttributeBits) * 2^AttributeShift)
LevelOf(a) == Bits(PayloadOf(a), 0, LevelBits)
PlayerOf(a) == Bits(PayloadOf(a), PlayerShift, PlayerBits)
ZoneOf(a) == Bits(PayloadOf(a), ZoneShift, ZoneBits)
SlotOf(a) == Bits(PayloadOf(a), SlotShift, SlotBits)
CardOf(a) == Bits(PayloadOf(a), CardShift, CardBits)
AttributeOf(a) == Bits(PayloadOf(a), AttributeShift, AttributeBits)
WithAttribute(a, attribute) ==
  MakeTagged(AddressTag,
    PayloadOf(a) - AttributeOf(a) * 2^AttributeShift
      + Mask(attribute, AttributeBits) * 2^AttributeShift)
Zone(p, z) == MakeAddress(ZoneLevel, p, z, 0, 0, 0)
Card(p, z, s, c) == MakeAddress(CardLevel, p, z, s, c, 0)
IsAddress(a) == TagOf(a) = AddressTag
IsObject(a) == IsAddress(a) /\ AttributeOf(a) = 0
IsAttribute(a) == IsAddress(a) /\ AttributeOf(a) # 0
ValidAddress(a) == IsAddress(a) /\ LevelOf(a) <= CardLevel

(* Registers. *)
ValueBank == 0
AddressBank == 1
FlagBank == 2
RegisterCount == 2^IndexBits
Reg(bank, index) == MakeTagged(RegisterTag, Mask(bank, BankBits) + Mask(index, IndexBits) * 2^BankBits)
V(index) == Reg(ValueBank, index)
A(index) == Reg(AddressBank, index)
F(index) == Reg(FlagBank, index)
BankOf(r) == Bits(PayloadOf(r), 0, BankBits)
IndexOf(r) == Bits(PayloadOf(r), BankBits, IndexBits)
IsRegister(r) == TagOf(r) = RegisterTag

(* Control registers: the payload is the selector. *)
ProgramCounterReg == 5
ResultCount == 6
ResultSuccess == 7
ControlCount == 16
Control(r) == MakeTagged(ControlTag, r)
ControlRegOf(w) == PayloadOf(w)
IsControl(w) == TagOf(w) = ControlTag

(* Operations. *)
Op(opcode, sub, flags, cause, aux) ==
  MakeTagged(OperationTag,
    Mask(opcode, OpBits) + Mask(sub, SubBits) * 2^OpBits
      + Mask(flags, FlagsBits) * 2^(OpBits + SubBits)
      + Mask(cause, CauseBits) * 2^(OpBits + SubBits + FlagsBits)
      + Mask(aux, AuxBits) * 2^(OpBits + SubBits + FlagsBits + CauseBits))
CodeOf(w) == Bits(PayloadOf(w), 0, OpBits)
SubcodeOf(w) == Bits(PayloadOf(w), OpBits, SubBits)
FlagsOf(w) == Bits(PayloadOf(w), OpBits + SubBits, FlagsBits)
CauseOf(w) == Bits(PayloadOf(w), OpBits + SubBits + FlagsBits, CauseBits)
AuxOf(w) == Bits(PayloadOf(w), OpBits + SubBits + FlagsBits + CauseBits, AuxBits)
SummonSubcode(method, mode) == Mask(method, MethodBits) + Mask(mode, ModeBits) * 2^MethodBits
SummonMethodOf(sub) == Mask(sub, MethodBits)
SummonModeOf(sub) == Bits(sub, MethodBits, ModeBits)
=============================================================================

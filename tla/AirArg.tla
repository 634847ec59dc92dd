------------------------------- MODULE AirArg -------------------------------
(***************************************************************************)
(* Air::Arg (src/JavaScriptCore/b3/air/AirArg.h), the operand of an Air    *)
(* instruction, as the five fields it stores: m_offset, m_kind, m_scale,   *)
(* m_base and m_index.  Each static constructor starts from Arg() and      *)
(* fills some of them: a Stack operand keeps its StackSlot pointer in      *)
(* m_offset and its offset in m_scale, a condition keeps its x86 condition *)
(* code in m_offset, a Special its pointer.  Pointers are integers, as     *)
(* bitwise_cast makes them.                                                *)
(*                                                                         *)
(* The state is one Inst: its operands and the role and type its opcode's  *)
(* forEachArg gives each (a table generated from the opcode description,   *)
(* not in this source).  The actions are the rewrites compiler phases      *)
(* apply through Arg and Inst: withOffset, inverted, flipped, the register *)
(* renaming done through Inst::forEachTmp and the stack slot rewriting of  *)
(* ForEach<StackSlot*> (AirInstInlines.h).                                 *)
(***************************************************************************)
EXTENDS Integers, Bitwise

CONSTANTS
    NumArgs,        \* operands of the instruction
    W,              \* width of an int32 offset (32 in the code)
    Slots,          \* StackSlot pointers (integers)
    Specials,       \* Special pointers (integers)
    GPTmps,         \* general purpose Tmps, registers among them
    FPTmps,         \* floating point Tmps, registers among them
    Regs,           \* the Tmps that are machine registers
    NoTmp,          \* Tmp(), the empty temporary (model value)
    Shapes,         \* forEachArg signatures: [1..NumArgs -> [role, type]]
    Clobbers,       \* Special pointer -> registers it clobbers besides its defs
    OffsetSteps     \* additional offsets passed to withOffset

Pos == 1 .. NumArgs
Tmps == GPTmps \cup FPTmps
MinInt == -(2 ^ (W - 1))
MaxInt == 2 ^ (W - 1) - 1
Int32 == MinInt .. MaxInt

\* Arg::Kind and Arg::Role.
Kinds == {"Invalid", "Tmp", "Imm", "Imm64", "Addr", "Stack", "CallArg", "Index",
          "RelCond", "ResCond", "DoubleCond", "Special"}
Roles == {"Use", "LateUse", "Def", "UseDef", "UseAddr"}

IsAnyUse(role) == role \in {"Use", "UseDef", "LateUse"}
IsDef(role) == role \in {"Def", "UseDef"}

BankOf(t) == IF t \in GPTmps THEN "GP" ELSE "FP"

-----------------------------------------------------------------------------
(* The constructors.  Arg() is Invalid with m_scale 1 and empty Tmps.      *)
EmptyArg == [offset |-> 0, kind |-> "Invalid", scale |-> 1, base |-> NoTmp, index |-> NoTmp]
ArgTmp(t) == [EmptyArg EXCEPT !.kind = "Tmp", !.base = t]
ArgImm(v) == [EmptyArg EXCEPT !.kind = "Imm", !.offset = v]
ArgImm64(v) == [EmptyArg EXCEPT !.kind = "Imm64", !.offset = v]
ArgAddr(base, off) == [EmptyArg EXCEPT !.kind = "Addr", !.base = base, !.offset = off]
ArgStack(slot, off) == [EmptyArg EXCEPT !.kind = "Stack", !.offset = slot, !.scale = off]
ArgCallArg(off) == [EmptyArg EXCEPT !.kind = "CallArg", !.offset = off]
IsValidScale(s) == s \in {1, 2, 4, 8}
\* A mutant of index(): the log of the scale stored, as logScale() reads it.
ArgIndexLogScale(base, idx, s, off) ==
    [EmptyArg EXCEPT !.kind = "Index", !.base = base, !.index = idx,
                     !.scale = CASE s = 1 -> 0 [] s = 2 -> 1 [] s = 4 -> 2 [] s = 8 -> 3,
                     !.offset = off]
ArgIndex(base, idx, s, off) ==
    [EmptyArg EXCEPT !.kind = "Index", !.base = base, !.index = idx, !.scale = s,
                     !.offset = off]
ArgRelCond(c) == [EmptyArg EXCEPT !.kind = "RelCond", !.offset = c]
ArgResCond(c) == [EmptyArg EXCEPT !.kind = "ResCond", !.offset = c]
ArgDoubleCond(c) == [EmptyArg EXCEPT !.kind = "DoubleCond", !.offset = c]
ArgSpecial(s) == [EmptyArg EXCEPT !.kind = "Special", !.offset = s]

\* A mutant of operator==: m_scale left out of the comparison.
ArgEqualsNoScale(a, b) ==
    a.offset = b.offset /\ a.kind = b.kind /\ a.base = b.base /\ a.index = b.index

(* operator==: all five fields.                                            *)
ArgEquals(a, b) ==
    a.offset = b.offset /\ a.kind = b.kind /\ a.base = b.base /\ a.index = b.index
    /\ a.scale = b.scale

HasOffset(a) == a.kind \in {"Addr", "Stack", "CallArg", "Index"}

(* offset(): a Stack operand's offset is in m_scale.                       *)
Offset(a) == IF a.kind = "Stack" THEN a.scale ELSE a.offset

StackSlotOf(a) == a.offset

(* isGP() and isFP(): addresses may be used in either bank, an Imm only as *)
(* GP, an Imm64 as both, conditions and Specials as GP, a Tmp by its bank. *)
IsGP(a) ==
    CASE a.kind = "Tmp" -> a.base \in GPTmps
      [] a.kind = "Invalid" -> FALSE
      [] OTHER -> TRUE
IsFP(a) ==
    CASE a.kind = "Tmp" -> a.base \in FPTmps
      [] a.kind \in {"Addr", "Index", "Stack", "CallArg", "Imm64"} -> TRUE
      [] OTHER -> FALSE
IsType(a, type) == IF type = "GP" THEN IsGP(a) ELSE IsFP(a)

-----------------------------------------------------------------------------
(* The x86 condition codes of MacroAssemblerX86Common, and what each       *)
(* means: a relational condition on two int32s (Above and Below compare    *)
(* them unsigned), a result condition on an arithmetic result, a double    *)
(* condition on two doubles, NaN making them unordered.                    *)
RelCodes == [Equal |-> 4, NotEqual |-> 5, Above |-> 7, AboveOrEqual |-> 3,
             Below |-> 2, BelowOrEqual |-> 6, GreaterThan |-> 15,
             GreaterThanOrEqual |-> 13, LessThan |-> 12, LessThanOrEqual |-> 14]
ResCodes == [Overflow |-> 0, Signed |-> 8, PositiveOrZero |-> 9, Zero |-> 4, NonZero |-> 5]
DoubleCodes == [DoubleEqual |-> 36, DoubleNotEqual |-> 5, DoubleGreaterThan |-> 7,
                DoubleGreaterThanOrEqual |-> 3, DoubleLessThan |-> 23,
                DoubleLessThanOrEqual |-> 19, DoubleEqualOrUnordered |-> 4,
                DoubleNotEqualOrUnordered |-> 37, DoubleGreaterThanOrUnordered |-> 18,
                DoubleGreaterThanOrEqualOrUnordered |-> 22,
                DoubleLessThanOrUnordered |-> 2, DoubleLessThanOrEqualOrUnordered |-> 6]

NameOf(codes, c) == CHOOSE n \in DOMAIN codes : codes[n] = c
Unsigned(i) == i % (2 ^ W)

RelHolds(c, x, y) ==
    LET n == NameOf(RelCodes, c) IN
    CASE n = "Equal" -> x = y
      [] n = "NotEqual" -> x # y
      [] n = "Above" -> Unsigned(x) > Unsigned(y)
      [] n = "AboveOrEqual" -> Unsigned(x) >= Unsigned(y)
      [] n = "Below" -> Unsigned(x) < Unsigned(y)
      [] n = "BelowOrEqual" -> Unsigned(x) <= Unsigned(y)
      [] n = "GreaterThan" -> x > y
      [] n = "GreaterThanOrEqual" -> x >= y
      [] n = "LessThan" -> x < y
      [] n = "LessThanOrEqual" -> x <= y

ResHolds(c, r) ==
    LET n == NameOf(ResCodes, c) IN
    CASE n = "Overflow" -> r.ovf
      [] n = "Signed" -> r.v < 0
      [] n = "PositiveOrZero" -> r.v >= 0
      [] n = "Zero" -> r.v = 0
      [] n = "NonZero" -> r.v # 0

DoubleHolds(c, x, y) ==
    LET n == NameOf(DoubleCodes, c)
        unordered == x.nan \/ y.nan
        Ordered(rel) == ~unordered /\ rel
        OrUnordered(rel) == unordered \/ rel
    IN CASE n = "DoubleEqual" -> Ordered(x.v = y.v)
         [] n = "DoubleNotEqual" -> Ordered(x.v # y.v)
         [] n = "DoubleGreaterThan" -> Ordered(x.v > y.v)
         [] n = "DoubleGreaterThanOrEqual" -> Ordered(x.v >= y.v)
         [] n = "DoubleLessThan" -> Ordered(x.v < y.v)
         [] n = "DoubleLessThanOrEqual" -> Ordered(x.v <= y.v)
         [] n = "DoubleEqualOrUnordered" -> OrUnordered(x.v = y.v)
         [] n = "DoubleNotEqualOrUnordered" -> OrUnordered(x.v # y.v)
         [] n = "DoubleGreaterThanOrUnordered" -> OrUnordered(x.v > y.v)
         [] n = "DoubleGreaterThanOrEqualOrUnordered" -> OrUnordered(x.v >= y.v)
         [] n = "DoubleLessThanOrUnordered" -> OrUnordered(x.v < y.v)
         [] n = "DoubleLessThanOrEqualOrUnordered" -> OrUnordered(x.v <= y.v)

(* MacroAssembler::invert and flip.  On x86 a relational or result         *)
(* condition is inverted by flipping the low bit of its code; a double     *)
(* condition goes to its negation with the unordered case swapped.         *)
InvertCode(c) == c ^^ 1
DoubleInversePairs ==
    {<<"DoubleEqual", "DoubleNotEqualOrUnordered">>,
     <<"DoubleNotEqual", "DoubleEqualOrUnordered">>,
     <<"DoubleGreaterThan", "DoubleLessThanOrEqualOrUnordered">>,
     <<"DoubleGreaterThanOrEqual", "DoubleLessThanOrUnordered">>,
     <<"DoubleLessThan", "DoubleGreaterThanOrEqualOrUnordered">>,
     <<"DoubleLessThanOrEqual", "DoubleGreaterThanOrUnordered">>}
InvertDouble(c) ==
    LET n == NameOf(DoubleCodes, c)
        m == CHOOSE x \in DOMAIN DoubleCodes :
                <<n, x>> \in DoubleInversePairs \/ <<x, n>> \in DoubleInversePairs
    IN DoubleCodes[m]
FlipNames == [Equal |-> "Equal", NotEqual |-> "NotEqual", Above |-> "Below",
              AboveOrEqual |-> "BelowOrEqual", Below |-> "Above",
              BelowOrEqual |-> "AboveOrEqual", GreaterThan |-> "LessThan",
              GreaterThanOrEqual |-> "LessThanOrEqual", LessThan |-> "GreaterThan",
              LessThanOrEqual |-> "GreaterThanOrEqual"]
FlipCode(c) == RelCodes[FlipNames[NameOf(RelCodes, c)]]
\* On x86 only Zero and NonZero are invertible result conditions.
IsInvertibleResCode(c) == c \in {ResCodes.Zero, ResCodes.NonZero}

(* isInvertible(): relational and double conditions always, a result      *)
(* condition when the MacroAssembler says so.                              *)
IsInvertible(a) ==
    \/ a.kind \in {"RelCond", "DoubleCond"}
    \/ a.kind = "ResCond" /\ IsInvertibleResCode(a.offset)

(* inverted(): a condition of the same kind with the inverted code.        *)
Inverted(a) ==
    CASE a.kind = "RelCond" -> ArgRelCond(InvertCode(a.offset))
      [] a.kind = "ResCond" -> ArgResCond(InvertCode(a.offset))
      [] a.kind = "DoubleCond" -> ArgDoubleCond(InvertDouble(a.offset))

Flipped(a) == ArgRelCond(FlipCode(a.offset))

\* A mutant of withOffset: no check that the new offset fits in an int32.
WithOffsetUnchecked(a, d) ==
    LET Wrap(x) == ((x - MinInt) % (2 ^ W)) + MinInt
        o == Wrap(Offset(a) + d)
    IN CASE ~HasOffset(a) -> EmptyArg
         [] a.kind = "Addr" -> ArgAddr(a.base, o)
         [] a.kind = "Stack" -> ArgStack(StackSlotOf(a), o)
         [] a.kind = "CallArg" -> ArgCallArg(o)
         [] a.kind = "Index" -> ArgIndex(a.base, a.index, a.scale, o)

SumOverflows(x, y) == x + y \notin Int32

(* withOffset(): the same address displaced, or Arg() for an operand      *)
(* without an offset or when the sum overflows an int32.                  *)
WithOffset(a, d) ==
    LET o == Offset(a) + d IN
    CASE ~HasOffset(a) -> EmptyArg
      [] SumOverflows(Offset(a), d) -> EmptyArg
      [] a.kind = "Addr" -> ArgAddr(a.base, o)
      [] a.kind = "Stack" -> ArgStack(StackSlotOf(a), o)
      [] a.kind = "CallArg" -> ArgCallArg(o)
      [] a.kind = "Index" -> ArgIndex(a.base, a.index, a.scale, o)

\* A mutant of forEachTmp: an address reports its registers with the role
\* of the operand.
ForEachTmpArgRole(a, role, type) ==
    LET T(f, t, r, ty) == [field |-> f, tmp |-> t, role |-> r, type |-> ty] IN
    CASE a.kind = "Tmp" -> {T("base", a.base, role, type)}
      [] a.kind = "Addr" -> {T("base", a.base, role, "GP")}
      [] a.kind = "Index" -> {T("base", a.base, role, "GP"), T("index", a.index, role, "GP")}
      [] OTHER -> {}

(* forEachTmp(argRole, argType): the Tmps of an operand with the role and  *)
(* type they are accessed with; an address's base and index are always    *)
(* a GP Use, even when the address is stored to.  The field says which    *)
(* Tmp& the functor gets.                                                 *)
ForEachTmp(a, role, type) ==
    LET T(f, t, r, ty) == [field |-> f, tmp |-> t, role |-> r, type |-> ty] IN
    CASE a.kind = "Tmp" -> {T("base", a.base, role, type)}
      [] a.kind = "Addr" -> {T("base", a.base, "Use", "GP")}
      [] a.kind = "Index" -> {T("base", a.base, "Use", "GP"), T("index", a.index, "Use", "GP")}
      [] OTHER -> {}

\* The renamings a register allocator may apply: registers kept, every
\* other Tmp sent to a Tmp of its bank.
Allocations ==
    {[t \in Tmps |-> IF t \in Regs THEN t ELSE g[t]] :
        g \in {h \in [Tmps \ Regs -> Tmps] : \A t \in Tmps \ Regs : BankOf(h[t]) = BankOf(t)}}

(* The inputs a condition is judged on, as the abstract operands define   *)
(* them (they do not depend on the operands).                             *)
Samples(ops) == INSTANCE AirOperand WITH operands <- ops, Renamings <- Allocations
Universe(kind) == Samples(<<>>)!Universe(kind)

Holds(a, p) ==
    CASE a.kind = "RelCond" -> RelHolds(a.offset, p[1], p[2])
      [] a.kind = "ResCond" -> ResHolds(a.offset, p)
      [] a.kind = "DoubleCond" -> DoubleHolds(a.offset, p[1], p[2])

(* What an Arg stands for, read from the fields its kind uses.            *)
Denote(a) ==
    CASE a.kind = "Invalid" -> [kind |-> "Invalid"]
      [] a.kind = "Tmp" -> [kind |-> "Tmp", tmp |-> a.base]
      [] a.kind \in {"Imm", "Imm64"} -> [kind |-> a.kind, value |-> a.offset]
      [] a.kind = "Addr" -> [kind |-> "Addr", base |-> a.base, off |-> a.offset]
      [] a.kind = "Stack" -> [kind |-> "Stack", slot |-> StackSlotOf(a), off |-> Offset(a)]
      [] a.kind = "CallArg" -> [kind |-> "CallArg", off |-> a.offset]
      [] a.kind = "Index" -> [kind |-> "Index", base |-> a.base, index |-> a.index,
                             scale |-> a.scale, off |-> a.offset]
      [] a.kind = "Special" -> [kind |-> "Special", special |-> a.offset]
      [] OTHER -> [kind |-> a.kind, holds |-> {p \in Universe(a.kind) : Holds(a, p)}]

-----------------------------------------------------------------------------
VARIABLES
    args,       \* Inst::args
    shape       \* the role, type and admitted kinds of each operand

vars == <<args, shape>>

(* Inst::forEachTmp: forEachArg hands each operand with its role and type *)
(* to Arg::forEachTmp.                                                    *)
InstTmps == UNION {ForEachTmp(args[i], shape[i].role, shape[i].type) : i \in Pos}

(* hasSpecial(): the first operand is a Special.                          *)
HasSpecial == args[1].kind = "Special"

(* forEachDefAndExtraClobberedTmp(type): the Tmps of that type forEachTmp *)
(* reports as defined, then the Special's extra clobbered registers of    *)
(* that bank.                                                             *)
DefsAndExtraClobbered(type) ==
    {r.tmp : r \in {x \in InstTmps : x.type = type /\ IsDef(x.role)}}
    \cup (IF HasSpecial THEN {t \in Clobbers[args[1].offset] : BankOf(t) = type} ELSE {})

(* The register allocator's rewrite through Inst::forEachTmp: each Tmp&   *)
(* the functor gets is replaced.                                          *)
RenameArg(a, i, f) ==
    LET fields == {r.field : r \in ForEachTmp(a, shape[i].role, shape[i].type)}
    IN [a EXCEPT !.base = IF "base" \in fields THEN f[@] ELSE @,
                 !.index = IF "index" \in fields THEN f[@] ELSE @]

(* ForEach<StackSlot*>: the functor may change the slot, and the operand  *)
(* is rebuilt as Arg::stack(stackSlot, arg.offset()).                     *)
RestackSlot(a, f) == ArgStack(f[StackSlotOf(a)], Offset(a))

\* The operands lowering builds, before any rewrite.
InitArgs ==
    {ArgTmp(t) : t \in Tmps} \cup {ArgImm(0), ArgImm(-1), ArgImm64(0), ArgCallArg(0)}
    \cup {ArgAddr(b, 0) : b \in GPTmps} \cup {ArgStack(s, 0) : s \in Slots}
    \cup {ArgIndex(b, x, sc, 0) : b \in GPTmps, x \in GPTmps, sc \in {1, 8}}
    \cup {ArgRelCond(c) : c \in {RelCodes[n] : n \in DOMAIN RelCodes}}
    \cup {ArgResCond(c) : c \in {ResCodes[n] : n \in DOMAIN ResCodes}}
    \cup {ArgDoubleCond(c) : c \in {DoubleCodes[n] : n \in DOMAIN DoubleCodes}}
    \cup {ArgSpecial(s) : s \in Specials}

Init ==
    /\ shape \in Shapes
    /\ args \in [Pos -> InitArgs]
    /\ \A i \in Pos : args[i].kind \in shape[i].kinds /\ IsType(args[i], shape[i].type)

(* A phase displaces an operand: arg = arg.withOffset(d).                 *)
DoWithOffset(i, d) ==
    /\ args' = [args EXCEPT ![i] = WithOffset(@, d)]
    /\ UNCHANGED shape

(* A phase negates a condition it knows to be invertible.                 *)
Invert(i) ==
    /\ IsInvertible(args[i])
    /\ args' = [args EXCEPT ![i] = Inverted(@)]
    /\ UNCHANGED shape

(* A phase commutes a compare: the relational condition is flipped.       *)
Flip(i) ==
    /\ args[i].kind = "RelCond"
    /\ args' = [args EXCEPT ![i] = Flipped(@)]
    /\ UNCHANGED shape

(* inst.forEach<StackSlot*>: every Stack operand is given a slot.         *)
RewriteStackSlots(f) ==
    /\ args' = [i \in Pos |-> IF args[i].kind = "Stack" THEN RestackSlot(args[i], f)
                                                        ELSE args[i]]
    /\ UNCHANGED shape

(* Register allocation: inst.forEachTmp renames every Tmp it reports.     *)
RenameTmps(f) ==
    /\ args' = [i \in Pos |-> RenameArg(args[i], i, f)]
    /\ UNCHANGED shape

Next ==
    \/ \E i \in Pos :
          \/ \E d \in OffsetSteps : DoWithOffset(i, d)
          \/ Invert(i)
          \/ Flip(i)
    \/ \E f \in [Slots -> Slots] : RewriteStackSlots(f)
    \/ \E f \in Allocations : RenameTmps(f)

Spec == Init /\ [][Next]_vars

-----------------------------------------------------------------------------
\* Every operand is one the constructors build, with an int32 offset.
TypeOK ==
    /\ shape \in Shapes
    /\ \A i \in Pos :
          /\ args[i].kind \in Kinds
          /\ HasOffset(args[i]) => Offset(args[i]) \in Int32
          /\ args[i].kind \in {"Tmp", "Addr", "Index"} => args[i].base \in Tmps
          /\ args[i].kind = "Index" => IsValidScale(args[i].scale) /\ args[i].index \in Tmps

(* Whatever sequence of withOffset, inverted, flipped, stack slot and     *)
(* register rewrites the phases apply, the operands change only as the    *)
(* abstract operands may: an address moves by exactly the displacement    *)
(* or becomes Arg() on int32 overflow, a stack operand keeps its offset   *)
(* when its slot is rewritten, an inverted condition holds exactly where  *)
(* the original did not and a flipped one on the swapped inputs.          *)
Denotation == [i \in Pos |-> Denote(args[i])]
Abstract == INSTANCE AirOperand WITH operands <- Denotation, Renamings <- Allocations
RefinesAirOperand == Abstract!Spec

(* Arg::operator== is structural: two operands of the instruction compare *)
(* equal exactly when they stand for the same operand, whatever rewrites  *)
(* made them (a stack operand's offset lives in m_scale).                 *)
ArgEqualityStructural ==
    \A i, j \in Pos : ArgEquals(args[i], args[j]) <=> Denote(args[i]) = Denote(args[j])

(* forEachDefAndExtraClobberedTmp reports exactly what the instruction    *)
(* writes: the Tmp operands in a Def or UseDef position of that bank and  *)
(* the Special's clobbered registers, never the base or index register of *)
(* an address it stores through (mov %rax, (%rcx) uses %rcx).             *)
Written(type) ==
    {args[i].base : i \in {k \in Pos : args[k].kind = "Tmp" /\ IsDef(shape[k].role)
                                        /\ shape[k].type = type}}
    \cup (IF HasSpecial THEN {t \in Clobbers[args[1].offset] : BankOf(t) = type} ELSE {})
DefsReportedExactly == \A type \in {"GP", "FP"} : DefsAndExtraClobbered(type) = Written(type)

=============================================================================

------------------------------ MODULE JITArith ------------------------------
(***************************************************************************)
(* The fast paths the 64-bit baseline JIT emits for arithmetic bytecodes   *)
(* (src/JavaScriptCore/jit/JITArithmetic.cpp, JITMulGenerator.cpp): what   *)
(* the emitted machine code does when it runs on given operands.  Each    *)
(* fast path either produces a boxed result or jumps to the slow path      *)
(* (which calls the C++ slow_path_* and is right by definition), and some  *)
(* of them bump a special-fast-case profile counter the DFG reads.         *)
(*                                                                         *)
(* Registers hold W-bit two's complement integers (W = 32 in the code);    *)
(* the overflow flags of branchAdd32/branchSub32/branchMul32 and idiv are  *)
(* modelled at width W.  Doubles are exact rationals with a sign of zero,  *)
(* and NaN and the infinities: the value a double instruction computes is  *)
(* the IEEE result, which for these operations is the JavaScript one.     *)
(***************************************************************************)
EXTENDS Integers, Bitwise

CONSTANTS
    W,          \* register width of the int32 operations
    DoubleVals, \* the doubles an operand may hold
    NoResult    \* no result (model value)

MinInt == -(2 ^ (W - 1))
MaxInt == 2 ^ (W - 1) - 1
Int32 == MinInt .. MaxInt

\* A number: n/q with q > 0 and a sign for zero; q = 0 marks NaN or Inf.
Num(n, q, neg0) == [n |-> n, q |-> q, neg0 |-> n = 0 /\ neg0]
NaN == [n |-> 0, q |-> 0, neg0 |-> FALSE]
PosInf == [n |-> 1, q |-> 0, neg0 |-> FALSE]
NegInf == [n |-> -1, q |-> 0, neg0 |-> FALSE]
IntNum(i) == Num(i, 1, FALSE)

IsFinite(x) == x.q # 0
IsZero(x) == IsFinite(x) /\ x.n = 0
IsNeg(x) == x.n < 0 \/ (x.n = 0 /\ x.neg0)
Abs(i) == IF i < 0 THEN -i ELSE i
Sgn(i) == IF i < 0 THEN -1 ELSE 1

\* JavaScript SameValue on numbers: -0 and +0 differ.
SameValue(x, y) ==
    IF IsFinite(x) /\ IsFinite(y)
    THEN x.n * y.q = y.n * x.q /\ x.neg0 = y.neg0
    ELSE x = y

\* An int32-valued number (an integral value in range that is not -0).
IsInt32Value(x) ==
    IsFinite(x) /\ x.n % x.q = 0 /\ (x.n \div x.q) \in Int32 /\ ~x.neg0

\* The code units a one-character string may hold.
CharCodes == 1 .. 2

\* A boxed JSValue: an int32, a double or a cell (a non-number); a cell's
\* ch is the code unit of a one-character string, 0 for any other cell.
Boxed == [tag : {"int"}, i : Int32] \cup [tag : {"double"}, d : DoubleVals]
            \cup [tag : {"cell"}, ch : {0} \cup CharCodes]
IsCharString(b) == b.tag = "cell" /\ b.ch # 0
BoxInt(i) == [tag |-> "int", i |-> i]
BoxDouble(x) == [tag |-> "double", d |-> x]
IsNumber(b) == b.tag # "cell"
ToNum(b) == IF b.tag = "int" THEN IntNum(b.i) ELSE b.d

\* Two's complement wrap of a W-bit register.
Wrap(x) == ((x - MinInt) % (2 ^ W)) + MinInt
Overflows(x) == x \notin Int32

\* C/x86 truncated division and remainder.
TruncQuot(a, b) == Sgn(a) * Sgn(b) * (Abs(a) \div Abs(b))
TruncRem(a, b) == a - b * TruncQuot(a, b)

-----------------------------------------------------------------------------
(* The JavaScript results (ECMAScript 12.6.3, 12.5.4).                    *)
JSMul(x, y) ==
    IF ~IsFinite(x) \/ ~IsFinite(y) THEN NaN
    ELSE Num(x.n * y.n, x.q * y.q, IsNeg(x) # IsNeg(y))
JSDiv(x, y) ==
    CASE ~IsFinite(x) \/ ~IsFinite(y) -> NaN
      [] IsZero(y) /\ IsZero(x) -> NaN
      [] IsZero(y) -> IF IsNeg(x) # IsNeg(y) THEN NegInf ELSE PosInf
      [] OTHER -> Num(Sgn(y.n) * x.n * y.q, x.q * Abs(y.n), IsNeg(x) # IsNeg(y))
JSModInt(a, b) == IF b = 0 THEN NaN ELSE Num(TruncRem(a, b), 1, a < 0)
JSNeg(x) == IF IsFinite(x) THEN Num(-x.n, x.q, ~IsNeg(x)) ELSE
            IF x = NaN THEN NaN ELSE IF x = PosInf THEN NegInf ELSE PosInf

(* The register's bits read as an unsigned number, and a shift count as   *)
(* the hardware and ECMAScript take it ("& 0x1f" at width 32).             *)
Bits(i) == i % (2 ^ W)
ShiftCount(i) == i % W

(* ToInt32 (ECMAScript 7.1.5) of a number.                                 *)
ToInt32(x) == IF IsFinite(x) THEN Wrap(TruncQuot(x.n, x.q)) ELSE 0

(* The shift and bitwise operators (ECMAScript 12.8.3, 12.11.3).          *)
JSLShift(a, s) == IntNum(Wrap(a * 2 ^ ShiftCount(s)))
JSRShift(a, s) == IntNum(a \div 2 ^ ShiftCount(s))
JSURShift(a, s) == IntNum(Bits(a) \div 2 ^ ShiftCount(s))
JSBitAnd(a, b) == IntNum(Wrap(Bits(a) & Bits(b)))
JSBitOr(a, b) == IntNum(Wrap(Bits(a) | Bits(b)))
JSBitXor(a, b) == IntNum(Wrap(Bits(a) ^^ Bits(b)))

(* Numeric order with NaN unordered and -0 equal to +0.                    *)
NumLess(x, y) ==
    CASE x = NaN \/ y = NaN -> FALSE
      [] x = y -> FALSE
      [] x = NegInf \/ y = PosInf -> TRUE
      [] x = PosInf \/ y = NegInf -> FALSE
      [] OTHER -> x.n * y.q < y.n * x.q
NumEq(x, y) == x # NaN /\ y # NaN /\ ~NumLess(x, y) /\ ~NumLess(y, x)

(* A relation of the order "less" (LessThan ... GreaterThanOrEqual).       *)
Related(rel, Less(_, _), Eq(_, _), a, b) ==
    CASE rel = "LessThan" -> Less(a, b)
      [] rel = "LessThanOrEqual" -> Less(a, b) \/ Eq(a, b)
      [] rel = "GreaterThan" -> Less(b, a)
      [] rel = "GreaterThanOrEqual" -> Less(b, a) \/ Eq(a, b)
IntRel(rel, a, b) == Related(rel, LAMBDA u, v : u < v, LAMBDA u, v : u = v, a, b)
NumRel(rel, x, y) == Related(rel, NumLess, NumEq, x, y)

CompareOps == {"jless", "jlesseq", "jgreater", "jgreatereq",
               "jnless", "jnlesseq", "jngreater", "jngreatereq"}

(* Whether op_j<rel> / op_jn<rel> jumps: the abstract relational           *)
(* comparison (ECMAScript 7.2.11), on code units for two strings, on       *)
(* numbers otherwise; an undefined comparison (NaN) is false, and the      *)
(* jn forms jump when the comparison is false.                             *)
JSJump(op, a, b) ==
    LET rel == CASE op \in {"jless", "jnless"} -> "LessThan"
                 [] op \in {"jlesseq", "jnlesseq"} -> "LessThanOrEqual"
                 [] op \in {"jgreater", "jngreater"} -> "GreaterThan"
                 [] OTHER -> "GreaterThanOrEqual"
        holds == IF IsCharString(a) /\ IsCharString(b)
                 THEN IntRel(rel, a.ch, b.ch)
                 ELSE NumRel(rel, ToNum(a), ToNum(b))
    IN holds # (op \in {"jnless", "jnlesseq", "jngreater", "jngreatereq"})

(* An outcome: the slow path was taken, or res was stored; prof says the  *)
(* special fast case profile counter was incremented.                     *)
Outcome(slow, res, prof) == [slow |-> slow, res |-> res, prof |-> prof]
Slow == Outcome(TRUE, NoResult, FALSE)
Fast(res) == Outcome(FALSE, res, FALSE)

-----------------------------------------------------------------------------
(* Faulty variants of the helpers below, each the way a plausible slip in  *)
(* the C++ would change it; each property must fail under one of them.     *)

\* The profiled negative-zero test without the check of the right operand.
IsNegativeZeroLeftOnly(a, b) == a < 0

\* A double to int32 conversion without its range check.
ConvertDoubleToInt32NoRange(x) ==
    IF IsFinite(x) /\ x.n % x.q = 0 /\ x.n # 0 THEN x.n \div x.q ELSE NoResult

\* The division result without the test for a +0.0 bit pattern.
DivResultNoZeroTest(q, i) ==
    IF i # NoResult THEN Fast(BoxInt(i)) ELSE Outcome(FALSE, BoxDouble(q), TRUE)

(* The profiled negative zero test of JITMulGenerator (lines 108-114),     *)
(* reached when the int32 product is zero: negative zero unless the left  *)
(* operand is non-negative and the right one is too.                      *)
IsNegativeZero(a, b) == a < 0 \/ ~(b >= 0)

(* MacroAssembler::branchConvertDoubleToInt32 with the negative zero check *)
(* the JIT uses: fails on a non-integral value, one out of range, NaN,     *)
(* and on any zero.                                                        *)
ConvertDoubleToInt32(x) ==
    IF IsInt32Value(x) /\ x.n # 0 THEN x.n \div x.q ELSE NoResult

(* The tail of emit_op_div: box the int32 if the conversion worked; a      *)
(* +0.0 (all-zero bits) becomes the int 0; anything else is stored as a   *)
(* double and counted in the special fast case profile.                   *)
DivResult(q, i) ==
    CASE i # NoResult -> Fast(BoxInt(i))
      [] IsZero(q) /\ ~q.neg0 -> Fast(BoxInt(0))
      [] OTHER -> Outcome(FALSE, BoxDouble(q), TRUE)

-----------------------------------------------------------------------------
(* An operand as the JIT sees it: its run-time value, whether it is a      *)
(* constant of the code block, and its static type: "number"               *)
(* (definitelyIsNumber), "any" (mightBeNumber), "other" (!mightBeNumber).  *)
Operands ==
    {o \in [v : Boxed, const : BOOLEAN, type : {"number", "any", "other"}] :
        /\ o.type = "number" => IsNumber(o.v)
        /\ o.type = "other" => ~IsNumber(o.v)
        /\ o.const => \/ IsNumber(o.v) /\ o.type = "number"
                      \/ IsCharString(o.v) /\ o.type = "other"}

MightBeNumber(o) == o.type # "other"
DefinitelyIsNumber(o) == o.type = "number"
IsConstInt(o) == o.const /\ o.v.tag = "int"
IsConstDouble(o) == o.const /\ o.v.tag = "double"
IsConstChar(o) == o.const /\ IsCharString(o.v)

(* JITMulGenerator::generateFastPath, with the operand selection of        *)
(* emit_op_mul (a positive int32 constant operand has its own path).      *)
MulFastPath(l, r, profiling) ==
    LET leftPos == IsConstInt(l) /\ l.v.i > 0
        rightPos == IsConstInt(r) /\ r.v.i > 0
        DoubleMul == Fast(BoxDouble(JSMul(ToNum(l.v), ToNum(r.v))))
    IN CASE ~MightBeNumber(l) \/ ~MightBeNumber(r) -> Slow
         [] leftPos \/ rightPos ->
              LET var == IF leftPos THEN r ELSE l
                  c == IF leftPos THEN l.v.i ELSE r.v.i
              IN IF var.v.tag = "int"
                 THEN IF Overflows(var.v.i * c) THEN Slow
                      ELSE Fast(BoxInt(Wrap(var.v.i * c)))
                 ELSE IF ~DefinitelyIsNumber(var) /\ ~IsNumber(var.v) THEN Slow
                      ELSE DoubleMul
         [] l.v.tag = "int" /\ r.v.tag = "int" ->
              LET p == l.v.i * r.v.i IN
              CASE Overflows(p) -> Slow
                [] p = 0 /\ ~profiling -> Slow
                [] p = 0 /\ IsNegativeZero(l.v.i, r.v.i) -> Outcome(TRUE, NoResult, TRUE)
                [] OTHER -> Fast(BoxInt(Wrap(p)))
         [] OTHER ->
              IF \/ ~DefinitelyIsNumber(l) /\ ~IsNumber(l.v)
                 \/ ~DefinitelyIsNumber(r) /\ ~IsNumber(r.v)
              THEN Slow ELSE DoubleMul

(* emit_op_div: both operands loaded as doubles (constants directly, a     *)
(* variable after a number check unless its type is a number), divDouble,  *)
(* then the int32 conversion and boxing.                                   *)
DivFastPath(l, r) ==
    LET Unchecked(o) == ~o.const /\ ~DefinitelyIsNumber(o) /\ ~IsNumber(o.v)
        q == JSDiv(ToNum(l.v), ToNum(r.v))
    IN IF Unchecked(l) \/ Unchecked(r) THEN Slow
       ELSE DivResult(q, ConvertDoubleToInt32(q))

(* emit_op_mod on x86: int32 operands only, no zero divisor, no            *)
(* INT_MIN % -1 (idiv would trap), and a zero remainder of a negative      *)
(* dividend (a -0 result) goes slow.                                       *)
ModFastPath(l, r) ==
    LET a == l.v.i
        b == r.v.i
    IN CASE l.v.tag # "int" \/ r.v.tag # "int" -> Slow
         [] b = 0 -> Slow
         [] b = -1 /\ a = MinInt -> Slow
         [] ~(a >= 0) /\ TruncRem(a, b) = 0 -> Slow
         [] OTHER -> Fast(BoxInt(TruncRem(a, b)))

(* emit_op_negate: an int32 whose low 31 bits are zero (0 or INT_MIN)      *)
(* goes slow, others are negated; a double has its sign bit flipped.      *)
NegateFastPath(x) ==
    CASE x.v.tag = "int" /\ x.v.i % (2 ^ (W - 1)) = 0 -> Slow
      [] x.v.tag = "int" -> Fast(BoxInt(Wrap(-x.v.i)))
      [] ~IsNumber(x.v) -> Slow
      [] OTHER -> Fast(BoxDouble(JSNeg(x.v.d)))

(* emit_op_inc / emit_op_dec: int32 only, branchAdd32/branchSub32 with an  *)
(* Overflow check.                                                          *)
IncDecFastPath(x, d) ==
    IF x.v.tag # "int" \/ Overflows(x.v.i + d) THEN Slow
    ELSE Fast(BoxInt(Wrap(x.v.i + d)))

(* MacroAssembler::branchTruncateDoubleToInt32 on x86: cvttsd2si, which    *)
(* gives INT_MIN for NaN and out of range values, taken as a failure.     *)
TruncateDoubleToInt32(x) ==
    IF IsFinite(x) /\ TruncQuot(x.n, x.q) \in (MinInt + 1) .. MaxInt
    THEN TruncQuot(x.n, x.q) ELSE NoResult

(* emit_op_lshift: both operands int32, lshift32 (count masked by the      *)
(* hardware).                                                              *)
LShiftFastPath(l, r) ==
    IF l.v.tag # "int" \/ r.v.tag # "int" THEN Slow
    ELSE Fast(BoxInt(Wrap(l.v.i * 2 ^ ShiftCount(r.v.i))))

(* emitRightShift for op_rshift and op_urshift: a constant int32 count     *)
(* (masked with 0x1f) needs an int32 left operand; otherwise the left      *)
(* operand may also be a double that truncates to an int32, and the count  *)
(* must be an int32.  urshift32's result is tagged as an int32 as it is.   *)
RightShiftFastPath(l, r, unsigned) ==
    LET Shift(a, c) == IF unsigned THEN Wrap(Bits(a) \div 2 ^ ShiftCount(c))
                       ELSE a \div 2 ^ ShiftCount(c)
        left == CASE l.v.tag = "int" -> l.v.i
                  [] IsConstInt(r) \/ ~IsNumber(l.v) -> NoResult
                  [] OTHER -> TruncateDoubleToInt32(l.v.d)
    IN IF left = NoResult \/ r.v.tag # "int" THEN Slow
       ELSE Fast(BoxInt(Shift(left, r.v.i)))

(* emit_op_unsigned, which follows op_urshift: a negative int32 (a uint32  *)
(* of 2^31 or more) goes slow to be made a double.                         *)
UnsignedFastPath(b) ==
    IF b.tag # "int" \/ b.i < 0 THEN Slow ELSE Fast(b)

(* The JSValue64 bits of a value, the tag bits abstracted to two: an       *)
(* int32 is TagTypeNumber (all ones) over its zero-extended bits, a double *)
(* has some but not all tag bits set, a cell pointer none.                 *)
TagAll == 3
Enc(b) ==
    CASE b.tag = "int" -> [top |-> TagAll, low |-> Bits(b.i)]
      [] b.tag = "double" -> [top |-> IF IsNeg(b.d) THEN 2 ELSE 1, low |-> 0]
      [] OTHER -> [top |-> 0, low |-> b.ch]
(* Imm32 sign-extended to 64 bits, as and64 takes it.                      *)
Imm64(i) == [top |-> IF i < 0 THEN TagAll ELSE 0, low |-> Bits(i)]
And64(x, y) == [top |-> x.top & y.top, low |-> x.low & y.low]
IsIntEnc(x) == x.top = TagAll
Decode(x) == IF IsIntEnc(x) THEN BoxInt(Wrap(x.low)) ELSE [tag |-> "cell", ch |-> 0]

(* emit_op_bitand with a constant int32 operand c: the other must be an   *)
(* int32; and64 with the sign-extended immediate, then emitTagInt when c   *)
(* is non-negative (its zero upper bits cleared the tag).                  *)
BitAndConst(c, v) ==
    IF v.tag # "int" THEN Slow
    ELSE LET x == And64(Enc(v), Imm64(c))
         IN Fast(Decode(IF c >= 0 THEN [x EXCEPT !.top = TagAll] ELSE x))

(* emit_op_bitand: without a constant, and64 of the two encodings is an   *)
(* int32 exactly when both operands are.                                  *)
BitAndFastPath(l, r) ==
    CASE IsConstInt(l) -> BitAndConst(l.v.i, r.v)
      [] IsConstInt(r) -> BitAndConst(r.v.i, l.v)
      [] OTHER -> LET x == And64(Enc(l.v), Enc(r.v))
                  IN IF IsIntEnc(x) THEN Fast(Decode(x)) ELSE Slow

(* MacroAssembler::commute: the condition with its operands swapped.       *)
Commute(rel) ==
    CASE rel = "LessThan" -> "GreaterThan"
      [] rel = "LessThanOrEqual" -> "GreaterThanOrEqual"
      [] rel = "GreaterThan" -> "LessThan"
      [] rel = "GreaterThanOrEqual" -> "LessThanOrEqual"

(* MacroAssembler::branchDouble: an ordered condition fails on NaN, an    *)
(* ...OrUnordered one holds.                                               *)
DoubleCompare(dc, x, y) ==
    IF x = NaN \/ y = NaN THEN dc.orUnordered ELSE NumRel(dc.rel, x, y)

(* The RelationalCondition emit_op_j* passes to emit_compareAndJump.      *)
RelCondition(op) ==
    CASE op \in {"jless", "jngreatereq"} -> "LessThan"
      [] op \in {"jlesseq", "jngreater"} -> "LessThanOrEqual"
      [] op \in {"jgreater", "jnlesseq"} -> "GreaterThan"
      [] op \in {"jgreatereq", "jnless"} -> "GreaterThanOrEqual"

(* Mutant: the jn forms given the ordered double conditions.               *)
DoubleConditionOrdered(op) == [rel |-> RelCondition(op), orUnordered |-> FALSE]

(* The DoubleCondition emitSlow_op_j* passes to emit_compareAndJumpSlow:   *)
(* the same relation, and for the jn forms one that holds on NaN.          *)
DoubleCondition(op) ==
    [rel |-> RelCondition(op),
     orUnordered |-> op \in {"jnless", "jnlesseq", "jngreater", "jngreatereq"}]

(* emit_compareAndJump and emit_compareAndJumpSlow: the outcome is the     *)
(* jump taken or not, decided inline (fast path, or the double compare of  *)
(* the slow path), or the call of operationCompare*.  A constant one-      *)
(* character string is compared with a one-character string's code unit;  *)
(* a constant int32 with an int32, or in the slow path with a double; two  *)
(* variables as int32s, or in the slow path as two doubles when the left   *)
(* one is not an int32 and the right one not an int32 either.              *)
CompareAndJump(op, l, r) ==
    LET c == RelCondition(op)
        Jump(b) == Outcome(FALSE, b, FALSE)
        DoubleJump(x, y) == Jump(DoubleCompare(DoubleCondition(op), x, y))
    IN CASE IsConstChar(l) ->
              IF IsCharString(r.v) THEN Jump(IntRel(Commute(c), r.v.ch, l.v.ch)) ELSE Slow
         [] IsConstChar(r) ->
              IF IsCharString(l.v) THEN Jump(IntRel(c, l.v.ch, r.v.ch)) ELSE Slow
         [] IsConstInt(r) ->
              CASE l.v.tag = "int" -> Jump(IntRel(c, l.v.i, r.v.i))
                [] IsNumber(l.v) -> DoubleJump(l.v.d, IntNum(r.v.i))
                [] OTHER -> Slow
         [] IsConstInt(l) ->
              CASE r.v.tag = "int" -> Jump(IntRel(Commute(c), r.v.i, l.v.i))
                [] IsNumber(r.v) -> DoubleJump(IntNum(l.v.i), r.v.d)
                [] OTHER -> Slow
         [] OTHER ->
              CASE l.v.tag = "int" /\ r.v.tag = "int" -> Jump(IntRel(c, l.v.i, r.v.i))
                [] l.v.tag = "double" /\ r.v.tag = "double" -> DoubleJump(l.v.d, r.v.d)
                [] OTHER -> Slow

-----------------------------------------------------------------------------
(* The JSVALUE32_64 build (JITArithmetic32_64.cpp): a value is a tag word   *)
(* and a payload word.  The int32 paths test the tag for Int32Tag; a tag   *)
(* below LowestTag is the high word of a double.                           *)

(* emitRightShift and emitRightShiftSlowCase: an int32 left operand is     *)
(* shifted inline; otherwise the slow case's first link loads a double     *)
(* left operand and truncates it (the count must be an int32), with or    *)
(* without a constant count, before falling back to slow_path_*.          *)
RightShiftFastPath32(l, r, unsigned) ==
    LET Shift(a, c) == IF unsigned THEN Wrap(Bits(a) \div 2 ^ ShiftCount(c))
                       ELSE a \div 2 ^ ShiftCount(c)
        left == CASE l.v.tag = "int" -> l.v.i
                  [] IsNumber(l.v) -> TruncateDoubleToInt32(l.v.d)
                  [] OTHER -> NoResult
    IN IF left = NoResult \/ r.v.tag # "int" THEN Slow
       ELSE Fast(BoxInt(Shift(left, r.v.i)))

(* emit_op_bitand, emit_op_bitor, emit_op_bitxor: with a constant int32    *)
(* operand (getOperandConstantInt) the other one's tag is tested, without  *)
(* one both are; and32/or32/xor32 on the payloads.                         *)
BitOpFastPath32(o, l, r) ==
    LET a == l.v.i
        b == r.v.i
    IN IF l.v.tag # "int" \/ r.v.tag # "int" THEN Slow
       ELSE Fast(BoxInt(CASE o = "bitand" -> Wrap(Bits(a) & Bits(b))
                          [] o = "bitor" -> Wrap(Bits(a) | Bits(b))
                          [] o = "bitxor" -> Wrap(Bits(a) ^^ Bits(b))))

(* The branchDouble emitBinaryDoubleOp emits for each compare opcode: the  *)
(* j forms compare (op1, op2) with the ordered condition, the jn forms     *)
(* (op2, op1) with the complementary ...OrUnordered one.                   *)
DoubleBranch32(op) ==
    LET jn == op \in {"jnless", "jnlesseq", "jngreater", "jngreatereq"}
        rel == CASE op = "jless" -> "LessThan"
                 [] op = "jlesseq" -> "LessThanOrEqual"
                 [] op = "jgreater" -> "GreaterThan"
                 [] op = "jgreatereq" -> "GreaterThanOrEqual"
                 [] op = "jnless" -> "LessThanOrEqual"
                 [] op = "jnlesseq" -> "LessThan"
                 [] op = "jngreater" -> "GreaterThanOrEqual"
                 [] op = "jngreatereq" -> "GreaterThan"
    IN [rel |-> rel, orUnordered |-> jn, swap |-> jn]

(* emit_compareAndJump of JSVALUE32_64: after the int32 compare, a left    *)
(* operand that is not an int32 must be a double and the right one a      *)
(* double or an int32 (converted); an int32 left operand is converted and  *)
(* the right one must be a double.  Anything else calls operationCompare*. *)
CompareAndJump32(op, l, r) ==
    LET c == RelCondition(op)
        Jump(b) == Outcome(FALSE, b, FALSE)
        db == DoubleBranch32(op)
        DoubleJump(x, y) ==
            Jump(IF db.swap THEN DoubleCompare(db, y, x) ELSE DoubleCompare(db, x, y))
    IN CASE IsConstChar(l) ->
              IF IsCharString(r.v) THEN Jump(IntRel(Commute(c), r.v.ch, l.v.ch)) ELSE Slow
         [] IsConstChar(r) ->
              IF IsCharString(l.v) THEN Jump(IntRel(c, l.v.ch, r.v.ch)) ELSE Slow
         [] l.v.tag = "int" /\ r.v.tag = "int" -> Jump(IntRel(c, l.v.i, r.v.i))
         [] ~IsNumber(l.v) \/ ~IsNumber(r.v) -> Slow
         [] OTHER -> DoubleJump(ToNum(l.v), ToNum(r.v))

(* The tail of the JSVALUE32_64 division: branchConvertDoubleToInt32 (which *)
(* fails on any zero) and otherwise a double and a profile count; the code *)
(* has no +0.0 test (its FIXME says so).                                   *)
DivResult32(q, i) ==
    IF i # NoResult THEN Fast(BoxInt(i)) ELSE Outcome(FALSE, BoxDouble(q), TRUE)

(* emit_op_div of JSVALUE32_64: two int32s are divided as doubles inline,  *)
(* anything else through emitBinaryDoubleOp, which needs two numbers (the *)
(* checks it leaves out for a definitely-number operand cannot fail).      *)
DivFastPath32(l, r) ==
    LET q == JSDiv(ToNum(l.v), ToNum(r.v))
    IN IF ~IsNumber(l.v) \/ ~IsNumber(r.v) THEN Slow
       ELSE DivResult32(q, ConvertDoubleToInt32(q))

-----------------------------------------------------------------------------
(* The slow case lists.  emit_op_* appends one SlowCaseEntry per jump it   *)
(* hands to addSlowCase, and emitSlow_op_* must call linkSlowCase once per *)
(* entry, in order; each is a pair <<added, linked>> for the operands'     *)
(* constness and static types.  On x86, supportsFloatingPoint() and        *)
(* supportsFloatingPointTruncate() hold.  emitLoadCharacterString fills    *)
(* its failure list with three jumps (JITInlines.h).  op_mul links all the *)
(* entries of its bytecode offset, so it pairs by construction.            *)
CharStringFailures == 3
B(c) == IF c THEN 1 ELSE 0

SlowCases64(o, l, r) ==
    CASE o = "negate" -> <<2, 2>>
      [] o = "lshift" -> <<2, 2>>
      [] o \in {"rshift", "urshift"} ->
            IF IsConstInt(r) THEN <<1, 1>> ELSE <<3, 3>>
      [] o = "bitand" -> <<1, 1>>
      [] o \in {"inc", "dec"} -> <<2, 2>>
      [] o = "mod" -> <<5, 5>>
      [] o = "div" ->
            << B(~l.const /\ ~DefinitelyIsNumber(l)) + B(~r.const /\ ~DefinitelyIsNumber(r)),
               IF DefinitelyIsNumber(l) /\ DefinitelyIsNumber(r) THEN 0
               ELSE B(~IsConstDouble(l) /\ ~IsConstInt(l) /\ ~DefinitelyIsNumber(l))
                    + B(~IsConstDouble(r) /\ ~IsConstInt(r) /\ ~DefinitelyIsNumber(r)) >>
      [] o \in CompareOps ->
            CASE IsConstChar(l) \/ IsConstChar(r) -> <<1 + CharStringFailures, 4>>
              [] IsConstInt(r) \/ IsConstInt(l) -> <<1, 1>>
              [] OTHER -> <<2, 1 + 1>>

\* A mutant of the JSVALUE32_64 lists: emitSlow_op_div links one entry for
\* the right operand, as the int32 path alone would need.
SlowCases32OneRightLink(o, l, r) ==
    IF o = "div"
    THEN << B(~DefinitelyIsNumber(l)) + 2 * B(~DefinitelyIsNumber(r)),
            B(~DefinitelyIsNumber(l)) + B(~DefinitelyIsNumber(r)) >>
    ELSE <<0, 0>>

SlowCases32(o, l, r) ==
    CASE o = "negate" -> <<2, 2>>
      [] o \in {"lshift", "rshift", "urshift"} ->
            IF IsConstInt(r) THEN <<1, 1>>
            ELSE << B(~IsConstInt(l)) + 1, B(~IsConstInt(l) /\ ~IsConstInt(r)) + 1 >>
      [] o \in {"bitand", "bitor", "bitxor"} ->
            << IF IsConstInt(l) \/ IsConstInt(r) THEN 1 ELSE 2,
               B(~IsConstInt(l) /\ ~IsConstInt(r)) + 1 >>
      [] o \in {"inc", "dec"} -> <<2, 2>>
      [] o = "mod" -> <<5, 5>>
      [] o = "div" ->
            \* emitBinaryDoubleOp: case 1 checks op1 double, op2 int32; case 2
            \* op2 double.
            << B(~DefinitelyIsNumber(l)) + B(~DefinitelyIsNumber(r)) + B(~DefinitelyIsNumber(r)),
               B(~DefinitelyIsNumber(l)) + 2 * B(~DefinitelyIsNumber(r)) >>
      [] o \in CompareOps ->
            IF IsConstChar(l) \/ IsConstChar(r) THEN <<1 + CharStringFailures, 4>>
            ELSE << 2 * B(~IsConstInt(l)) + B(IsConstInt(l) \/ ~IsConstInt(r)),
                    2 * B(~IsConstInt(l)) + B(IsConstInt(l) \/ ~IsConstInt(r)) >>

-----------------------------------------------------------------------------
VARIABLES
    build,      \* the value representation the JIT was built for
    op,         \* the bytecode (OpsOf(build))
    lhs, rhs,   \* its operands (rhs unused by the unary ones)
    profiling,  \* shouldEmitProfiling() when op_mul was compiled
    outcome     \* what the fast path did, or NoResult before it ran

vars == <<build, op, lhs, rhs, profiling, outcome>>

\* "urshift" is op_urshift followed by the op_unsigned emitted after it.
\* op_mod has a fast path on x86; the JSVALUE32_64 build is the 32-bit one.
Builds == {"JSVALUE64", "JSVALUE32_64"}
OpsOf(b) ==
    {"mul", "div", "mod", "negate", "inc", "dec", "lshift", "rshift", "urshift", "bitand"}
    \cup CompareOps \cup (IF b = "JSVALUE32_64" THEN {"bitor", "bitxor"} ELSE {})
Ops == UNION {OpsOf(b) : b \in Builds}

Init ==
    /\ build \in Builds
    /\ op \in OpsOf(build)
    /\ lhs \in Operands
    /\ rhs \in Operands
    /\ op = "mul" => ~(IsConstInt(lhs) /\ IsConstInt(rhs))
    /\ op \notin CompareOps => ~IsConstChar(lhs) /\ ~IsConstChar(rhs)
    /\ profiling \in BOOLEAN
    /\ outcome = NoResult

ExecMul == op = "mul" /\ outcome = NoResult
           /\ outcome' = MulFastPath(lhs, rhs, profiling)
           /\ UNCHANGED <<build, op, lhs, rhs, profiling>>
ExecDiv == build = "JSVALUE64" /\ op = "div" /\ outcome = NoResult
           /\ outcome' = DivFastPath(lhs, rhs)
           /\ UNCHANGED <<build, op, lhs, rhs, profiling>>
ExecMod == op = "mod" /\ outcome = NoResult
           /\ outcome' = ModFastPath(lhs, rhs)
           /\ UNCHANGED <<build, op, lhs, rhs, profiling>>
ExecNegate == op = "negate" /\ outcome = NoResult
              /\ outcome' = NegateFastPath(lhs)
              /\ UNCHANGED <<build, op, lhs, rhs, profiling>>
ExecInc == op = "inc" /\ outcome = NoResult
           /\ outcome' = IncDecFastPath(lhs, 1)
           /\ UNCHANGED <<build, op, lhs, rhs, profiling>>
ExecDec == op = "dec" /\ outcome = NoResult
           /\ outcome' = IncDecFastPath(lhs, -1)
           /\ UNCHANGED <<build, op, lhs, rhs, profiling>>

ExecLShift == op = "lshift" /\ outcome = NoResult
              /\ outcome' = LShiftFastPath(lhs, rhs)
              /\ UNCHANGED <<build, op, lhs, rhs, profiling>>
ExecRShift == build = "JSVALUE64" /\ op = "rshift" /\ outcome = NoResult
              /\ outcome' = RightShiftFastPath(lhs, rhs, FALSE)
              /\ UNCHANGED <<build, op, lhs, rhs, profiling>>
ExecURShift == build = "JSVALUE64" /\ op = "urshift" /\ outcome = NoResult
               /\ (LET o == RightShiftFastPath(lhs, rhs, TRUE)
                   IN outcome' = IF o.slow THEN Slow ELSE UnsignedFastPath(o.res))
               /\ UNCHANGED <<build, op, lhs, rhs, profiling>>
ExecBitAnd == build = "JSVALUE64" /\ op = "bitand" /\ outcome = NoResult
              /\ outcome' = BitAndFastPath(lhs, rhs)
              /\ UNCHANGED <<build, op, lhs, rhs, profiling>>
ExecCompare == build = "JSVALUE64" /\ op \in CompareOps /\ outcome = NoResult
               /\ outcome' = CompareAndJump(op, lhs, rhs)
               /\ UNCHANGED <<build, op, lhs, rhs, profiling>>

(* The JSVALUE32_64 paths that differ from the JSVALUE64 ones; mul, mod,  *)
(* negate, inc, dec, lshift and unsigned compute the same in both.         *)
ExecDiv32 == build = "JSVALUE32_64" /\ op = "div" /\ outcome = NoResult
             /\ outcome' = DivFastPath32(lhs, rhs)
             /\ UNCHANGED <<build, op, lhs, rhs, profiling>>
ExecRShift32 == build = "JSVALUE32_64" /\ op = "rshift" /\ outcome = NoResult
                /\ outcome' = RightShiftFastPath32(lhs, rhs, FALSE)
                /\ UNCHANGED <<build, op, lhs, rhs, profiling>>
ExecURShift32 == build = "JSVALUE32_64" /\ op = "urshift" /\ outcome = NoResult
                 /\ (LET o == RightShiftFastPath32(lhs, rhs, TRUE)
                     IN outcome' = IF o.slow THEN Slow ELSE UnsignedFastPath(o.res))
                 /\ UNCHANGED <<build, op, lhs, rhs, profiling>>
ExecBitOp32 == build = "JSVALUE32_64" /\ op \in {"bitand", "bitor", "bitxor"}
               /\ outcome = NoResult
               /\ outcome' = BitOpFastPath32(op, lhs, rhs)
               /\ UNCHANGED <<build, op, lhs, rhs, profiling>>
ExecCompare32 == build = "JSVALUE32_64" /\ op \in CompareOps /\ outcome = NoResult
                 /\ outcome' = CompareAndJump32(op, lhs, rhs)
                 /\ UNCHANGED <<build, op, lhs, rhs, profiling>>

Next == \/ ExecMul \/ ExecDiv \/ ExecMod \/ ExecNegate \/ ExecInc \/ ExecDec
        \/ ExecLShift \/ ExecRShift \/ ExecURShift \/ ExecBitAnd \/ ExecCompare
        \/ ExecDiv32 \/ ExecRShift32 \/ ExecURShift32 \/ ExecBitOp32 \/ ExecCompare32

Spec == Init /\ [][Next]_vars

-----------------------------------------------------------------------------
\* The JavaScript value of the operation (the unary ones on ints only when
\* the fast path can finish).
JSResult ==
    CASE op = "mul" -> JSMul(ToNum(lhs.v), ToNum(rhs.v))
      [] op = "div" -> JSDiv(ToNum(lhs.v), ToNum(rhs.v))
      [] op = "mod" -> JSModInt(lhs.v.i, rhs.v.i)
      [] op = "negate" -> JSNeg(ToNum(lhs.v))
      [] op = "inc" -> IntNum(lhs.v.i + 1)
      [] op = "dec" -> IntNum(lhs.v.i - 1)
      [] op = "lshift" -> JSLShift(ToInt32(ToNum(lhs.v)), ToInt32(ToNum(rhs.v)))
      [] op = "rshift" -> JSRShift(ToInt32(ToNum(lhs.v)), ToInt32(ToNum(rhs.v)))
      [] op = "urshift" -> JSURShift(ToInt32(ToNum(lhs.v)), ToInt32(ToNum(rhs.v)))
      [] op = "bitand" -> JSBitAnd(ToInt32(ToNum(lhs.v)), ToInt32(ToNum(rhs.v)))
      [] op = "bitor" -> JSBitOr(ToInt32(ToNum(lhs.v)), ToInt32(ToNum(rhs.v)))
      [] op = "bitxor" -> JSBitXor(ToInt32(ToNum(lhs.v)), ToInt32(ToNum(rhs.v)))

TypeOK ==
    /\ build \in Builds
    /\ op \in OpsOf(build)
    /\ lhs \in Operands /\ rhs \in Operands
    /\ \/ outcome = NoResult
       \/ /\ outcome.slow \in BOOLEAN /\ outcome.prof \in BOOLEAN
          /\ ~outcome.slow /\ op \in CompareOps => outcome.res \in BOOLEAN
          /\ ~outcome.slow /\ op \notin CompareOps =>
                \/ outcome.res.tag = "int" /\ outcome.res.i \in Int32
                \/ outcome.res.tag = "double"

(* Whenever the emitted fast path finishes without the slow path, the     *)
(* value it stores is the JavaScript result, -0 told apart from +0: the   *)
(* overflow, negative zero, zero divisor and INT_MIN % -1 checks of       *)
(* emit_op_mul/div/mod/negate/inc/dec, the double truncation of the right *)
(* shifts, op_unsigned after op_urshift, and the tag arithmetic of         *)
(* op_bitand on JSValue64 bits leave no case to the wrong path.            *)
FastPathCorrect ==
    outcome # NoResult /\ ~outcome.slow /\ op \notin CompareOps =>
        IsNumber(outcome.res) /\ SameValue(ToNum(outcome.res), JSResult)

(* A compare-and-jump decided without operationCompare* jumps exactly when *)
(* JavaScript's comparison says so: on int32s, on a constant one-character *)
(* string, and on doubles in the slow path, where NaN makes the j forms     *)
(* fall through and the jn forms jump.                                     *)
JumpCorrect ==
    outcome # NoResult /\ ~outcome.slow /\ op \in CompareOps =>
        outcome.res = JSJump(op, lhs.v, rhs.v)

(* The special fast case counter is bumped for everything the DFG must   *)
(* not speculate on: by op_div whenever its result is not an int32 value  *)
(* (a fraction, -0, out of range, NaN or an infinity), by op_mul exactly  *)
(* when an int32 product is -0, and never by a fast path that returns an  *)
(* int32.  In the JSVALUE64 build op_div bumps it only then.  The         *)
(* JSVALUE32_64 division also counts a +0 quotient (the FIXME at its      *)
(* branchConvertDoubleToInt32); that over-count is not claimed either way *)
(* here and is listed as a hazard.                                        *)
ProfileMarksSpecialCases ==
    outcome # NoResult =>
        CASE op = "div" -> /\ (~outcome.slow /\ ~IsInt32Value(JSResult)) => outcome.prof
                          /\ (build = "JSVALUE64" /\ outcome.prof) =>
                                (~outcome.slow /\ ~IsInt32Value(JSResult))
          [] op = "mul" -> outcome.prof <=> /\ profiling
                                            /\ lhs.v.tag = "int" /\ rhs.v.tag = "int"
                                            /\ IsZero(JSResult) /\ JSResult.neg0
          [] OTHER -> ~outcome.prof

(* Every emitSlow_op_* links exactly the slow case entries its emit_op_*  *)
(* added, for every constness and static type of the operands and in      *)
(* both builds; one link too few or too many sends every later slow case  *)
(* of the code block to the wrong fast path jump.                          *)
SlowCasesPaired ==
    op # "mul" =>
        LET sc == IF build = "JSVALUE64" THEN SlowCases64(op, lhs, rhs)
                  ELSE SlowCases32(op, lhs, rhs)
        IN sc[1] = sc[2]

=============================================================================

----------------------------- MODULE AirOperand -----------------------------
(***************************************************************************)
(* What the operands of one Air instruction denote, without Arg's fields:  *)
(* a temporary, an immediate, an address (a base register, a stack slot,   *)
(* the call argument area, or base + index * scale) displaced by an int32  *)
(* offset, a condition as the set of inputs on which it holds, or a        *)
(* Special.  Compiler phases displace addresses (an offset outside int32   *)
(* leaves no operand), negate and swap conditions, move stack operands to  *)
(* other slots and rename temporaries within their register bank.          *)
(***************************************************************************)
EXTENDS Integers

CONSTANTS
    NumArgs,        \* operands of the instruction
    W,              \* width of an offset (32 in the code)
    Slots,          \* stack slots
    Renamings,      \* the temporary renamings a phase may apply
    OffsetSteps     \* displacements a phase may apply

Pos == 1 .. NumArgs
MinInt == -(2 ^ (W - 1))
MaxInt == 2 ^ (W - 1) - 1
Int32 == MinInt .. MaxInt

\* The inputs a condition is judged on: pairs of integers for a relational
\* condition, an arithmetic result with its overflow flag for a result
\* condition, pairs of doubles (NaN among them) for a double condition.
IntPairs == {-1, 0, 1} \X {-1, 0, 1}
ResultSamples == [v : {-1, 0, 1}, ovf : BOOLEAN]
DoubleVals == {[nan |-> FALSE, v |-> v] : v \in {-1, 0, 1}} \cup {[nan |-> TRUE, v |-> 0]}
DoublePairs == DoubleVals \X DoubleVals

Universe(kind) ==
    CASE kind = "RelCond" -> IntPairs
      [] kind = "ResCond" -> ResultSamples
      [] kind = "DoubleCond" -> DoublePairs

CondKinds == {"RelCond", "ResCond", "DoubleCond"}
OffsetKinds == {"Addr", "Stack", "CallArg", "Index"}

Invalid == [kind |-> "Invalid"]

VARIABLE operands

(* An address displaced by d: the same address at offset + d, or no       *)
(* operand when that is not an int32 or the operand is not an address.    *)
Shift(o, d) ==
    IF o.kind \in OffsetKinds /\ o.off + d \in Int32
    THEN [o EXCEPT !.off = o.off + d] ELSE Invalid

\* The negated condition holds exactly where the condition does not.
Complement(o) == [o EXCEPT !.holds = Universe(o.kind) \ o.holds]

\* The condition with its two inputs exchanged.
Swapped(o) == [o EXCEPT !.holds = {<<p[2], p[1]>> : p \in o.holds}]

RenameSlot(o, f) == IF o.kind = "Stack" THEN [o EXCEPT !.slot = f[o.slot]] ELSE o

RenameTmp(o, f) ==
    CASE o.kind = "Tmp" -> [o EXCEPT !.tmp = f[o.tmp]]
      [] o.kind = "Addr" -> [o EXCEPT !.base = f[o.base]]
      [] o.kind = "Index" -> [o EXCEPT !.base = f[o.base], !.index = f[o.index]]
      [] OTHER -> o

\* Any instruction the lowering built: one operand per position.
Init == DOMAIN operands = Pos

Next ==
    \/ \E i \in Pos :
          \/ \E d \in OffsetSteps : operands' = [operands EXCEPT ![i] = Shift(@, d)]
          \/ /\ operands[i].kind \in CondKinds
             /\ operands' = [operands EXCEPT ![i] = Complement(@)]
          \/ /\ operands[i].kind = "RelCond"
             /\ operands' = [operands EXCEPT ![i] = Swapped(@)]
    \/ \E f \in [Slots -> Slots] : operands' = [i \in Pos |-> RenameSlot(operands[i], f)]
    \/ \E f \in Renamings : operands' = [i \in Pos |-> RenameTmp(operands[i], f)]

Spec == Init /\ [][Next]_operands
=============================================================================

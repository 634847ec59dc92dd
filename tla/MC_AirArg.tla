------------------------------ MODULE MC_AirArg ------------------------------
EXTENDS AirArg, FTLOSRExit

CONSTANTS g1, rg, f1, rf     \* GP and FP temporaries, rg and rf registers

\* Offsets are 3-bit integers (-4 .. 3), so a displacement of 1 or -4
\* overflows within a few steps.
MCNumArgs == 2
MCW == 3
MCSlots == {16, 32}
MCSpecials == {48}
MCGPTmps == {g1, rg}
MCFPTmps == {f1, rf}
MCRegs == {rg, rf}
MCOffsetSteps == {1, -4}

\* The Special clobbers one register of each bank.
MCClobbers == [s \in MCSpecials |-> {rg, rf}]

Operand(role, type, kinds) == [role |-> role, type |-> type, kinds |-> kinds]
Conds == {"RelCond", "ResCond", "DoubleCond"}

\* forEachArg of a few opcodes: Move, Add32, MoveDouble, Lea, Branch and
\* Patch (a Special first).
MCShapes ==
    { <<Operand("Use", "GP", {"Tmp", "Imm", "Addr", "Stack", "Index"}),
        Operand("Def", "GP", {"Tmp", "Addr", "Stack", "Index"})>>,
      <<Operand("Use", "GP", {"Tmp", "Imm", "Addr"}),
        Operand("UseDef", "GP", {"Tmp", "Addr"})>>,
      <<Operand("Use", "FP", {"Tmp", "Addr", "Stack"}),
        Operand("Def", "FP", {"Tmp", "Addr", "Stack"})>>,
      <<Operand("UseAddr", "GP", {"Addr", "Index"}),
        Operand("Def", "GP", {"Tmp"})>>,
      <<Operand("Use", "GP", Conds), Operand("Use", "GP", {"Tmp"})>>,
      <<Operand("Use", "GP", {"Special"}), Operand("Def", "GP", {"Tmp", "CallArg"})>> }

\* The FTL OSR exit checked beside the Air operands: two volatile and one
\* callee-saved GPR, one volatile and one callee-saved FPR, so a preserved
\* GPR and a preserved FPR share the spill slot.
MCVolatileGPRs == {1, 2}
MCVolatileFPRs == {1}

\* The operands and one OSR exit, their steps interleaved.
MCVars == <<vars, exitVars>>
MCInit == ExitInit /\ Init
MCNext == (Next /\ UNCHANGED exitVars) \/ (ExitNext /\ UNCHANGED vars)
MCSpec == MCInit /\ [][MCNext]_MCVars
=============================================================================

----------------------------- MODULE MC_JITArith -----------------------------
EXTENDS JITArith

\* 4-bit registers: overflow, INT_MIN and -1 are reached by small operands.
MCW == 4
\* -0, a fraction, an integral double, an integral double beyond int32 (at
\* W = 4, 9 is out of range) and NaN.
MCDoubleVals == {Num(0, 1, TRUE), Num(1, 2, FALSE), Num(-3, 1, FALSE), Num(9, 1, FALSE), NaN}
=============================================================================

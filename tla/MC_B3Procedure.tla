--------------------------- MODULE MC_B3Procedure ---------------------------
EXTENDS B3Procedure

CONSTANTS v1, v2, v3

MCValueIds == {v1, v2}
MCMaxBlocks == 3
=============================================================================

--------------------------- MODULE MC_AirGenerate ---------------------------
EXTENDS AirGenerate

MCNumSlots == 3
MCMaxBody == 1
=============================================================================

------------------------------ MODULE MC_IndexStore ------------------------------
EXTENDS IndexStore

\* Two index keys and two primary keys: a key with two records, a record
\* under two keys, a deletion that empties one entry and not the other.
MCNumKeys == 2
MCNumPKs == 2
\* iterate() with count 0 (one step), 1 and 2.
MCMaxCount == 2
=============================================================================

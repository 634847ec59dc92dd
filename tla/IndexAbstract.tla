---------------------------- MODULE IndexAbstract ----------------------------
(***************************************************************************)
(* What an IndexedDB index holds, without its data structures: a set of    *)
(* (index key, primary key) pairs.  Putting a record adds a pair (or, in a *)
(* unique index that already has the key, nothing); rolling back one index *)
(* key removes one pair; deleting a record removes every pair of its       *)
(* primary key; clearing the index removes all.                            *)
(***************************************************************************)
CONSTANTS
    Keys,       \* index keys
    PKs         \* primary keys

VARIABLE pairs

Init == pairs = {}

AddPair(k, p) == pairs' = pairs \cup {<<k, p>>}

RemovePair(k, p) == pairs' = pairs \ {<<k, p>>}

RemoveValue(p) == pairs' = {q \in pairs : q[2] # p}

Clear == pairs' = {}

Next ==
    \E k \in Keys, p \in PKs : AddPair(k, p) \/ RemovePair(k, p) \/ RemoveValue(p)
    \/ Clear

Spec == Init /\ [][Next]_pairs
=============================================================================

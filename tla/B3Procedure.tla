----------------------------- MODULE B3Procedure -----------------------------
(***************************************************************************)
(* The B3 Procedure (src/JavaScriptCore/b3/B3Procedure.{h,cpp}): the arena *)
(* of basic blocks and of Values.  Blocks live in m_blocks, addressed by   *)
(* their index; resetReachability() leaves a null hole where a block was   *)
(* removed.  Values live in m_values, addressed by Value::index(); a       *)
(* deleted Value leaves a null slot whose index goes on                    *)
(* m_valueIndexFreeList, and addValueIndex() reuses the last freed index   *)
(* before it grows the array.                                              *)
(*                                                                         *)
(* A Value is a model value drawn from ValueIds (a fresh C++ object each   *)
(* time).  A block is abstracted to the list of its Values and the set of  *)
(* its successor block indices (the successors of its terminal Value).     *)
(* What a block contains and how the front end fills it are written in     *)
(* B3BasicBlock/B3ProcedureInlines, which are not part of this source:     *)
(* those actions are modelled from the spec.                               *)
(***************************************************************************)
EXTENDS Naturals, Sequences, FiniteSets, SequencesExt

CONSTANTS
    ValueIds,   \* the Value objects a run may create (model values)
    MaxBlocks,  \* bound on m_blocks.size()
    Null        \* a null pointer (model value)

VARIABLES
    blocks,     \* m_blocks: index -> Null or [vals |-> Seq(ValueIds), succs |-> SUBSET Nat]
    nBlocks,    \* m_blocks.size()
    values,     \* m_values: index -> ValueIds \cup {Null}
    nSlots,     \* m_values.size()
    freeList,   \* m_valueIndexFreeList (a stack: append / takeLast)
    index,      \* Value::index() of every Value ever created
    owner,      \* Value::owner of every Value ever created
    unused      \* Value objects not yet allocated

vars == <<blocks, nBlocks, values, nSlots, freeList, index, owner, unused>>

Entry == 0

BlockIdx == 0 .. (MaxBlocks - 1)
SlotIdx == 0 .. (Cardinality(ValueIds) - 1)
Created == ValueIds \ unused

\* The present (non-null) blocks: what Procedure::iterator visits.
Present == {b \in 0 .. (nBlocks - 1) : blocks[b] # Null}

\* A Value is live when its slot still holds it.
IsLive(v) == v \in Created /\ index[v] < nSlots /\ values[index[v]] = v

LiveValues == {v \in Created : IsLive(v)}

\* The Values a present block lists.
Listed(b) == ToSet(blocks[b].vals)

-----------------------------------------------------------------------------
(* Faulty variants of the helpers below, each the way a plausible slip in  *)
(* the C++ would change it; each property must fail under one of them.     *)

\* addValueIndex() reading the free list with last() instead of takeLast().
AddValueIndexKeepsFree ==
    IF freeList = <<>>
    THEN [idx |-> nSlots, free |-> freeList, size |-> nSlots + 1]
    ELSE [idx |-> Last(freeList), free |-> freeList, size |-> nSlots]

\* A deletion callback that frees nothing, as Air::Code passes.
DeleteBlockValuesNoop(vs, st) == st

\* A traversal that marks only the direct successors of the worklist.
MarkOnce(work, seen) == seen \cup UNION {blocks[b].succs : b \in work}

(* Procedure::addValueIndex(): reuse the last freed index, else grow.      *)
AddValueIndex ==
    IF freeList = <<>>
    THEN [idx |-> nSlots, free |-> freeList, size |-> nSlots + 1]
    ELSE [idx |-> Last(freeList), free |-> Front(freeList), size |-> nSlots]

(* Procedure::deleteValue(): null the slot, push the index on the free     *)
(* list.  The ASSERT that the slot still holds the Value is debug-only.    *)
DeleteValueState(v, vals, free) ==
    [values |-> [vals EXCEPT ![index[v]] = Null],
     free |-> Append(free, index[v])]

(* The callback Procedure::resetReachability() passes: delete every Value  *)
(* of a removed block, one deleteValue() after another.                    *)
RECURSIVE DeleteBlockValues(_, _)
DeleteBlockValues(vs, st) ==
    IF vs = <<>> THEN st
    ELSE DeleteBlockValues(Tail(vs), DeleteValueState(Head(vs), st.values, st.free))

(* B3::resetReachability's worklist traversal from block 0 (spec 4.2):     *)
(* each popped block pushes its successors, each block is marked once.     *)
RECURSIVE Mark(_, _)
Mark(work, seen) ==
    IF work = {} THEN seen
    ELSE LET b == CHOOSE x \in work : TRUE
             new == blocks[b].succs \ seen
         IN Mark((work \ {b}) \cup new, seen \cup new)

-----------------------------------------------------------------------------
Init ==
    /\ blocks = [b \in BlockIdx |-> Null]
    /\ nBlocks = 0
    /\ values = [i \in SlotIdx |-> Null]
    /\ nSlots = 0
    /\ freeList = <<>>
    /\ index = [v \in ValueIds |-> 0]
    /\ owner = [v \in ValueIds |-> Null]
    /\ unused = ValueIds

(* Procedure::addBlock(): a new empty block at index m_blocks.size().      *)
AddBlock ==
    /\ nBlocks < MaxBlocks
    /\ blocks' = [blocks EXCEPT ![nBlocks] = [vals |-> <<>>, succs |-> {}]]
    /\ nBlocks' = nBlocks + 1
    /\ UNCHANGED <<values, nSlots, freeList, index, owner, unused>>

(* block->appendNew<T>(proc, ...): Procedure::add<T>() takes an index from *)
(* addValueIndex() and stores the new Value there; the block appends it    *)
(* and becomes its owner.                                                  *)
AppendNewValue(b, v) ==
    LET a == AddValueIndex IN
    /\ values' = [values EXCEPT ![a.idx] = v]
    /\ freeList' = a.free
    /\ nSlots' = a.size
    /\ index' = [index EXCEPT ![v] = a.idx]
    /\ owner' = [owner EXCEPT ![v] = b]
    /\ blocks' = [blocks EXCEPT ![b].vals = Append(@, v)]
    /\ unused' = unused \ {v}
    /\ UNCHANGED nBlocks

AddValue ==
    \E b \in Present, v \in unused : AppendNewValue(b, v)

(* The front end sets a block's terminal: an edge to an existing block.    *)
AddEdge ==
    \E b, c \in Present :
        /\ c \notin blocks[b].succs
        /\ blocks' = [blocks EXCEPT ![b].succs = @ \cup {c}]
        /\ UNCHANGED <<nBlocks, values, nSlots, freeList, index, owner, unused>>

(* A phase removes a Value from its block and deletes it.                  *)
KillValue ==
    \E b \in Present : \E i \in 1 .. Len(blocks[b].vals) :
        LET v == blocks[b].vals[i]
            st == DeleteValueState(v, values, freeList)
        IN /\ blocks' = [blocks EXCEPT ![b].vals = RemoveAt(@, i)]
           /\ values' = st.values
           /\ freeList' = st.free
           /\ UNCHANGED <<nBlocks, nSlots, index, owner, unused>>

(* A phase moves a Value to another block without updating its owner.     *)
MoveValue ==
    \E b, c \in Present : b # c /\ \E i \in 1 .. Len(blocks[b].vals) :
        /\ blocks' = [blocks EXCEPT ![b].vals = RemoveAt(@, i),
                                    ![c].vals = Append(@, blocks[b].vals[i])]
        /\ UNCHANGED <<nBlocks, values, nSlots, freeList, index, owner, unused>>

(* Procedure::resetValueOwners(): every Value of every present block gets  *)
(* that block as owner.                                                    *)
ResetValueOwners ==
    /\ owner' = [v \in ValueIds |->
                    IF \E b \in Present : v \in Listed(b)
                    THEN CHOOSE b \in Present : v \in Listed(b)
                    ELSE owner[v]]
    /\ UNCHANGED <<blocks, nBlocks, values, nSlots, freeList, index, unused>>

(* Procedure::resetReachability(): blocks not reached from block 0 become  *)
(* null, and the callback deletes the Values each of them held; the sweep  *)
(* of B3::resetReachability visits the removed blocks in index order.      *)
ResetReachability ==
    /\ nBlocks > 0
    /\ LET reached == Mark({Entry}, {Entry})
           dead == SetToSortSeq(Present \ reached, <)
           st == FoldLeft(LAMBDA s, b : DeleteBlockValues(blocks[b].vals, s),
                          [values |-> values, free |-> freeList], dead)
       IN /\ blocks' = [b \in BlockIdx |->
                           IF b \in Present \ reached THEN Null ELSE blocks[b]]
          /\ values' = st.values
          /\ freeList' = st.free
    /\ UNCHANGED <<nBlocks, nSlots, index, owner, unused>>

Next ==
    \/ AddBlock
    \/ AddValue
    \/ AddEdge
    \/ KillValue
    \/ MoveValue
    \/ ResetValueOwners
    \/ ResetReachability

Spec == Init /\ [][Next]_vars

-----------------------------------------------------------------------------
TypeOK ==
    /\ nBlocks \in 0 .. MaxBlocks
    /\ nSlots \in 0 .. Cardinality(ValueIds)
    /\ \A b \in Present : /\ blocks[b].vals \in Seq(ValueIds)
                          /\ blocks[b].succs \subseteq Present
    /\ values \in [SlotIdx -> ValueIds \cup {Null}]
    /\ freeList \in Seq(SlotIdx)
    /\ index \in [ValueIds -> SlotIdx]
    /\ owner \in [ValueIds -> BlockIdx \cup {Null}]
    /\ unused \subseteq ValueIds

(* The free list and the null slots of m_values agree: an index is on the *)
(* free list exactly when its slot is null, never twice, and every live   *)
(* Value sits at its own index.  A second addValue() handing out an index *)
(* still on the list would make two Values share one slot.                 *)
ArenaConsistent ==
    /\ \A i \in 0 .. (nSlots - 1) : (values[i] = Null) <=> Contains(freeList, i)
    /\ Len(freeList) = Cardinality(ToSet(freeList))
    /\ \A i \in 0 .. (nSlots - 1) :
          values[i] # Null => values[i] \in Created /\ index[values[i]] = i

(* No dangling Value and no leaked Value (spec 8): every Value a present   *)
(* block lists is live, and every live Value is listed by exactly one      *)
(* present block, after any sequence of edits and resetReachability()     *)
(* calls.  A removed block whose Values the callback forgets leaves live   *)
(* Values that no block owns.                                              *)
ValuesOwnedByPresentBlocks ==
    /\ \A b \in Present : \A v \in Listed(b) : IsLive(v)
    /\ \A v \in LiveValues : \E b \in Present :
          /\ v \in Listed(b)
          /\ \A c \in Present \ {b} : v \notin Listed(c)
=============================================================================

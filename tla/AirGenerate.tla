---------------------------- MODULE AirGenerate ----------------------------
(***************************************************************************)
(* Air::generate() (src/JavaScriptCore/b3/air/AirGenerate.cpp): emission   *)
(* of machine code for a laid-out Air::Code, with the linking of branches  *)
(* to block labels.  Blocks are visited in index order by Code's iterator, *)
(* which skips null slots; each block first links the jumps that waited    *)
(* for it, then records its label, emits its body, and emits its          *)
(* terminal unless it is a Jump to the next block.  A jump to a block      *)
(* already labelled is linked at once (a backward jump); otherwise it is   *)
(* appended to that block's JumpList (a forward jump).  The late paths     *)
(* registered by instructions are emitted after the last block.           *)
(*                                                                         *)
(* Emitted code is a sequence of records: op is "prologue", "body",        *)
(* "term" (the jump or trap the last Inst generates), "jmp" (the extra     *)
(* jit.jump() of a two-way branch), "ret" (epilogue and ret) or "late";    *)
(* blk is the block that emitted it and tgt the position a jump lands on.  *)
(***************************************************************************)
EXTENDS Naturals, Sequences, FiniteSets

LOCAL R == INSTANCE Relation

CONSTANTS
    NumSlots,   \* code.size(): block slots, some of which may be null
    MaxBody,    \* bound on the non-terminal Insts of a block
    Null,       \* a null block slot (model value)
    NoLabel,    \* an unset CCallHelpers::Label (model value)
    Unlinked,   \* a jump not linked yet (model value)
    None        \* no target (model value)

Slots == 0 .. (NumSlots - 1)

\* The Air terminals: Jump (1 successor), Branch (2), Ret and Oops (0).
Terminals == {"Jump", "Branch", "Ret", "Oops"}
NumSuccessors(t) == CASE t = "Jump" -> 1 [] t = "Branch" -> 2 [] OTHER -> 0

\* A block: its terminal, successor list, body size and late paths.
BlockRec(present) ==
    UNION {{r \in [term : {t},
                   succs : {s \in [1 .. NumSuccessors(t) -> present] :
                              NumSuccessors(t) = 2 => s[1] # s[2]},
                   body : 0 .. MaxBody,
                   late : 0 .. MaxBody] : r.late <= r.body} : t \in Terminals}

\* Layouts prepareForGeneration() can leave: block 0 present, every
\* present block reachable from it.
Layouts ==
    LET Reach(l) == LET P == {b \in Slots : l[b] # Null}
                        E == [p \in P \X P |-> \E i \in DOMAIN l[p[1]].succs :
                                                   l[p[1]].succs[i] = p[2]]
                    IN {c \in P : c = 0 \/ R!TransitiveClosure(E, P)[<<0, c>>]}
    IN {l \in UNION {[Slots -> BlockRec(P) \cup {Null}] :
                       P \in {Q \in SUBSET Slots : 0 \in Q}} :
          /\ l[0] # Null
          /\ \A b \in Slots : l[b] # Null =>
                /\ \A i \in DOMAIN l[b].succs : l[l[b].succs[i]] # Null
          /\ Reach(l) = {b \in Slots : l[b] # Null}}

VARIABLES
    blocks,     \* the Air::Code being generated (fixed)
    code,       \* the instructions emitted into the CCallHelpers so far
    labels,     \* blockLabels
    pending,    \* blockJumps: positions of jumps waiting for a block's label
    cursor,     \* the block slot the loop is at
    latePaths,  \* context.latePaths: blocks whose Insts registered one
    pc          \* "prologue", "blocks", "late", "done"

vars == <<blocks, code, labels, pending, cursor, latePaths, pc>>

Present == {b \in Slots : blocks[b] # Null}

\* A block search that does not skip null slots.
FindFirstBlockIndexNoSkip(i) == i

(* Code::findFirstBlockIndex(): first non-null slot at or after index.   *)
FindFirstBlockIndex(i) ==
    IF \E j \in Present : j >= i
    THEN CHOOSE j \in Present : j >= i /\ \A k \in Present : k >= i => j <= k
    ELSE NumSlots

(* Code::findNextBlock(): the next non-null block, or null.               *)
FindNextBlock(b) ==
    LET i == FindFirstBlockIndex(b + 1) IN IF i < NumSlots THEN i ELSE Null

Successor(b, i) == blocks[b].succs[i]

-----------------------------------------------------------------------------
(* Faulty variants of the helpers below, each the way a plausible slip in  *)
(* the C++ would change it; each property must fail under one of them.     *)

\* A link lambda that always defers to the JumpList, even when the target
\* already has a label.
LinkAlwaysDefers(lbl, t) == Unlinked

\* The two-way branch omitting its jump to the not-taken successor.
NeedsFallThroughJumpNever(b) == FALSE

(* The link lambda: the position a jump to t gets now.                    *)
Link(lbl, t) == IF lbl[t] # NoLabel THEN lbl[t] ELSE Unlinked

(* A two-way branch needs jit.jump() to successor 1 unless that block      *)
(* comes next.                                                             *)
NeedsFallThroughJump(b) == Successor(b, 2) # FindNextBlock(b)

(* The instructions the terminal of block b emits, with the label map lbl *)
(* in force: the elided Jump, Ret, a zero-successor Inst, a Jump, or a   *)
(* Branch with its optional jump to successor 1.                          *)
Terminal(b, lbl) ==
    LET t == blocks[b].term
        I(op, tgt) == [op |-> op, blk |-> b, tgt |-> tgt]
    IN CASE t = "Jump" /\ Successor(b, 1) = FindNextBlock(b) -> <<>>
         [] t = "Ret" -> <<I("ret", None)>>
         [] t = "Oops" -> <<I("term", None)>>
         [] t = "Jump" -> <<I("term", Link(lbl, Successor(b, 1)))>>
         [] t = "Branch" ->
              <<I("term", Link(lbl, Successor(b, 1)))>> \o
              (IF NeedsFallThroughJump(b)
               THEN <<I("jmp", Link(lbl, Successor(b, 2)))>> ELSE <<>>)

(* The successor each emitted jump of Terminal(b, lbl) is meant for.   *)
JumpTarget(b, k) == IF blocks[b].term = "Branch" /\ k = 2
                    THEN Successor(b, 2) ELSE Successor(b, 1)

-----------------------------------------------------------------------------
Init ==
    /\ blocks \in Layouts
    /\ code = <<>>
    /\ labels = [b \in Slots |-> NoLabel]
    /\ pending = [b \in Slots |-> {}]
    /\ cursor = 0
    /\ latePaths = <<>>
    /\ pc = "prologue"

(* emitFunctionPrologue() and the frame adjustment.                        *)
Prologue ==
    /\ pc = "prologue"
    /\ code' = <<[op |-> "prologue", blk |-> None, tgt |-> None]>>
    /\ pc' = "blocks"
    /\ UNCHANGED <<blocks, labels, pending, cursor, latePaths>>

(* One iteration of the block loop: link the jumps waiting for the block, *)
(* set its label, emit its body and terminal, link or defer the jumps of  *)
(* the terminal, and move to the next non-null block.                     *)
EmitBlock ==
    /\ pc = "blocks"
    /\ cursor < NumSlots
    /\ LET b == cursor
           L == Len(code) + 1
           lbl == [labels EXCEPT ![b] = L]
           linked == [p \in DOMAIN code |->
                        IF p \in pending[b] THEN [code[p] EXCEPT !.tgt = L]
                        ELSE code[p]]
           body == [i \in 1 .. blocks[b].body |-> [op |-> "body", blk |-> b, tgt |-> None]]
           e == L + blocks[b].body
           term == Terminal(b, lbl)
           waits == {<<e + k - 1, JumpTarget(b, k)>> :
                        k \in {k \in DOMAIN term : term[k].tgt = Unlinked}}
       IN /\ code' = linked \o body \o term
          /\ labels' = lbl
          /\ pending' = [c \in Slots |->
                            (IF c = b THEN {} ELSE pending[c]) \cup
                            {w[1] : w \in {w \in waits : w[2] = c}}]
          /\ latePaths' = IF blocks[b].late > 0 THEN Append(latePaths, b) ELSE latePaths
          /\ cursor' = FindFirstBlockIndex(b + 1)
    /\ UNCHANGED <<blocks, pc>>

(* After the last block: every registered late path emits its code.       *)
RunLatePaths ==
    /\ pc = "blocks"
    /\ cursor = NumSlots
    /\ code' = code \o [i \in DOMAIN latePaths |->
                          [op |-> "late", blk |-> latePaths[i], tgt |-> None]]
    /\ pc' = "done"
    /\ UNCHANGED <<blocks, labels, pending, cursor, latePaths>>

Next == Prologue \/ EmitBlock \/ RunLatePaths

Spec == Init /\ [][Next]_vars

-----------------------------------------------------------------------------
TypeOK ==
    /\ pc \in {"prologue", "blocks", "done"}
    /\ cursor \in Present \cup {NumSlots}
    /\ \A p \in DOMAIN code :
          code[p].op \in {"prologue", "body", "term", "jmp", "ret", "late"}
    /\ \A b \in Slots : labels[b] \in Nat \cup {NoLabel}
    /\ \A b \in Slots : pending[b] \subseteq DOMAIN code

(* When generation is over, no emitted jump is left unlinked and no block *)
(* still has jumps waiting: forward jumps were linked when their target   *)
(* was reached, backward jumps (loops) at once.                           *)
JumpsResolved ==
    pc = "done" =>
        /\ \A p \in DOMAIN code : code[p].tgt # Unlinked
        /\ \A b \in Slots : pending[b] = {}

(* Where control goes after the instruction at position e of block b's    *)
(* terminal: a jump emitted by b itself, or falling through to e.         *)
Reaches(b, e, s) ==
    IF e \in DOMAIN code /\ code[e].blk = b /\ code[e].op \in {"term", "jmp"}
    THEN code[e].tgt = labels[s]
    ELSE e = labels[s]

(* The emitted code keeps the control flow of the Air CFG: after the      *)
(* prologue block 0 starts; each block's label is followed by its body;   *)
(* a Jump reaches its successor's label by a jump or by falling through;  *)
(* a Branch jumps to successor 0 and reaches successor 1 by a jump or by  *)
(* falling through; a Ret ends with the epilogue; no code falls into the  *)
(* late paths.                                                             *)
ControlFlowPreserved ==
    pc = "done" =>
        /\ labels[0] = 2
        /\ \A b \in Present :
              LET L == labels[b]
                  e == L + blocks[b].body
              IN /\ \A p \in L .. (e - 1) : code[p].op = "body" /\ code[p].blk = b
                 /\ CASE blocks[b].term = "Jump" -> Reaches(b, e, Successor(b, 1))
                      [] blocks[b].term = "Branch" ->
                           /\ code[e].op = "term" /\ code[e].blk = b
                           /\ code[e].tgt = labels[Successor(b, 1)]
                           /\ Reaches(b, e + 1, Successor(b, 2))
                      [] blocks[b].term = "Ret" -> code[e].op = "ret" /\ code[e].blk = b
                      [] OTHER -> code[e].op = "term" /\ code[e].blk = b
=============================================================================

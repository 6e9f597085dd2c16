---------------------------- MODULE ControlFlow -----------------------------
(***************************************************************************)
(* The function that a value is sliced from: its control-flow graph and    *)
(* its instructions in SSA form; dominance; the gates of phis and the      *)
(* attractors of blocks.                                                   *)
(*                                                                         *)
(* The successors of a block are a set: which of them a branch names first *)
(* is left open.  Blocks end in branches, switches or a return.            *)
(***************************************************************************)
EXTENDS FiniteSets, Naturals, Sequences

CONSTANT Funcs     \* the functions examined

\* The terminator of a block is an instruction too.
Terminator(b) == <<"terminator", b>>

(***************************************************************************)
(* A function: its blocks, entry and successors; the block of every        *)
(* instruction; the operands of instructions other than phis, in order;    *)
(* the incoming values of phis; the instructions of a block other than     *)
(* phis and the terminator, in order; the formal arguments; the blocks     *)
(* that end in a switch; and the instruction to slice.  Constants are no   *)
(* values here.                                                            *)
(***************************************************************************)
Inst(f) == DOMAIN f.at
Phis(f) == DOMAIN f.inc
Operands(f, v) ==
    IF v \in Phis(f) THEN {f.inc[v][p] : p \in DOMAIN f.inc[v]}
    ELSE IF v \in Inst(f) THEN {f.ops[v][i] : i \in DOMAIN f.ops[v]}
    ELSE {}
Preds(f, b) == {p \in f.blocks : b \in f.succ[p]}

-----------------------------------------------------------------------------
\* The blocks reached from block s on paths that do not enter the set A.
ReachAvoiding(f, s, A) ==
    LET closed == {S \in SUBSET f.blocks :
                      (s \notin A => s \in S) /\ \A b \in S : f.succ[b] \subseteq S \cup A}
    IN  {b \in f.blocks : \A S \in closed : b \in S}

Exits(f) == {b \in f.blocks : f.succ[b] = {}}

\* Dominance and postdominance, both reflexive.
Dom(f, a, b) == b \notin ReachAvoiding(f, f.entry, {a})
PDom(f, a, b) == Exits(f) \cap ReachAvoiding(f, b, {a}) = {}

(***************************************************************************)
(* Static single assignment form: what LLVM's verifier asks of a function. *)
(* Every instruction has its place; phis have a value for each edge; no    *)
(* branch enters the first block; and a value is defined before it is      *)
(* used: earlier in the same block, in a dominating block or, for a phi,   *)
(* in a block that dominates the edge.  Terminators yield no value.        *)
(***************************************************************************)
InSSA(f) ==
    /\ Preds(f, f.entry) = {}
    /\ DOMAIN f.ops = Inst(f) \ Phis(f)
    /\ \A b \in f.blocks : f.at[Terminator(b)] = b /\ Terminator(b) \notin Phis(f)
    /\ \A b \in f.blocks, v \in Inst(f) : Terminator(b) \notin Operands(f, v) \cup {f.initial}
    /\ f.body \in [f.blocks -> Seq(Inst(f) \ Phis(f))]
    /\ \A b \in f.blocks : \A i \in DOMAIN f.body[b] :
           LET v == f.body[b][i]
           IN  /\ f.at[v] = b /\ v # Terminator(b)
               /\ \A k \in DOMAIN f.body[b] :
                      k >= i => f.body[b][k] \notin Operands(f, v) /\ (f.body[b][k] = v => k = i)
    /\ \A v \in Inst(f) \ Phis(f) : \A u \in Operands(f, v) \cap Inst(f) : Dom(f, f.at[u], f.at[v])
    /\ \A v \in Phis(f) :
           /\ DOMAIN f.inc[v] = Preds(f, f.at[v]) /\ f.at[v] # f.entry
           /\ \A p \in DOMAIN f.inc[v] : f.inc[v][p] \in Inst(f) => Dom(f, f.at[f.inc[v][p]], p)

IsFunction(f) ==
    /\ f.entry \in f.blocks
    /\ f.succ \in [f.blocks -> SUBSET f.blocks]
    /\ f.at \in [Inst(f) -> f.blocks]
    /\ f.initial \in Inst(f) /\ f.args \cap Inst(f) = {}
    /\ \A b \in f.blocks : Terminator(b) \in Inst(f)
    /\ \A v \in Inst(f) : Operands(f, v) \subseteq Inst(f) \cup f.args
    /\ \A v \in Phis(f) : v \in Inst(f) /\ DOMAIN f.inc[v] \subseteq f.blocks
    \* no block is dead, and no loop is without an exit
    /\ ReachAvoiding(f, f.entry, {}) = f.blocks
    /\ \A b \in f.blocks : Exits(f) \cap ReachAvoiding(f, b, {}) # {}
    /\ InSSA(f)

ASSUME FuncsAssumption == \A f \in Funcs : IsFunction(f)

-----------------------------------------------------------------------------
\* The dominators of a block that it does not postdominate; the search goes up
\* the dominator tree from the block itself, so it stops at the nearest.
Controllers(f, b) == {d \in f.blocks : Dom(f, d, b) /\ ~PDom(f, b, d)}
getController(f, b) ==
    {d \in Controllers(f, b) : \A e \in Controllers(f, b) : Dom(f, e, d)}

getGate(b) == Terminator(b)

\* A faulty variant of computeGates: any predecessor that dominates is a gate.
computeGatesOfPreds(f, b) ==
    IF Cardinality(Preds(f, b)) <= 1 THEN {}
    ELSE {getGate(c) : c \in UNION {IF Dom(f, p, b) THEN {p}
                                    ELSE getController(f, p) : p \in Preds(f, b)}}

\* The gates of the phis of block b.
computeGates(f, b) ==
    IF Cardinality(Preds(f, b)) <= 1 THEN {}
    ELSE {getGate(c) : c \in UNION {IF Dom(f, p, b) /\ ~PDom(f, b, p) THEN {p}
                                    ELSE getController(f, p) : p \in Preds(f, b)}}

\* The attractor of a block: itself, or its nearest postdominator in the slice.
computeAttractorBlocks(f, BBs, b) ==
    LET cands == {a \in BBs : PDom(f, a, b)}
    IN  IF b \in BBs THEN {b} ELSE {a \in cands : \A c \in cands : PDom(f, c, a)}
=============================================================================

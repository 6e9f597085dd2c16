--------------------------- MODULE OutlineProofs ----------------------------
(***************************************************************************)
(* Proofs about outlining: the slice is the one that the walk built, so    *)
(* all that is proved of the walk holds of it, and the delegate is whole.  *)
(* The second half is about graphs: if the gates suffice, the branches of  *)
(* the delegate go where the function meets the slice next, and the gates  *)
(* of a slice without phis and loops always suffice.                       *)
(***************************************************************************)
EXTENDS Outline, ProgramSliceProofs

\* Outlining and running leave the slice alone: the slice of Outline is built
\* by the walk of ProgramSlice and by nothing else.
THEOREM OutlineImplementsWalk == Spec => WalkSpec
<1>1. OutInit => Init
  BY DEF OutInit
<1>2. [Next]_vars => [WalkNext]_sliceVars
  BY DEF Next, vars, Slice, outline, Execute, CallerBranches, CallerEnds, CallDelegate,
         DelegateBranches, DelegateReturns, DelegateFails, Done
<1> QED
  BY <1>1, <1>2, PTL DEF Spec, WalkSpec

\* The queue and the marks of get_data_dependences_for lose nothing.
THEOREM OutlineWalkInv == Spec => []WalkInv
BY OutlineImplementsWalk, WalkCorrect, PTL

\* A slice that is outlined holds the operands, gates and blocks it needs.
THEOREM OutlineSliceClosed == Spec => []SliceIsClosed
BY OutlineImplementsWalk, SliceClosed, PTL

\* The assertion of getGate never fails, on any control-flow graph.
THEOREM OutlineGatesConditional == Spec => []GatesAreConditional
BY OutlineImplementsWalk, GatesConditional, PTL

-----------------------------------------------------------------------------
SliceFacts == Fixed /\ WalkInv /\ Attracting

\* What is proved of the walk holds of the slice that is outlined.
LEMMA OutlineSliceFacts == Spec => []SliceFacts
BY OutlineImplementsWalk, WalkFixed, WalkCorrect, WalkAttracting, PTL DEF SliceFacts

\* What a branch is rerouted to is in the slice.
LEMMA AttractedTyped ==
    ASSUME SliceFacts, sliced, NEW s \in f.blocks
    PROVE  Attracted(s) \in BBs \cup {NoBlock}
<1>1. attractors[s] = computeAttractorBlocks(f, BBs, s)
  BY DEF SliceFacts, Attracting
<1>2. attractors[s] \subseteq BBs
  BY <1>1 DEF computeAttractorBlocks
<1> QED
  BY <1>2 DEF Attracted

\* A block without terminator is sent to a block of the slice, or nowhere.
LEMMA TargetsTyped ==
    ASSUME SliceFacts, sliced, NEW b \in BBs
    PROVE  Targets(b) \subseteq BBs \cup {NoBlock}
<1>1. b \in f.blocks /\ f.succ[b] \subseteq f.blocks
  BY BlocksTyped, FuncsAssumption DEF SliceFacts, Fixed, IsFunction
<1>2. \A s \in f.succ[b] : Attracted(s) \in BBs \cup {NoBlock}
  BY <1>1, AttractedTyped
<1>3. addDomBranches(b) \subseteq BBs
  BY DEF addDomBranches
<1> QED
  BY <1>2, <1>3 DEF Targets

\* rerouteBranches sends each block without terminator to a block of the
\* slice or nowhere.
LEMMA RerouteTyped ==
    ASSUME SliceFacts, sliced, NEW j \in rerouteBranches
    PROVE  j \in [{b \in BBs : ~HasTerminator(b)} -> BBs \cup {NoBlock}]
<1> DEFINE open == {b \in BBs : ~HasTerminator(b)}
           branches == UNION {{b} \X Targets(b) : b \in open}
<1>1. /\ j \in [open -> {br[2] : br \in branches}]
      /\ \A b \in open : <<b, j[b]>> \in branches
  BY DEF rerouteBranches
<1>2. ASSUME NEW b \in open PROVE j[b] \in BBs \cup {NoBlock}
  <2>1. PICK c \in open : <<b, j[b]>> \in {c} \X Targets(c)
    BY <1>1
  <2> QED
    BY <2>1, TargetsTyped
<1> QED
  BY <1>1, <1>2

-----------------------------------------------------------------------------
\* Each step keeps the delegate whole.
LEMMA TypeStep ==
    ASSUME TypeOK, SliceFacts, SliceFacts', [Next]_vars
    PROVE  TypeOK'
<1>f. f.entry \in f.blocks /\ \A b \in f.blocks : f.succ[b] \subseteq f.blocks
  BY FuncsAssumption DEF SliceFacts, Fixed, IsFunction
<1>b. BBs \subseteq f.blocks
  BY BlocksTyped DEF SliceFacts
<1>1. CASE Slice
  BY <1>1, OutlineAssumption DEF Slice, WalkNext, EndWalk, get_data_dependences_for,
                                 TypeOK, outVars, runVars, canOutline, HasTerminator
<1>2. CASE outline
  <2>1. CASE canOutline /\ phase' = "caller"
    <3>1. jump' \in [{b \in BBs : ~HasTerminator(b)} -> BBs \cup {NoBlock}]
      BY <1>2, <2>1, RerouteTyped DEF outline
    <3>2. DOMAIN phiInc' = Phis(f) \cap deps
      <4>1. phiInc' \in updatePHINodes(jump')
        BY <1>2, <2>1 DEF outline
      <4> QED
        BY <4>1, Zenon DEF updatePHINodes
    <3>3. entry' \in BBs \cup {NoBlock}
      BY <1>2, <2>1 DEF outline, reorderBlocks
    <3> QED
      BY <1>2, <2>1, <3>1, <3>2, <3>3
         DEF outline, TypeOK, sliceVars, runVars, canOutline, HasTerminator
  <2>2. CASE phase' = "done"
    BY <1>2, <2>2 DEF outline, TypeOK, sliceVars, runVars
  <2> QED
    BY <1>2, <2>1, <2>2 DEF outline
<1>3. CASE Execute
  BY <1>3 DEF Execute, TypeOK, sliceVars, outVars, canOutline, HasTerminator
<1>4. ASSUME NEW s \in f.blocks, CallerBranches(s) PROVE TypeOK'
  BY <1>4, <1>f DEF CallerBranches, Branches, TypeOK, sliceVars, outVars, canOutline, HasTerminator
<1>5. CASE CallerEnds
  BY <1>5 DEF CallerEnds, TypeOK, sliceVars, runVars, canOutline, HasTerminator
<1>6. CASE CallDelegate
  BY <1>6 DEF CallDelegate, TypeOK, sliceVars, canOutline, HasTerminator
<1>7. CASE DelegateBranches
  <2>1. /\ phase = "delegate" /\ pos \in BBs /\ sliced
        /\ UNCHANGED <<sliceVars, outVars>> /\ ip' = 1 /\ steps' = steps + 1
    BY <1>7 DEF DelegateBranches, AtEnd, TypeOK
  <2>2. pos' \in BBs \cup {NoBlock}
    BY <1>7, <1>f, <1>b, <2>1, AttractedTyped DEF DelegateBranches, Branches, TypeOK
  <2> QED
    BY <2>1, <2>2 DEF TypeOK, sliceVars, outVars, canOutline, HasTerminator
<1>8. CASE DelegateReturns \/ DelegateFails
  BY <1>8 DEF DelegateReturns, DelegateFails, TypeOK, sliceVars, runVars, canOutline, HasTerminator
<1>9. CASE Done \/ UNCHANGED vars
  BY <1>9 DEF Done, vars, TypeOK, sliceVars, outVars, runVars, canOutline, HasTerminator
<1> QED
  BY <1>1, <1>2, <1>3, <1>4, <1>5, <1>6, <1>7, <1>8, <1>9 DEF Next

\* The delegate that outline builds is whole, for every function and every
\* order of its blocks: control never leaves the blocks that were cloned.
THEOREM DelegateIsWhole == Spec => []TypeOK
<1>1. OutInit => TypeOK
  BY FuncsAssumption, OutlineAssumption DEF OutInit, Init, TypeOK, IsFunction
<1>2. TypeOK /\ SliceFacts /\ SliceFacts' /\ [Next]_vars => TypeOK'
  BY TypeStep
<1> QED
  BY <1>1, <1>2, OutlineSliceFacts, PTL DEF Spec

-----------------------------------------------------------------------------
\* The delegate that runs is one that outline can build.
Outlined == /\ sliced /\ jump \in rerouteBranches
            /\ phiInc \in updatePHINodes(jump) /\ entry \in reorderBlocks(jump)

\* A finished slice: its values, their operands and their blocks.
LEMMA SliceHas ==
    ASSUME SliceFacts, sliced
    PROVE  /\ IsFunction(f) /\ InSSA(f)
           /\ deps \subseteq Inst(f) \cup f.args /\ f.initial \in deps
           /\ BBs \subseteq f.blocks /\ Exit \in BBs
           /\ \A v \in deps \cap Inst(f) : f.at[v] \in BBs
           /\ \A v \in (deps \cap Inst(f)) \ Phis(f) :
                  \A i \in DOMAIN f.ops[v] : f.ops[v][i] \in deps
           /\ \A v \in deps \cap Phis(f) :
                  /\ v \in Inst(f) /\ DOMAIN f.inc[v] \subseteq BBs
                  /\ \A p \in DOMAIN f.inc[v] : f.inc[v][p] \in deps
<1>1. IsFunction(f) /\ InSSA(f)
  BY FuncsAssumption DEF SliceFacts, Fixed, IsFunction
<1>2. /\ deps \subseteq Inst(f) \cup f.args /\ f.initial \in deps
      /\ \A v \in deps : Operands(f, v) \subseteq deps /\ BlocksOf(v) \subseteq BBs
  BY DEF SliceFacts, WalkInv
<1>3. BBs \subseteq f.blocks
  BY BlocksTyped DEF SliceFacts
<1>4. \A v \in deps \cap Inst(f) : f.at[v] \in BBs
  BY <1>2 DEF BlocksOf
<1>5. f.initial \in Inst(f)
  BY <1>1 DEF IsFunction
<1>6. \A v \in (deps \cap Inst(f)) \ Phis(f) : \A i \in DOMAIN f.ops[v] : f.ops[v][i] \in deps
  BY <1>2 DEF Operands
<1>7. \A v \in deps \cap Phis(f) :
          /\ v \in Inst(f) /\ DOMAIN f.inc[v] \subseteq BBs
          /\ \A p \in DOMAIN f.inc[v] : f.inc[v][p] \in deps
  BY <1>1, <1>2 DEF Operands, BlocksOf, IsFunction
<1> QED
  BY <1>1, <1>2, <1>3, <1>4, <1>5, <1>6, <1>7 DEF Exit

-----------------------------------------------------------------------------
\* The value is reached from block s.
Leads(s) == Exit \in ReachAvoiding(f, s, {})

\* What the walk has found leads to the value, by what is defined before use; a
\* branch in the slice does so by one of its successors.
LEMMA GateLeads ==
    ASSUME IsFunction(f), NEW b \in f.blocks, Leads(b), NEW c \in f.blocks,
           Terminator(c) \in computeGates(f, b)
    PROVE  Leads(c) /\ \E s \in f.succ[c] : Leads(s)
<1>1. PICK p \in Preds(f, b) :
          c \in IF Dom(f, p, b) /\ ~PDom(f, b, p) THEN {p} ELSE getController(f, p)
  BY DEF computeGates, getGate, Terminator
<1>2. p \in f.blocks /\ b \in f.succ[p] /\ f.succ[c] \subseteq f.blocks
  BY <1>1 DEF Preds, IsFunction
<1>3. p \in ReachAvoiding(f, p, {}) /\ b \in ReachAvoiding(f, p, {})
  BY <1>2, ReachClosed
<1>4. Leads(p)
  <2>1. ReachAvoiding(f, b, {}) \subseteq ReachAvoiding(f, p, {})
    BY <1>2, <1>3, ReachTrans
  <2> QED
    BY <2>1 DEF Leads
<1>5. CASE c = p
  BY <1>2, <1>4, <1>5
<1>6. CASE c # p
  <2>1. Dom(f, c, p)
    BY <1>1, <1>6 DEF getController, Controllers
  <2>2. p \in ReachAvoiding(f, c, {})
    BY <1>2, <2>1, DomReaches
  <2>3. ReachAvoiding(f, p, {}) \subseteq ReachAvoiding(f, c, {})
    BY <2>2, ReachTrans
  <2>4. PICK s \in f.succ[c] : p \in ReachAvoiding(f, s, {})
    BY <1>6, <2>2, ReachFirst
  <2>5. ReachAvoiding(f, p, {}) \subseteq ReachAvoiding(f, s, {})
    BY <1>2, <2>4, ReachTrans
  <2> QED
    BY <1>4, <2>3, <2>5 DEF Leads
<1> QED
  BY <1>5, <1>6

\* What a value that leads to the slice's value is computed from leads there too.
LEMMA UsesLead ==
    ASSUME IsFunction(f), NEW v \in Inst(f), Leads(f.at[v]), NEW u \in Operands(f, v) \cap Inst(f)
    PROVE  Leads(f.at[u])
<1>1. InSSA(f) /\ f.at[v] \in f.blocks /\ f.at[u] \in f.blocks
  BY DEF IsFunction
<1>2. CASE v \in Phis(f)
  <2>1. PICK p \in DOMAIN f.inc[v] : u = f.inc[v][p]
    BY <1>2 DEF Operands
  <2>2. p \in f.blocks /\ f.at[v] \in f.succ[p] /\ Dom(f, f.at[u], p)
    BY <1>1, <1>2, <2>1 DEF InSSA, Preds
  <2>3. p \in ReachAvoiding(f, f.at[u], {})
    BY <1>1, <2>2, DomReaches
  <2>4. f.at[v] \in ReachAvoiding(f, f.at[u], {})
    BY <1>1, <2>2, <2>3, ReachClosed
  <2>5. ReachAvoiding(f, f.at[v], {}) \subseteq ReachAvoiding(f, f.at[u], {})
    BY <1>1, <2>4, ReachTrans
  <2> QED
    BY <2>5 DEF Leads
<1>3. CASE v \notin Phis(f)
  <2>1. Dom(f, f.at[u], f.at[v])
    BY <1>1, <1>3 DEF InSSA
  <2>2. f.at[v] \in ReachAvoiding(f, f.at[u], {})
    BY <1>1, <2>1, DomReaches
  <2>3. ReachAvoiding(f, f.at[v], {}) \subseteq ReachAvoiding(f, f.at[u], {})
    BY <1>1, <2>2, ReachTrans
  <2> QED
    BY <2>3 DEF Leads
<1> QED
  BY <1>2, <1>3

\* The value can be reached from every block of the slice.
LEMMA SliceLeads ==
    ASSUME SliceFacts, SliceIsLeast, sliced
    PROVE  /\ \A b \in BBs : Leads(b)
           /\ \A b \in f.blocks : HasTerminator(b) => b \in BBs /\ \E s \in f.succ[b] : Leads(s)
<1> DEFINE S == f.args \cup {v \in Inst(f) : /\ Leads(f.at[v])
                                             /\ \A b \in f.blocks : v = Terminator(b) =>
                                                    \E s \in f.succ[b] : Leads(s)}
<1>1. /\ IsFunction(f) /\ InSSA(f) /\ BBs \subseteq f.blocks
      /\ \A v \in deps \cap Inst(f) : f.at[v] \in BBs
  BY SliceHas
<1>2. gates = [b \in f.blocks |-> computeGates(f, b)]
  BY DEF SliceFacts, Fixed
<1>3. f.initial \in S
  <2>1. f.initial \in Inst(f) /\ f.at[f.initial] \in f.blocks /\ \A b \in f.blocks : f.initial # Terminator(b)
    BY <1>1 DEF IsFunction, InSSA
  <2>2. Leads(f.at[f.initial])
    BY <1>1, <2>1, ReachClosed DEF Leads, Exit
  <2> QED
    BY <2>1, <2>2
<1>4. Closed(S)
  <2> SUFFICES ASSUME NEW v \in S PROVE Operands(f, v) \cup GatesOf(v) \subseteq S
    BY DEF Closed
  <2>1. CASE v \in Inst(f)
    <3>1. Leads(f.at[v]) /\ f.at[v] \in f.blocks
      BY <1>1, <2>1 DEF IsFunction
    <3>2. Operands(f, v) \subseteq S
      <4>1. Operands(f, v) \subseteq Inst(f) \cup f.args
        BY <1>1, <2>1 DEF IsFunction
      <4>2. \A b \in f.blocks : Terminator(b) \notin Operands(f, v)
        BY <1>1, <2>1 DEF InSSA
      <4>3. \A u \in Operands(f, v) \cap Inst(f) : Leads(f.at[u])
        BY <1>1, <2>1, <3>1, UsesLead
      <4> QED
        BY <4>1, <4>2, <4>3
    <3>3. ASSUME NEW u \in GatesOf(v) PROVE u \in S
      <4>1. u \in computeGates(f, f.at[v])
        BY <1>2, <3>1, <3>3 DEF GatesOf
      <4>2. PICK c \in f.blocks : u = Terminator(c)
        BY <4>1 DEF computeGates, getGate, Preds, getController, Controllers
      <4>3. Leads(c) /\ \E s \in f.succ[c] : Leads(s)
        BY <1>1, <3>1, <4>1, <4>2, GateLeads
      <4>4. Terminator(c) \in Inst(f) /\ f.at[Terminator(c)] = c
        BY <1>1 DEF IsFunction, InSSA
      <4>5. \A b \in f.blocks : Terminator(c) = Terminator(b) => b = c
        BY DEF Terminator
      <4> QED
        BY <4>2, <4>3, <4>4, <4>5
    <3> QED
      BY <3>2, <3>3
  <2>2. CASE v \notin Inst(f)
    BY <1>1, <2>2 DEF Operands, GatesOf, IsFunction
  <2> QED
    BY <2>1, <2>2
<1>5. deps \subseteq S
  <2> HIDE DEF S
  <2> QED
    BY <1>3, <1>4 DEF SliceIsLeast
<1>6. ASSUME NEW v \in deps, NEW b \in BlocksOf(v) PROVE Leads(b)
  <2>1. CASE v \in Inst(f) /\ b = f.at[v]
    BY <1>1, <1>5, <2>1 DEF IsFunction
  <2>2. CASE v \in Phis(f) /\ b \in DOMAIN f.inc[v]
    <3>1. v \in Inst(f) /\ f.at[v] \in f.blocks /\ b \in f.blocks /\ f.at[v] \in f.succ[b]
      BY <1>1, <2>2 DEF IsFunction, InSSA, Preds
    <3>2. Leads(f.at[v])
      BY <1>1, <1>5, <3>1 DEF IsFunction
    <3>3. f.at[v] \in ReachAvoiding(f, b, {})
      BY <1>1, <3>1, ReachClosed
    <3>4. ReachAvoiding(f, f.at[v], {}) \subseteq ReachAvoiding(f, b, {})
      BY <1>1, <3>1, <3>3, ReachTrans
    <3> QED
      BY <3>2, <3>4 DEF Leads
  <2> QED
    BY <1>6, <2>1, <2>2 DEF BlocksOf
<1>7. BBs \subseteq UNION {BlocksOf(v) : v \in deps}
  BY DEF SliceFacts, WalkInv
<1>8. ASSUME NEW b \in f.blocks, HasTerminator(b) PROVE b \in BBs /\ \E s \in f.succ[b] : Leads(s)
  <2>1. Terminator(b) \in Inst(f) /\ f.at[Terminator(b)] = b /\ Terminator(b) \notin f.args
    BY <1>1 DEF IsFunction, InSSA
  <2> QED
    BY <1>1, <1>5, <1>8, <2>1 DEF HasTerminator
<1> QED
  BY <1>6, <1>7, <1>8

-----------------------------------------------------------------------------
\* A block ahead of s is reached before any other block of the slice.
LEMMA AheadReached ==
    ASSUME SliceFacts, sliced, NEW s \in f.blocks, NEW c \in Ahead(s)
    PROVE  /\ c \in BBs /\ c \in f.blocks /\ c \in ReachAvoiding(f, s, {})
           /\ \A a \in BBs \ {c} : c \in ReachAvoiding(f, s, {a})
<1>1. IsFunction(f) /\ BBs \subseteq f.blocks
  BY SliceHas
<1>2. c \in BBs /\ c \in f.blocks
  BY <1>1 DEF Ahead
<1>3. ASSUME NEW A \in SUBSET BBs, c \notin A PROVE c \in ReachAvoiding(f, s, A)
  <2>1. CASE s \in BBs
    BY <1>1, <1>3, <2>1, ReachClosed DEF Ahead
  <2>2. CASE s \notin BBs
    <3>1. PICK x \in ReachAvoiding(f, s, BBs) : c \in f.succ[x]
      BY <2>2 DEF Ahead
    <3>2. x \in ReachAvoiding(f, s, A)
      BY <1>1, <3>1, ReachTrans
    <3> QED
      BY <1>1, <1>3, <3>1, <3>2, ReachClosed
  <2> QED
    BY <2>1, <2>2
<1>4. {} \in SUBSET BBs /\ \A a \in BBs \ {c} : {a} \in SUBSET BBs /\ c \notin {a}
  OBVIOUS
<1> QED
  BY <1>2, <1>3, <1>4

\* Before the blocks ahead, the function is outside of the slice.
LEMMA AheadFirst ==
    ASSUME SliceFacts, sliced, NEW s \in f.blocks, NEW A, Ahead(s) \subseteq A
    PROVE  /\ ReachAvoiding(f, s, A) \subseteq ReachAvoiding(f, s, BBs)
           /\ \A c \in BBs : c \notin ReachAvoiding(f, s, A)
<1> DEFINE W == ReachAvoiding(f, s, BBs)
<1>1. IsFunction(f) /\ BBs \subseteq f.blocks
  BY SliceHas
<1>2. CASE s \in BBs
  <2>1. s \in A
    BY <1>2 DEF Ahead
  <2>2. ReachAvoiding(f, s, A) = {}
    BY <2>1, ReachFromAvoided
  <2> QED
    BY <2>2
<1>3. CASE s \notin BBs
  <2>1. \A c \in BBs : c \notin W
    BY <1>1, ReachAvoids
  <2>2. s \in W /\ W \in SUBSET f.blocks /\ \A b \in W : f.succ[b] \subseteq W \cup BBs
    BY <1>1, <1>3, ReachClosed
  <2>3. \A b \in W : f.succ[b] \cap BBs \subseteq A
    BY <1>3 DEF Ahead
  <2> HIDE DEF W
  <2>4. \A b \in W : f.succ[b] \subseteq W \cup A
    BY <2>2, <2>3
  <2>5. ReachAvoiding(f, s, A) \subseteq W
    BY <2>2, <2>4, ReachLeast
  <2> QED
    BY <2>1, <2>5 DEF W
<1> QED
  BY <1>2, <1>3

\* Nothing ahead: the slice is left for good, and no attractor is found.
LEMMA AheadNone ==
    ASSUME SliceFacts, sliced, NEW s \in f.blocks, Ahead(s) = {}
    PROVE  ~Leads(s) /\ Attracted(s) = NoBlock
<1>1. IsFunction(f) /\ BBs \subseteq f.blocks /\ Exit \in BBs
  BY SliceHas
<1>2. \A c \in BBs : c \notin ReachAvoiding(f, s, {})
  BY AheadFirst
<1>3. s \notin BBs
  BY DEF Ahead
<1>4. attractors[s] = {}
  <2>1. ASSUME NEW a \in BBs, PDom(f, a, s) PROVE FALSE
    <3> DEFINE R == ReachAvoiding(f, s, {})
    <3>1. s \in R /\ R \in SUBSET f.blocks /\ a \notin R /\ \A b \in R : f.succ[b] \subseteq R \cup {}
      BY <1>1, <1>2, ReachClosed
    <3>2. R \subseteq ReachAvoiding(f, s, {a})
      <4> DEFINE Q == ReachAvoiding(f, s, {a})
      <4>1. /\ s \in Q /\ Q \in SUBSET f.blocks
            /\ \A b \in Q : f.succ[b] \subseteq Q \cup {a}
        BY <1>1, <1>3, ReachClosed
      <4>2. Q \subseteq R
        BY <1>1, ReachTrans
      <4> HIDE DEF Q, R
      <4>3. \A b \in Q : f.succ[b] \subseteq Q \cup {}
        BY <3>1, <4>1, <4>2
      <4>4. ReachAvoiding(f, s, {}) \subseteq Q
        BY <4>1, <4>3, ReachLeast
      <4> QED
        BY <4>4 DEF Q, R
    <3>3. Exits(f) \cap R # {}
      BY <1>1 DEF IsFunction
    <3> QED
      BY <2>1, <3>2, <3>3 DEF PDom
  <2>2. attractors[s] = computeAttractorBlocks(f, BBs, s)
    BY DEF SliceFacts, Attracting
  <2> QED
    BY <1>3, <2>1, <2>2 DEF computeAttractorBlocks
<1> QED
  BY <1>1, <1>2, <1>4 DEF Leads, Attracted

\* What is on every way to the value is reached.
LEMMA PassedOnTheWay ==
    ASSUME IsFunction(f), NEW s \in f.blocks, NEW b \in f.blocks, Leads(s), OnTheWay(b, s)
    PROVE  b \in ReachAvoiding(f, s, {})
<1> SUFFICES ASSUME b \notin ReachAvoiding(f, s, {}) PROVE FALSE
  OBVIOUS
<1> DEFINE P == ReachAvoiding(f, s, {b})
<1>1. s # b /\ \A x \in ReachAvoiding(f, s, {}) : f.succ[x] \subseteq ReachAvoiding(f, s, {})
  BY ReachClosed
<1>2. s \in P /\ P \in SUBSET f.blocks /\ \A x \in P : f.succ[x] \subseteq P \cup {b}
  BY <1>1, ReachClosed
<1>3. P \subseteq ReachAvoiding(f, s, {})
  BY ReachTrans
<1> HIDE DEF P
<1>4. \A x \in P : f.succ[x] \subseteq P \cup {}
  BY <1>1, <1>2, <1>3
<1>5. ReachAvoiding(f, s, {}) \subseteq P
  BY <1>2, <1>4, ReachLeast
<1> QED
  BY <1>5 DEF Leads, OnTheWay, P

\* Two blocks of the slice cannot both be passed before the other on every way
\* to the value.
LEMMA OneWay ==
    ASSUME IsFunction(f), NEW s \in f.blocks, NEW c \in f.blocks, NEW d \in f.blocks, Leads(c),
           OnTheWay(c, s), OnTheWay(d, s),
           c \in ReachAvoiding(f, s, {d}), d \in ReachAvoiding(f, s, {c})
    PROVE  c = d
<1> SUFFICES ASSUME c # d PROVE FALSE
  OBVIOUS
<1>1. /\ ReachAvoiding(f, c, {d}) \subseteq ReachAvoiding(f, s, {d})
      /\ ReachAvoiding(f, d, {c}) \subseteq ReachAvoiding(f, s, {c})
  BY ReachTrans
<1>2. ReachAvoiding(f, c, {}) \subseteq ReachAvoiding(f, c, {d}) \cup ReachAvoiding(f, d, {c})
  BY ReachEither
<1> QED
  BY <1>1, <1>2 DEF Leads, OnTheWay

\* If the gates are complete, the block ahead is on every way to the value ...
LEMMA AheadOnTheWay ==
    ASSUME SliceFacts, SliceIsLeast, sliced, GatesComplete, NEW s \in f.blocks, NEW c \in Ahead(s)
    PROVE  Leads(c) /\ Leads(s) /\ OnTheWay(c, s)
<1>1. IsFunction(f) /\ BBs \subseteq f.blocks /\ Exit \in BBs /\ \A b \in f.blocks : f.succ[b] \subseteq f.blocks
  BY SliceHas DEF IsFunction
<1>2. c \in BBs /\ c \in f.blocks /\ c \in ReachAvoiding(f, s, {}) /\ Leads(c)
  BY AheadReached, SliceLeads
<1>3. ASSUME NEW x \in f.blocks, NEW y \in f.succ[x], Leads(y) PROVE Leads(x)
  <2>1. y \in ReachAvoiding(f, x, {})
    BY <1>1, ReachClosed
  <2>2. ReachAvoiding(f, y, {}) \subseteq ReachAvoiding(f, x, {})
    BY <1>1, <2>1, ReachTrans
  <2> QED
    BY <1>3, <2>2 DEF Leads
<1>4. Leads(s)
  <2>1. ReachAvoiding(f, c, {}) \subseteq ReachAvoiding(f, s, {})
    BY <1>1, <1>2, ReachTrans
  <2> QED
    BY <1>2, <2>1 DEF Leads
<1>5. OnTheWay(c, c)
  BY ReachFromAvoided DEF OnTheWay
<1>6. CASE s \in BBs
  BY <1>2, <1>4, <1>5, <1>6 DEF Ahead
<1>7. ASSUME s \notin BBs, ~OnTheWay(c, s) PROVE FALSE
  <2> DEFINE W == ReachAvoiding(f, s, BBs)
             Z == {x \in W : ~OnTheWay(c, x) \/ ~Leads(x)}
  <2>1. s \in W /\ W \in SUBSET f.blocks /\ \A b \in W : f.succ[b] \subseteq W \cup BBs
    BY <1>1, <1>7, ReachClosed
  <2>2. \A x \in W : x \notin BBs
    BY <1>1, ReachAvoids
  <2>3. PICK x0 \in W : c \in f.succ[x0]
    BY <1>7 DEF Ahead
  <2> HIDE DEF W
  <2>4. ASSUME NEW x \in W, ~OnTheWay(c, x), NEW y \in f.succ[x] PROVE ~OnTheWay(c, y) \/ ~Leads(y)
    <3>1. ~HasTerminator(x) /\ x # Exit /\ x \in f.blocks
      BY <1>1, <2>1, <2>2, <2>4, SliceLeads
    <3>2. ~Decides(x, c)
      BY <1>2, <3>1 DEF GatesComplete
    <3> QED
      BY <2>4, <3>2 DEF Decides, Leads
  <2>5. \A x \in W : \A y \in f.succ[x] : ~Leads(x) => ~Leads(y)
    BY <1>3, <2>1
  <2>6. s \in Z /\ Z \in SUBSET f.blocks /\ \A x \in Z : f.succ[x] \subseteq Z \cup BBs
    BY <1>7, <2>1, <2>4, <2>5
  <2> HIDE DEF Z
  <2>7. W \subseteq Z
    BY <2>6, ReachLeast DEF W
  <2>8. ~OnTheWay(c, x0) \/ ~Leads(x0)
    BY <2>3, <2>7 DEF Z
  <2> QED
    BY <1>2, <1>5, <2>3, <2>4, <2>5, <2>8
<1> QED
  BY <1>2, <1>4, <1>6, <1>7

\* ... so that it is the only one, behind every block and, where the branch is
\* not in the slice, behind all of its successors.
LEMMA AheadUnique ==
    ASSUME SliceFacts, SliceIsLeast, sliced, GatesComplete, NEW s \in f.blocks,
           NEW c \in Ahead(s), NEW d \in Ahead(s)
    PROVE  c = d
<1>1. IsFunction(f)
  BY SliceHas
<1>2. SUFFICES ASSUME c # d PROVE FALSE
  OBVIOUS
<1>3. /\ c \in f.blocks /\ d \in f.blocks
      /\ c \in ReachAvoiding(f, s, {d}) /\ d \in ReachAvoiding(f, s, {c})
  BY <1>2, AheadReached
<1>4. Leads(c) /\ OnTheWay(c, s) /\ OnTheWay(d, s)
  BY AheadOnTheWay
<1> QED
  BY <1>1, <1>2, <1>3, <1>4, OneWay

\* All ways out of a block whose branch is not in the slice meet the slice in the
\* same block, which is another one.
LEMMA AheadOfOpen ==
    ASSUME SliceFacts, SliceIsLeast, sliced, GatesComplete,
           NEW b \in BBs \ {Exit}, ~HasTerminator(b),
           NEW s \in f.succ[b], NEW t \in f.succ[b], NEW c \in Ahead(s), NEW d \in Ahead(t)
    PROVE  c = d /\ c # b
<1>1. IsFunction(f) /\ BBs \subseteq f.blocks /\ s \in f.blocks /\ t \in f.blocks /\ b \in f.blocks
  BY SliceHas DEF IsFunction
<1>2. ASSUME NEW u \in f.succ[b], NEW x \in Ahead(u)
      PROVE  /\ x \in BBs /\ Leads(x) /\ x # b /\ OnTheWay(x, b)
             /\ \A a \in BBs \ {x, b} : x \in ReachAvoiding(f, b, {a})
  <2>1. u \in f.blocks
    BY <1>1 DEF IsFunction
  <2>2. x \in BBs /\ Leads(x) /\ Leads(u) /\ OnTheWay(x, u)
    BY <1>1, <2>1, AheadReached, AheadOnTheWay
  <2>3. ~Decides(b, x)
    BY <1>1, <2>2 DEF GatesComplete
  <2>4. x # b /\ OnTheWay(x, b)
    BY <1>2, <2>2, <2>3 DEF Decides, Leads
  <2>5. ASSUME NEW a \in BBs \ {x, b} PROVE x \in ReachAvoiding(f, b, {a})
    <3>1. b \in ReachAvoiding(f, b, {a})
      BY <1>1, <2>5, ReachClosed
    <3>2. u # a
      BY <1>2, <2>5 DEF Ahead
    <3>3. u \in ReachAvoiding(f, b, {a})
      BY <1>1, <1>2, <3>1, <3>2, ReachClosed
    <3>4. ReachAvoiding(f, u, {a}) \subseteq ReachAvoiding(f, b, {a})
      BY <1>1, <3>3, ReachTrans
    <3> QED
      BY <1>2, <2>1, <2>5, <3>4, AheadReached
  <2> QED
    BY <2>2, <2>4, <2>5
<1>3. ASSUME c # d PROVE FALSE
  <2>1. c \in ReachAvoiding(f, b, {d}) /\ d \in ReachAvoiding(f, b, {c})
    BY <1>2, <1>3
  <2> QED
    BY <1>1, <1>2, <1>3, <2>1, OneWay
<1> QED
  BY <1>2, <1>3

-----------------------------------------------------------------------------
\* Attractors lead to the block ahead, unless the function may return first.
LEMMA AttractedAhead ==
    ASSUME SliceFacts, SliceIsLeast, sliced, GatesComplete, NEW s \in f.blocks, NEW c \in Ahead(s),
           Exits(f) \cap ReachAvoiding(f, s, BBs) = {}
    PROVE  Attracted(s) = c
<1>1. IsFunction(f) /\ BBs \subseteq f.blocks
  BY SliceHas
<1>2. attractors[s] = computeAttractorBlocks(f, BBs, s)
  BY DEF SliceFacts, Attracting
<1>3. CASE s \in BBs
  BY <1>2, <1>3 DEF computeAttractorBlocks, Ahead, Attracted
<1>4. CASE s \notin BBs
  <2>1. /\ c \in BBs /\ c \in f.blocks
        /\ \A a \in BBs \ {c} : c \in ReachAvoiding(f, s, {a})
    BY AheadReached
  <2>2. Ahead(s) \subseteq {c}
    BY AheadUnique
  <2>3. ReachAvoiding(f, s, {c}) \subseteq ReachAvoiding(f, s, BBs)
    BY <2>2, AheadFirst
  <2>4. PDom(f, c, s)
    BY <2>3 DEF PDom
  <2>5. ASSUME NEW a \in BBs, PDom(f, a, s) PROVE PDom(f, a, c)
    <3>1. CASE a = c
      BY <3>1, ReachFromAvoided DEF PDom
    <3>2. CASE a # c
      <4>1. ReachAvoiding(f, c, {a}) \subseteq ReachAvoiding(f, s, {a})
        BY <1>1, <2>1, <3>2, ReachTrans
      <4> QED
        BY <2>5, <4>1 DEF PDom
    <3> QED
      BY <3>1, <3>2
  <2>6. ASSUME NEW a \in BBs, PDom(f, a, c), PDom(f, c, a), a # c PROVE FALSE
    <3>1. ReachAvoiding(f, c, {}) \subseteq ReachAvoiding(f, c, {a}) \cup ReachAvoiding(f, a, {c})
      BY <1>1, <2>1, <2>6, ReachEither
    <3>2. Exits(f) \cap ReachAvoiding(f, c, {}) # {}
      BY <1>1, <2>1 DEF IsFunction
    <3> QED
      BY <2>6, <3>1, <3>2 DEF PDom
  <2>7. attractors[s] = {c}
    BY <1>2, <1>4, <2>1, <2>4, <2>5, <2>6 DEF computeAttractorBlocks
  <2> QED
    BY <2>7 DEF Attracted
<1> QED
  BY <1>3, <1>4

\* So does the dominator tree, where addDomBranches finds a block in it.
LEMMA DominatedAhead ==
    ASSUME SliceFacts, SliceIsLeast, sliced, GatesComplete,
           NEW b \in BBs \ {Exit}, ~HasTerminator(b),
           NEW s \in f.succ[b], NEW c \in Ahead(s), NEW d \in addDomBranches(b)
    PROVE  d = c
<1> SUFFICES ASSUME d # c PROVE FALSE
  OBVIOUS
<1>1. /\ IsFunction(f) /\ BBs \subseteq f.blocks /\ s \in f.blocks /\ b \in f.blocks
      /\ f.succ[b] \subseteq f.blocks /\ f.entry \in f.blocks
  BY SliceHas DEF IsFunction
<1>2. /\ d \in BBs /\ d # b /\ Dom(f, b, d)
      /\ \A q \in BBs \ {d} : Dom(f, q, d) => Dom(f, q, b)
  BY DEF addDomBranches
<1>3. c \in BBs /\ c # b /\ \A t \in f.succ[b] : Ahead(t) \subseteq {c}
  BY <1>1, AheadOfOpen, AheadReached
\* From b, the function comes to d by c only ...
<1>4. d \notin ReachAvoiding(f, b, {c})
  <2> DEFINE R == {b} \cup {x \in f.blocks \ {d} : \E t \in f.succ[b] : x \in ReachAvoiding(f, t, {c})}
  <2>1. ASSUME NEW t \in f.succ[b] PROVE t \in {c} \cup R
    <3>1. d \notin ReachAvoiding(f, t, {c})
      BY <1>1, <1>2, <1>3, AheadFirst
    <3>2. t # c => t \in ReachAvoiding(f, t, {c})
      BY <1>1, ReachClosed
    <3> QED
      BY <1>1, <3>1, <3>2
  <2>2. ASSUME NEW t \in f.succ[b], NEW x \in ReachAvoiding(f, t, {c}), NEW y \in f.succ[x]
        PROVE  y \in {c} \cup R
    <3>1. x \in f.blocks /\ y \in ReachAvoiding(f, t, {c}) \cup {c}
      BY <1>1, <2>2, ReachClosed
    <3>2. d \notin ReachAvoiding(f, t, {c})
      BY <1>1, <1>2, <1>3, AheadFirst
    <3>3. y \in f.blocks
      BY <1>1, <3>1 DEF IsFunction
    <3> QED
      BY <3>1, <3>2, <3>3
  <2>3. /\ R \in SUBSET f.blocks /\ b \in R /\ d \notin R
        /\ \A x \in R : f.succ[x] \subseteq R \cup {c}
    BY <1>1, <1>2, <2>1, <2>2
  <2> HIDE DEF R
  <2>4. ReachAvoiding(f, b, {c}) \subseteq R
    BY <2>3, ReachLeast
  <2> QED
    BY <2>3, <2>4
\* ... so that c dominates d, and then b ...
<1>5. Dom(f, c, d)
  <2>1. ReachAvoiding(f, f.entry, {c}) \subseteq
            ReachAvoiding(f, f.entry, {c} \cup {b}) \cup ReachAvoiding(f, b, {c})
    BY <1>1, ReachSplit
  <2>2. {b} \subseteq {c} \cup {b}
    OBVIOUS
  <2>3. ReachAvoiding(f, f.entry, {c} \cup {b}) \subseteq ReachAvoiding(f, f.entry, {b})
    BY <1>1, <2>2, ReachTrans
  <2> QED
    BY <1>2, <1>4, <2>1, <2>3 DEF Dom
<1>6. Dom(f, c, b)
  BY <1>2, <1>3, <1>5
\* ... but not the other way: c is reached without b, and d is not.
<1>7. d \notin ReachAvoiding(f, c, {b})
  <2>1. CASE c \in ReachAvoiding(f, f.entry, {b})
    <3>1. ReachAvoiding(f, c, {b}) \subseteq ReachAvoiding(f, f.entry, {b})
      BY <1>1, <2>1, ReachTrans
    <3> QED
      BY <1>2, <3>1 DEF Dom
  <2>2. CASE c \notin ReachAvoiding(f, f.entry, {b})
    <3> DEFINE P == ReachAvoiding(f, f.entry, {b})
               Q == ReachAvoiding(f, f.entry, {c})
               R == P \cap Q
    <3>1. /\ f.entry # b => f.entry \in P
          /\ \A x \in P : x \in f.blocks /\ f.succ[x] \subseteq P \cup {b}
      BY <1>1, ReachClosed
    <3>2. /\ f.entry # c => f.entry \in Q
          /\ \A x \in Q : x \in f.blocks /\ f.succ[x] \subseteq Q \cup {c}
      BY <1>1, ReachClosed
    <3>3. c \notin P /\ b \notin Q
      BY <1>6, <2>2 DEF Dom
    <3> HIDE DEF P, Q
    <3>4. R \in SUBSET f.blocks /\ f.entry \in R /\ \A x \in R : f.succ[x] \subseteq R \cup {}
      <4>1. f.entry \in P /\ f.entry \in Q
        BY <1>3, <3>1, <3>2, <3>3
      <4>2. ASSUME NEW x \in R, NEW y \in f.succ[x] PROVE y \in R
        BY <1>3, <3>1, <3>2, <3>3, <4>2
      <4> QED
        BY <3>1, <4>1, <4>2
    <3> HIDE DEF R
    <3>5. ReachAvoiding(f, f.entry, {}) \subseteq R
      BY <3>4, ReachLeast
    <3> QED
      BY <1>1, <1>3, <3>3, <3>5 DEF IsFunction, P, R
  <2> QED
    BY <2>1, <2>2
<1>8. d \in ReachAvoiding(f, b, {})
  BY <1>1, <1>2, DomReaches
<1>9. ReachAvoiding(f, b, {}) \subseteq ReachAvoiding(f, b, {c}) \cup ReachAvoiding(f, c, {b})
  BY <1>1, <1>3, ReachEither
<1> QED
  BY <1>4, <1>7, <1>8, <1>9

\* Every branch of the delegate goes to the block ahead.
LEMMA SuccsAhead ==
    ASSUME SliceFacts, SliceIsLeast, Outlined, GatesComplete, NoEarlyReturn,
           NEW b \in BBs \ {Exit}, NEW s \in f.succ[b], NEW c \in Ahead(s)
    PROVE  c = IF HasTerminator(b) THEN Attracted(s) ELSE jump[b]
<1>1. /\ sliced /\ IsFunction(f) /\ BBs \subseteq f.blocks /\ b \in f.blocks
      /\ f.succ[b] \subseteq f.blocks /\ s \in f.blocks
  BY SliceHas DEF IsFunction, Outlined
<1>2. ASSUME HasTerminator(b) \/ addDomBranches(b) = {}, NEW t \in f.succ[b], NEW d \in Ahead(t)
      PROVE  Attracted(t) = d
  <2>1. Exits(f) \cap ReachAvoiding(f, t, BBs) = {}
    BY <1>2 DEF NoEarlyReturn
  <2> QED
    BY <1>1, <1>2, <2>1, AttractedAhead
<1>3. CASE HasTerminator(b)
  BY <1>2, <1>3
<1>4. CASE ~HasTerminator(b)
  <2>1. jump[b] \in Targets(b)
    <3> DEFINE open == {x \in BBs : ~HasTerminator(x)}
               branches == UNION {{x} \X Targets(x) : x \in open}
    <3>1. b \in open /\ <<b, jump[b]>> \in branches
      BY <1>4 DEF Outlined, rerouteBranches
    <3> QED
      BY <3>1
  <2>2. CASE addDomBranches(b) # {}
    <3>1. jump[b] \in addDomBranches(b)
      BY <2>1, <2>2 DEF Targets
    <3> QED
      BY <1>1, <1>4, <3>1, DominatedAhead
  <2>3. CASE addDomBranches(b) = {}
    <3> DEFINE attracted == {Attracted(t) : t \in f.succ[b]} \ {NoBlock}
    <3>1. b \notin f.switches
      BY <1>4, <2>3 DEF NoEarlyReturn
    <3>2. Attracted(s) = c
      BY <1>2, <2>3
    <3>3. c # NoBlock
      BY <1>1, AheadReached, OutlineAssumption DEF SliceFacts, Fixed
    <3>4. jump[b] \in attracted
      BY <2>1, <2>3, <3>1, <3>2, <3>3 DEF Targets
    <3>5. PICK t \in f.succ[b] : jump[b] = Attracted(t) /\ Attracted(t) # NoBlock
      BY <3>4
    <3>6. PICK d : d \in Ahead(t)
      BY <1>1, <3>5, AheadNone
    <3>7. Attracted(t) = d
      BY <1>2, <2>3, <3>6
    <3> QED
      BY <1>1, <1>4, <3>5, <3>6, <3>7, AheadOfOpen
  <2> QED
    BY <1>4, <2>2, <2>3
<1> QED
  BY <1>3, <1>4

\* A block of the slice that is a successor in the delegate is ahead.
LEMMA SuccsLead ==
    ASSUME SliceFacts, SliceIsLeast, Outlined, GatesComplete, NoEarlyReturn,
           NEW b \in BBs \ {Exit}, NEW c \in Succs(jump, b), c \in BBs
    PROVE  \E s \in f.succ[b] : c \in Ahead(s)
<1>1. /\ sliced /\ IsFunction(f) /\ BBs \subseteq f.blocks /\ b \in f.blocks
      /\ f.succ[b] \subseteq f.blocks
  BY SliceHas DEF IsFunction, Outlined
<1>2. CASE HasTerminator(b)
  <2>1. PICK s \in f.succ[b] : c = Attracted(s)
    BY <1>2 DEF Succs
  <2>2. c # NoBlock
    BY <1>1, OutlineAssumption DEF SliceFacts, Fixed
  <2>3. PICK d : d \in Ahead(s)
    BY <1>1, <2>1, <2>2, AheadNone
  <2> QED
    BY <1>2, <2>1, <2>3, SuccsAhead
<1>3. CASE ~HasTerminator(b)
  <2>1. PICK s \in f.succ[b] : Leads(s)
    <3>1. Exit \in ReachAvoiding(f, b, {})
      BY <1>1, SliceLeads DEF Leads
    <3> QED
      BY <1>1, <3>1, ReachFirst DEF Leads
  <2>2. PICK d : d \in Ahead(s)
    BY <1>1, <2>1, AheadNone
  <2> QED
    BY <1>3, <2>1, <2>2, SuccsAhead DEF Succs
<1> QED
  BY <1>2, <1>3

\* The delegate starts where the function first meets the slice: reorderBlocks
\* has no other choice.
LEMMA EntryAhead ==
    ASSUME SliceFacts, SliceIsLeast, Outlined, GatesSuffice, NEW c \in Ahead(f.entry)
    PROVE  entry = c
<1> DEFINE hasPred(b) == \E p \in BBs \ {Exit} : b \in Succs(jump, p)
<1>1. /\ sliced /\ IsFunction(f) /\ BBs \subseteq f.blocks /\ f.entry \in f.blocks /\ Exit \in BBs
      /\ \A b \in f.blocks : f.succ[b] \subseteq f.blocks
      /\ GatesComplete /\ NoEarlyReturn /\ OutsideLoops
  BY SliceHas DEF IsFunction, Outlined, GatesSuffice
<1>2. c \in BBs /\ c \in f.blocks /\ Ahead(f.entry) \subseteq {c}
  BY <1>1, AheadReached, AheadUnique
<1>3. \A s \in f.succ[c] : c \notin ReachAvoiding(f, s, {})
  BY DEF GatesSuffice, OutsideLoops
<1>4. \A s \in f.succ[Exit] : ~Leads(s)
  BY <1>1 DEF OutsideLoops, Leads
<1>5. ASSUME NEW d \in BBs, d # c PROVE hasPred(d)
  <2> SUFFICES ASSUME \A p \in BBs \ {Exit} : d \notin Succs(jump, p) PROVE FALSE
    OBVIOUS
  <2> DEFINE R == {x \in f.blocks : d \notin Ahead(x)}
  <2>1. ASSUME NEW x \in R, NEW y \in f.succ[x] PROVE y \in R
    <3> SUFFICES ASSUME d \in Ahead(y) PROVE FALSE
      BY <1>1, <2>1
    <3>1. x \in f.blocks /\ y \in f.blocks
      BY <1>1, <2>1
    <3>2. CASE x \in BBs /\ x # Exit
      <4>1. d \in Succs(jump, x)
        BY <1>1, <2>1, <3>2, SuccsAhead DEF Succs
      <4> QED
        BY <3>2, <4>1
    <3>3. CASE x = Exit
      BY <1>1, <1>4, <2>1, <3>1, <3>3, AheadOnTheWay
    <3>4. CASE x \notin BBs
      <4>1. d \in Ahead(x)
        <5>1. x \in ReachAvoiding(f, x, BBs) /\ y \in ReachAvoiding(f, x, BBs) \cup BBs
          BY <1>1, <2>1, <3>1, <3>4, ReachClosed
        <5>2. CASE y \in BBs
          BY <1>5, <2>1, <3>4, <5>1, <5>2 DEF Ahead
        <5>3. CASE y \notin BBs
          <6>1. PICK z \in ReachAvoiding(f, y, BBs) : d \in f.succ[z]
            BY <5>3 DEF Ahead
          <6>2. z \in ReachAvoiding(f, x, BBs)
            BY <1>1, <3>1, <5>1, <5>3, <6>1, ReachTrans
          <6> QED
            BY <1>5, <3>4, <6>1, <6>2 DEF Ahead
        <5> QED
          BY <5>2, <5>3
      <4> QED
        BY <2>1, <4>1
    <3> QED
      BY <3>2, <3>3, <3>4
  <2>2. R \in SUBSET f.blocks /\ f.entry \in R /\ \A x \in R : f.succ[x] \subseteq R \cup {}
    BY <1>1, <1>2, <1>5, <2>1
  <2>3. d \notin R /\ d \in f.blocks
    BY <1>1, <1>5 DEF Ahead
  <2> HIDE DEF R
  <2>4. ReachAvoiding(f, f.entry, {}) \subseteq R
    BY <2>2, ReachLeast
  <2> QED
    BY <1>1, <2>3, <2>4 DEF IsFunction
<1>6. ASSUME NEW p \in BBs \ {Exit}, c \in Succs(jump, p) PROVE FALSE
  <2>1. PICK s \in f.succ[p] : c \in Ahead(s)
    BY <1>1, <1>2, <1>6, SuccsLead
  <2>2. p \in f.blocks /\ s \in f.blocks /\ c \in ReachAvoiding(f, s, {})
    BY <1>1, <2>1, AheadReached
  <2>3. p # c
    BY <1>3, <2>1, <2>2
  <2>4. p \in ReachAvoiding(f, c, {})
    <3>1. {} \cup {c} = {c} /\ p \in ReachAvoiding(f, f.entry, {})
      BY <1>1, <2>2 DEF IsFunction
    <3>2. ReachAvoiding(f, f.entry, {}) \subseteq
              ReachAvoiding(f, f.entry, {c}) \cup ReachAvoiding(f, c, {})
      BY <1>1, <1>2, <3>1, ReachSplit
    <3>3. p \notin ReachAvoiding(f, f.entry, {c})
      BY <1>1, <1>2, <1>6, AheadFirst
    <3> QED
      BY <3>1, <3>2, <3>3
  <2>5. PICK t \in f.succ[c] : p \in ReachAvoiding(f, t, {})
    BY <1>1, <1>2, <2>3, <2>4, ReachFirst
  <2>6. t \in f.blocks /\ s \in ReachAvoiding(f, t, {})
    BY <1>1, <1>2, <2>1, <2>5, ReachClosed
  <2>7. ReachAvoiding(f, s, {}) \subseteq ReachAvoiding(f, t, {})
    BY <1>1, <2>6, ReachTrans
  <2> QED
    BY <1>3, <2>2, <2>5, <2>7
<1>7. ~HasTerminator(Exit)
  BY <1>1, <1>4, SliceLeads
<1>8. {b \in BBs : ~hasPred(b)} = {c}
  BY <1>2, <1>5, <1>6
<1>9. {p \in BBs : HasTerminator(p) /\ NoBlock \in Succs(jump, p)} # {Exit}
  BY <1>7
<1> HIDE DEF hasPred
<1>10. reorderBlocks(jump) = {c}
  BY <1>8, <1>9 DEF reorderBlocks, hasPred
<1> QED
  BY <1>10 DEF Outlined

\* The gates suffice: the branches of the delegate go where the function goes.
LEMMA GatesSufficeToFollow ==
    ASSUME SliceFacts, SliceIsLeast, Outlined, GatesSuffice
    PROVE  BranchesFollow
BY EntryAhead, SuccsAhead DEF BranchesFollow, GatesSuffice

-----------------------------------------------------------------------------
\* Without phis, the blocks of the slice dominate the value and no branch is in
\* the slice.
LEMMA StraightDominates ==
    ASSUME SliceFacts, SliceIsLeast, sliced, Straight
    PROVE  /\ \A b \in BBs : Dom(f, b, Exit)
           /\ \A b \in f.blocks : ~HasTerminator(b)
<1> DEFINE S == f.args \cup {v \in deps \cap Inst(f) : /\ Dom(f, f.at[v], Exit)
                                                       /\ \A b \in f.blocks : v # Terminator(b)}
<1>1. /\ IsFunction(f) /\ InSSA(f) /\ BBs \subseteq f.blocks
      /\ \A v \in (deps \cap Inst(f)) \ Phis(f) :
             \A i \in DOMAIN f.ops[v] : f.ops[v][i] \in deps
  BY SliceHas
<1>2. deps \cap Phis(f) = {}
  BY DEF Straight
<1>3. f.initial \in S
  <2>1. f.initial \in deps \cap Inst(f) /\ \A b \in f.blocks : f.initial # Terminator(b)
    BY <1>1, SliceHas DEF IsFunction, InSSA
  <2>2. Dom(f, Exit, Exit)
    BY <1>1, ReachAvoids DEF Dom, IsFunction
  <2> QED
    BY <2>1, <2>2 DEF Exit
<1>4. Closed(S)
  <2> SUFFICES ASSUME NEW v \in S PROVE Operands(f, v) \cup GatesOf(v) \subseteq S
    BY DEF Closed
  <2>1. CASE v \in Inst(f)
    <3>1. /\ v \in (deps \cap Inst(f)) \ Phis(f) /\ Dom(f, f.at[v], Exit)
          /\ f.at[v] \in f.blocks /\ f.entry \in f.blocks /\ Exit \in f.blocks
      BY <1>1, <1>2, <2>1 DEF IsFunction, Exit
    <3>2. Operands(f, v) = {f.ops[v][i] : i \in DOMAIN f.ops[v]}
      BY <3>1 DEF Operands
    <3>3. ASSUME NEW u \in Operands(f, v) \cap Inst(f) PROVE Dom(f, f.at[u], Exit)
      <4>1. Dom(f, f.at[u], f.at[v]) /\ f.at[u] \in f.blocks
        BY <1>1, <3>1, <3>3 DEF InSSA, IsFunction
      <4> QED
        BY <1>1, <3>1, <4>1, DomTrans
    <3>4. \A u \in Operands(f, v) \cap Inst(f) : \A b \in f.blocks : u # Terminator(b)
      BY <1>1, <3>1 DEF InSSA
    <3>5. Operands(f, v) \subseteq deps /\ Operands(f, v) \subseteq Inst(f) \cup f.args
      BY <1>1, <3>1, <3>2 DEF IsFunction
    <3>6. GatesOf(v) = {}
      BY <3>1 DEF GatesOf
    <3> QED
      BY <3>3, <3>4, <3>5, <3>6
  <2>2. CASE v \notin Inst(f)
    BY <1>1, <2>2 DEF Operands, GatesOf, IsFunction
  <2> QED
    BY <2>1, <2>2
<1>5. deps \subseteq S
  <2> HIDE DEF S
  <2> QED
    BY <1>3, <1>4 DEF SliceIsLeast
<1>6. ASSUME NEW v \in deps, NEW b \in BlocksOf(v) PROVE Dom(f, b, Exit)
  <2>1. v \in Inst(f) /\ b = f.at[v] /\ v \notin f.args
    BY <1>1, <1>2, <1>6 DEF BlocksOf, IsFunction
  <2> QED
    BY <1>5, <2>1
<1>7. BBs \subseteq UNION {BlocksOf(v) : v \in deps}
  BY DEF SliceFacts, WalkInv
<1>8. ASSUME NEW b \in f.blocks PROVE ~HasTerminator(b)
  <2>1. Terminator(b) \in Inst(f) /\ Terminator(b) \notin f.args
    BY <1>1 DEF IsFunction
  <2> QED
    BY <1>5, <2>1 DEF HasTerminator
<1> QED
  BY <1>6, <1>7, <1>8

\* Without phis and loops, nothing has to be decided: the gates suffice.
LEMMA StraightSuffices ==
    ASSUME SliceFacts, SliceIsLeast, sliced, Straight
    PROVE  GatesSuffice
<1>1. /\ IsFunction(f) /\ BBs \subseteq f.blocks /\ Exit \in BBs /\ f.entry \in f.blocks
      /\ \A b \in f.blocks : f.succ[b] \subseteq f.blocks
  BY SliceHas DEF IsFunction
<1>2. /\ \A b \in BBs : Dom(f, b, Exit)
      /\ \A b \in f.blocks : ~HasTerminator(b)
  BY StraightDominates
<1>3. \A b \in BBs : \A s \in f.succ[b] : b \notin ReachAvoiding(f, s, {})
  BY DEF Straight
<1>4. ASSUME NEW b \in BBs, NEW c \in f.blocks, NEW s \in f.succ[c], b \in ReachAvoiding(f, s, {}),
             b = c \/ c \in ReachAvoiding(f, b, {})
      PROVE  FALSE
  <2>1. CASE b = c
    BY <1>3, <1>4, <2>1
  <2>2. CASE b # c
    <3>1. PICK t \in f.succ[b] : c \in ReachAvoiding(f, t, {})
      BY <1>1, <1>4, <2>2, ReachFirst
    <3>2. t \in f.blocks /\ s \in ReachAvoiding(f, t, {})
      BY <1>1, <1>4, <3>1, ReachClosed
    <3>3. ReachAvoiding(f, s, {}) \subseteq ReachAvoiding(f, t, {})
      BY <1>1, <3>2, ReachTrans
    <3> QED
      BY <1>3, <1>4, <3>1, <3>3
  <2> QED
    BY <2>1, <2>2
<1>5. GatesComplete
  <2> SUFFICES ASSUME NEW b \in BBs, NEW c \in f.blocks \ {Exit}, Decides(c, b) PROVE FALSE
    BY DEF GatesComplete
  <2>1. PICK s \in f.succ[c] : Leads(s) /\ OnTheWay(b, s)
    BY DEF Decides, Leads
  <2>2. s \in f.blocks /\ b \in f.blocks
    BY <1>1
  <2>3. b \in ReachAvoiding(f, s, {})
    BY <1>1, <2>1, <2>2, PassedOnTheWay
  <2>4. b = c \/ ~OnTheWay(b, c)
    BY DEF Decides
  <2>5. ASSUME ~OnTheWay(b, c) PROVE c \in ReachAvoiding(f, b, {})
    <3>1. Dom(f, b, c)
      <4> SUFFICES ASSUME c \in ReachAvoiding(f, f.entry, {b}) PROVE FALSE
        BY DEF Dom
      <4>1. ReachAvoiding(f, c, {b}) \subseteq ReachAvoiding(f, f.entry, {b})
        BY <1>1, ReachTrans
      <4> QED
        BY <1>2, <2>5, <4>1 DEF OnTheWay, Dom
    <3> QED
      BY <1>1, <2>2, <3>1, DomReaches
  <2> QED
    BY <1>4, <2>3, <2>4, <2>5
<1>6. ASSUME NEW b \in BBs \ {Exit} PROVE addDomBranches(b) # {}
  <2>1. b \in f.blocks /\ Leads(b)
    BY <1>1, SliceLeads
  <2>2. PICK s \in f.succ[b] : Leads(s)
    BY <1>1, <2>1, ReachFirst DEF Leads
  <2>3. s \in f.blocks
    BY <1>1, <2>1
  <2>4. PICK c : c \in Ahead(s)
    BY <2>2, <2>3, AheadNone
  <2>5. /\ c \in BBs /\ c \in f.blocks /\ c \in ReachAvoiding(f, s, {})
        /\ \A a \in BBs \ {c} : c \in ReachAvoiding(f, s, {a})
    BY <2>3, <2>4, AheadReached
  <2>6. c # b
    BY <1>3, <2>5
  <2>7. Dom(f, b, c)
    <3> SUFFICES ASSUME c \in ReachAvoiding(f, f.entry, {b}) PROVE FALSE
      BY DEF Dom
    <3>1. ReachAvoiding(f, c, {b}) \subseteq ReachAvoiding(f, f.entry, {b})
      BY <1>1, ReachTrans
    <3>2. OnTheWay(b, c)
      BY <1>2, <3>1 DEF OnTheWay, Dom
    <3>3. Leads(c)
      BY <2>5, SliceLeads
    <3>4. b \in ReachAvoiding(f, c, {})
      BY <1>1, <2>1, <2>5, <3>2, <3>3, PassedOnTheWay
    <3>5. ReachAvoiding(f, c, {}) \subseteq ReachAvoiding(f, s, {})
      BY <1>1, <2>3, <2>5, ReachTrans
    <3> QED
      BY <1>3, <3>4, <3>5
  <2>8. ASSUME NEW q \in BBs \ {c}, Dom(f, q, c), ~Dom(f, q, b) PROVE FALSE
    <3>1. b \in ReachAvoiding(f, f.entry, {q}) /\ q # s
      BY <1>1, <2>1, <2>4, <2>8 DEF Dom, Ahead
    <3>2. s \in ReachAvoiding(f, f.entry, {q})
      BY <1>1, <3>1, ReachClosed
    <3>3. ReachAvoiding(f, s, {q}) \subseteq ReachAvoiding(f, f.entry, {q})
      BY <1>1, <3>2, ReachTrans
    <3> QED
      BY <2>5, <2>8, <3>3 DEF Dom
  <2>9. c \in addDomBranches(b)
    BY <2>5, <2>6, <2>7, <2>8 DEF addDomBranches
  <2> QED
    BY <2>9
<1>7. NoEarlyReturn
  BY <1>1, <1>2, <1>6 DEF NoEarlyReturn
<1>8. OutsideLoops
  <2>1. Ahead(f.entry) \subseteq BBs
    BY DEF Ahead
  <2> QED
    BY <1>1, <1>3, <2>1 DEF OutsideLoops
<1> QED
  BY <1>5, <1>7, <1>8 DEF GatesSuffice
=============================================================================

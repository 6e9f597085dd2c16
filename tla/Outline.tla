------------------------------ MODULE Outline -------------------------------
(***************************************************************************)
(* A slice is outlined into a delegate function, and the delegate is run   *)
(* against the function it was sliced from.                                *)
(*                                                                         *)
(* Instructions are uninterpreted: a value is the term it was computed by, *)
(* and a branch may go either way on a value that it has not seen, but     *)
(* always the same way on the same value.  The two runs share these        *)
(* choices, so equal results mean equal results for every meaning of the   *)
(* instructions.                                                           *)
(*                                                                         *)
(* A block of the delegate has the name of the block it was cloned from.   *)
(* Every incoming block of a phi in the slice is in the slice too          *)
(* (SliceIsClosed), so the code that gives phis new incoming blocks finds  *)
(* none to replace.                                                        *)
(***************************************************************************)
EXTENDS ProgramSlice

CONSTANTS NoBlock,     \* no terminator, or the block that is unreachable
          MaxSteps     \* bound on the blocks a run of the function passes

ASSUME OutlineAssumption == MaxSteps \in Nat /\ \A g \in Funcs : NoBlock \notin g.blocks

VARIABLES phase,
          jump,        \* where blocks go whose terminator is not in the slice
          phiInc,      \* the phis of the delegate
          entry,       \* the delegate's first block
          pos, ip,     \* block that runs, index of its next instruction
          env,         \* values of arguments and instructions
          choice,      \* how branches went
          steps,       \* blocks passed
          trail,       \* history: blocks of the slice that the function passed
          strict,      \* the value in the original function
          result       \* the value the delegate returns

outVars == <<phase, jump, phiInc, entry>>
runVars == <<pos, ip, env, choice, steps, trail, strict, result>>
vars == <<sliceVars, outVars, runVars>>

Undef == <<<<"undef", NoBlock>>, <<>>>>

\* A faulty variant of depArgs: the conditions of gates are not looked at.
depArgsOfValues ==
    {a \in f.args : \E v \in deps \cap Inst(f) : /\ a \in Operands(f, v)
                                              /\ v # Terminator(f.at[v])}

\* The arguments that a thunk holds.
depArgs == f.args \cap deps

\* Arguments are given, instructions not yet computed.
Fresh(args) ==
    [v \in Inst(f) \cup f.args |-> IF v \in args THEN <<v, <<>>>> ELSE Undef]

OutInit == /\ Init
           /\ phase = "slice"
           /\ jump = <<>> /\ phiInc = <<>> /\ entry = NoBlock
           /\ pos = f.entry /\ ip = 1 /\ env = Fresh(f.args)
           /\ choice = {} /\ steps = 0 /\ strict = Undef /\ result = Undef
           /\ trail = <<[block |-> NoBlock, env |-> env, to |-> f.entry]>>

Slice == phase = "slice" /\ WalkNext /\ UNCHANGED <<outVars, runVars>>

-----------------------------------------------------------------------------
\* The part of canOutline that is about the shape of the slice: a phi with one
\* incoming block is rejected when that block's branch is not in the slice.
canOutline ==
    f.initial \in Phis(f) /\ Cardinality(DOMAIN f.inc[f.initial]) = 1 =>
        \A p \in DOMAIN f.inc[f.initial] : Terminator(p) \in deps

HasTerminator(b) == Terminator(b) \in deps

\* The blocks of the slice whose nearest dominator in the slice is b.
addDomBranches(b) ==
    {c \in BBs \ {b} : /\ Dom(f, b, c)
                       /\ \A q \in BBs \ {c} : Dom(f, q, c) => Dom(f, q, b)}

\* A faulty variant of Attracted: branches to blocks that are not in the slice
\* stay as they are.
AttractedToItself(s) == s

\* Where a branch to s goes in the delegate.
Attracted(s) == IF attractors[s] = {} THEN NoBlock ELSE CHOOSE a \in attractors[s] : TRUE

\* A faulty variant of Targets: dominance is not asked.
AttractedTargets(b) ==
    LET attracted == {Attracted(s) : s \in f.succ[b]} \ {NoBlock}
    IN  IF attracted # {} THEN attracted ELSE {NoBlock}

\* Where a block without terminator may be sent: to a block it dominates; else
\* to what attracts a successor, if the terminator was a branch.
Targets(b) ==
    LET attracted == {Attracted(s) : s \in f.succ[b]} \ {NoBlock}
    IN  IF addDomBranches(b) # {} THEN addDomBranches(b)
        ELSE IF attracted # {} /\ b \notin f.switches THEN attracted
        ELSE {NoBlock}

\* The ways to give every such block one branch.
rerouteBranches ==
    LET open == {b \in BBs : ~HasTerminator(b)}
        branches == UNION {{b} \X Targets(b) : b \in open}
    IN  {j \in [open -> {br[2] : br \in branches}] : \A b \in open : <<b, j[b]>> \in branches}

\* The successors of a block of the delegate.
Succs(j, b) == IF HasTerminator(b) THEN {Attracted(s) : s \in f.succ[b]} ELSE {j[b]}

\* A faulty variant of Stale: phis are trimmed before blocks without terminator
\* are given their branch.
StaleTooEarly(j, v) ==
    {p \in DOMAIN f.inc[v] : ~HasTerminator(p) \/ f.at[v] \notin Succs(j, p)}

\* The incoming blocks of a phi that are no predecessors in the delegate.
Stale(j, v) == {p \in DOMAIN f.inc[v] : f.at[v] \notin Succs(j, p)}

\* The orders in which a phi may list its incoming blocks.
Orders(v) ==
    {o \in [1 .. Cardinality(DOMAIN f.inc[v]) -> DOMAIN f.inc[v]] :
        \A k, l \in DOMAIN o : o[k] = o[l] => k = l}

\* A phi that lists its incoming blocks in the order o, after an index ran over
\* it to remove those in S: what follows a removed block moves up under the
\* index, which runs to the old number of blocks and so may read what was left
\* behind there.  It is lost when it is to remove a block that is gone.
Trimmed(S, o) ==
    LET n == Len(o)
        after[k \in 0 .. n] ==
            IF k = 0 THEN [slot |-> o, count |-> n, lost |-> FALSE]
            ELSE LET r == after[k-1]
                     at == {i \in 1 .. r.count : r.slot[i] = r.slot[k]}
                     moved(i) == i < r.count /\ \E a \in at : a <= i
                 IN  IF r.lost \/ r.slot[k] \notin S THEN r
                     ELSE [slot |-> [i \in 1 .. n |-> r.slot[IF moved(i) THEN i + 1 ELSE i]],
                           count |-> IF at = {} THEN r.count ELSE r.count - 1,
                           lost |-> at = {}]
    IN  after[n]

\* What can be left over of the stale blocks of a phi.
Skipped(j, v) ==
    {L \in SUBSET Stale(j, v) :
        \E o \in Orders(v) : LET r == Trimmed(Stale(j, v), o)
                             IN  ~r.lost /\ L = Stale(j, v) \cap {r.slot[i] : i \in 1 .. r.count}}

\* updatePHINodes may remove an incoming block that is not there (index -1).
Overruns(j) ==
    \E v \in Phis(f) \cap deps : \E o \in Orders(v) : Trimmed(Stale(j, v), o).lost

updatePHINodes(j) ==
    LET phis == Phis(f) \cap deps
        choices == {l \in [phis -> UNION {Skipped(j, v) : v \in phis}] :
                       \A v \in phis : l[v] \in Skipped(j, v)}
    IN  {[v \in phis |-> [p \in (DOMAIN f.inc[v] \ Stale(j, v)) \cup l[v] |-> f.inc[v][p]]] :
            l \in choices}

Exit == f.at[f.initial]

\* The block of the value returns (addReturnValue).  The entry is the last
\* block without predecessors, in an order that is up to the allocator; the
\* unreachable block, if there is one, comes after all others.
reorderBlocks(j) ==
    LET hasPred(b) == \E p \in BBs \ {Exit} : b \in Succs(j, p)
        roots == {b \in BBs : ~hasPred(b)}
        unreachable == {p \in BBs : HasTerminator(p) /\ NoBlock \in Succs(j, p)}
    IN  IF roots = {} \/ unreachable = {Exit} THEN {NoBlock} ELSE roots

\* No delegate is made of a slice that canOutline rejects; and the pass does not
\* live to run one whose phis it overruns.
outline ==
    /\ phase = "slice" /\ sliced
    /\ \/ /\ canOutline
          /\ phase' = "caller"
          /\ jump' \in rerouteBranches
          /\ phiInc' \in updatePHINodes(jump')
          /\ entry' \in reorderBlocks(jump')
       \/ /\ canOutline => \E j \in rerouteBranches : Overruns(j)
          /\ phase' = "done" /\ UNCHANGED <<jump, phiInc, entry>>
    /\ UNCHANGED <<sliceVars, runVars>>

-----------------------------------------------------------------------------
\* The values of the operands of v.
Values(e, v) == [i \in DOMAIN f.ops[v] |-> e[f.ops[v][i]]]

\* The block has come to its terminator.
AtEnd == pos # NoBlock /\ ip > Len(f.body[pos])

\* One instruction of the function, or of the delegate, which has those of the
\* slice only.
Execute ==
    /\ phase \in {"caller", "delegate"} /\ pos # NoBlock /\ ip <= Len(f.body[pos])
    /\ LET v == f.body[pos][ip]
       IN  env' = IF phase = "caller" \/ v \in deps
                  THEN [env EXCEPT ![v] = <<v, Values(env, v)>>] ELSE env
    /\ ip' = ip + 1
    /\ UNCHANGED <<sliceVars, outVars, pos, choice, steps, trail, strict, result>>

\* The values when block s is entered from p: its phis are computed at once.
Entered(insts, inc, p, s) ==
    [v \in DOMAIN env |->
        IF v \in insts \cap Phis(f) /\ f.at[v] = s
        THEN IF p \in DOMAIN inc[v] THEN env[inc[v][p]] ELSE Undef
        ELSE env[v]]

\* The block branches to s, as it did before on the same condition.
Branches(s) ==
    LET k == <<pos, Values(env, Terminator(pos))>>
    IN  /\ s \in f.succ[pos]
        /\ \A c \in choice : c[1] = k => c[2] = s
        /\ choice' = choice \cup {<<k, s>>}

\* The end of block pos in the history, left for block s.
Passed(s) == [block |-> pos, env |-> env, to |-> s]

CallerBranches(s) ==
    /\ phase = "caller" /\ AtEnd /\ pos # Exit /\ steps < MaxSteps
    /\ Branches(s)
    /\ pos' = s /\ ip' = 1 /\ env' = Entered(Inst(f), f.inc, pos, s)
    /\ steps' = steps + 1
    /\ trail' = IF pos \in BBs THEN Append(trail, Passed(s)) ELSE trail
    /\ UNCHANGED <<sliceVars, outVars, strict, result>>

\* The function returns without the value, or the bound is reached.
CallerEnds ==
    /\ phase = "caller" /\ AtEnd /\ pos # Exit /\ (steps = MaxSteps \/ f.succ[pos] = {})
    /\ phase' = "done"
    /\ UNCHANGED <<sliceVars, jump, phiInc, entry, runVars>>

\* The value is computed: the delegate gets its turn, with the arguments that
\* the thunk holds.
CallDelegate ==
    /\ phase = "caller" /\ AtEnd /\ pos = Exit
    /\ phase' = "delegate" /\ strict' = env[f.initial] /\ trail' = Append(trail, Passed(NoBlock))
    /\ pos' = entry /\ ip' = 1 /\ env' = Fresh(depArgs) /\ steps' = 1
    /\ UNCHANGED <<sliceVars, jump, phiInc, entry, choice, result>>

DelegateBranches ==
    /\ phase = "delegate" /\ AtEnd /\ pos # Exit /\ steps + 1 < Len(trail)
    /\ \/ HasTerminator(pos) /\ \E s \in f.succ[pos] : Branches(s) /\ pos' = Attracted(s)
       \/ ~HasTerminator(pos) /\ pos' = jump[pos] /\ UNCHANGED choice
    /\ ip' = 1 /\ env' = Entered(deps, phiInc, pos, pos')
    /\ steps' = steps + 1
    /\ UNCHANGED <<sliceVars, outVars, trail, strict, result>>

DelegateReturns ==
    /\ phase = "delegate" /\ AtEnd /\ pos = Exit
    /\ phase' = "done" /\ result' = env[f.initial]
    /\ UNCHANGED <<sliceVars, jump, phiInc, entry, pos, ip, env, choice, steps, trail, strict>>

\* The delegate runs into the unreachable block or off its end, or passes more
\* blocks of the slice than the function did: it has lost its way.
DelegateFails ==
    /\ phase = "delegate" /\ (pos = NoBlock \/ (AtEnd /\ pos # Exit /\ steps + 1 >= Len(trail)))
    /\ phase' = "done"
    /\ UNCHANGED <<sliceVars, jump, phiInc, entry, runVars>>

Done == phase = "done" /\ UNCHANGED vars

Next == \/ Slice \/ outline \/ Execute
        \/ CallerEnds \/ CallDelegate \/ (\E s \in f.blocks : CallerBranches(s))
        \/ DelegateBranches \/ DelegateReturns \/ DelegateFails \/ Done

Spec == OutInit /\ [][Next]_vars /\ WF_vars(Slice)

-----------------------------------------------------------------------------
\* The delegate is whole: all its branches lead to blocks that were cloned.
TypeOK ==
    /\ phase \in {"slice", "caller", "delegate", "done"}
    /\ phase = "slice" => jump = <<>> /\ phiInc = <<>>
    /\ phase \in {"caller", "delegate"} =>
           /\ sliced /\ canOutline
           /\ jump \in [{b \in BBs : ~HasTerminator(b)} -> BBs \cup {NoBlock}]
           /\ DOMAIN phiInc = Phis(f) \cap deps
    /\ entry \in BBs \cup {NoBlock}
    /\ phase \in {"slice", "caller"} => pos \in f.blocks
    /\ phase = "delegate" => pos \in BBs \cup {NoBlock}
    /\ ip \in Nat \ {0} /\ steps \in Nat

\* The blocks of the slice that can come first when block s is entered.
Ahead(s) == IF s \in BBs THEN {s}
            ELSE {c \in BBs : \E x \in ReachAvoiding(f, s, BBs) : c \in f.succ[x]}

\* From every block of the slice, the branch of the delegate goes where the
\* function meets the slice next.
BranchesFollow ==
    /\ Ahead(f.entry) \subseteq {entry}
    /\ \A b \in BBs \ {Exit} : \A s \in f.succ[b] :
           Ahead(s) \subseteq {IF HasTerminator(b) THEN Attracted(s) ELSE jump[b]}

\* Whether block b is passed on the way from s to the value is settled.
OnTheWay(b, s) == Exit \notin ReachAvoiding(f, s, {b})

\* Block c decides whether b is passed on the way to the value.
Decides(c, b) == /\ \E s \in f.succ[c] : Exit \in ReachAvoiding(f, s, {}) /\ OnTheWay(b, s)
                 /\ b = c \/ ~OnTheWay(b, c)

\* The gates are complete: the branches that decide whether a block of the
\* slice is passed on the way to the value are in the slice ...
GatesComplete ==
    \A b \in BBs, c \in f.blocks \ {Exit} : Decides(c, b) => HasTerminator(c)

\* ... where the delegate relies on attractors, the function cannot return
\* before it meets the slice again, and no switch is left out ...
NoEarlyReturn ==
    \A b \in BBs \ {Exit} :
        HasTerminator(b) \/ addDomBranches(b) = {} =>
            /\ b \in f.switches => HasTerminator(b)
            /\ \A s \in f.succ[b] : Ahead(s) # {} => Exits(f) \cap ReachAvoiding(f, s, BBs) = {}

\* ... and the slice begins and ends outside of loops.
OutsideLoops ==
    \A b \in Ahead(f.entry) \cup {Exit} : \A s \in f.succ[b] : b \notin ReachAvoiding(f, s, {})

GatesSuffice == GatesComplete /\ NoEarlyReturn /\ OutsideLoops

\* A slice without phis, outside of loops.
Straight == /\ deps \cap Phis(f) = {}
            /\ \A b \in BBs : \A s \in f.succ[b] : b \notin ReachAvoiding(f, s, {})

-----------------------------------------------------------------------------
\* What block b computes, and what of it is still to come at instruction i.
Computes(b) == {v \in Phis(f) : f.at[v] = b} \cup {f.body[b][i] : i \in DOMAIN f.body[b]}
Pending(b, i) == IF b = NoBlock THEN {} ELSE {f.body[b][k] : k \in i .. Len(f.body[b])}

\* The values e of V in block b follow from those at the block of the slice
\* before it.
Linked(t, b, e, V) ==
    /\ b \in Ahead(t.to)
    /\ \A v \in V :
           IF v \in Phis(f) /\ f.at[v] = b
           THEN t.block \in DOMAIN f.inc[v] /\ e[v] = t.env[f.inc[v][t.block]]
           ELSE e[v] = IF v \in Computes(b) THEN <<v, Values(e, v)>> ELSE t.env[v]

\* The history links every block of the slice to the next, and records how its
\* branch went ...
TrailLinked(tr, ch) ==
    /\ tr[1] = [block |-> NoBlock, env |-> Fresh(f.args), to |-> f.entry]
    /\ \A k \in 1 .. Len(tr) - 1 :
           /\ tr[k].block # Exit
           /\ Linked(tr[k], tr[k+1].block, tr[k+1].env, deps)
    /\ \A k \in 2 .. Len(tr) :
           /\ tr[k].block \in BBs
           /\ tr[k].block # Exit =>
                  /\ tr[k].to \in f.succ[tr[k].block]
                  /\ <<<<tr[k].block, Values(tr[k].env, Terminator(tr[k].block))>>, tr[k].to>> \in ch

\* ... the function, after block t of the slice, is on the way to the next one
\* and its values are up to date ...
CallerOn(t, b, i, e) ==
    /\ t.block # Exit
    /\ IF b \in BBs THEN Linked(t, b, e, deps \ Pending(b, i))
       ELSE b \in ReachAvoiding(f, t.to, BBs) /\ \A v \in deps : e[v] = t.env[v]

\* ... and the delegate passes the same blocks with the same values.
DelegateOn(tr, n, b, i, e) ==
    /\ n \in 1 .. Len(tr) - 1
    /\ b = tr[n+1].block
    /\ \A v \in deps \ Pending(b, i) : e[v] = tr[n+1].env[v]

\* The delegate that rerouteBranches leaves runs in step with the function, as
\* long as its branches follow the function's.
RunInv ==
    /\ phase = "slice" =>
           /\ trail = <<[block |-> NoBlock, env |-> Fresh(f.args), to |-> f.entry]>>
           /\ pos = f.entry /\ ip = 1 /\ env = Fresh(f.args)
    /\ phase \in {"slice", "caller"} => strict = Undef
    /\ phase \in {"caller", "delegate"} => TrailLinked(trail, choice)
    /\ phase = "caller" => CallerOn(trail[Len(trail)], pos, ip, env)
    /\ phase = "delegate" => /\ trail[Len(trail)].block = Exit
                             /\ strict = trail[Len(trail)].env[f.initial]
                             /\ BranchesFollow => DelegateOn(trail, steps, pos, ip, env)

\* The delegate "encapsulates the computation of the original value in regards
\* to which the slice was created" (outline): it returns that value, and
\* passes no more blocks than the function did.
DelegateComputesValue == phase = "done" /\ strict # Undef => result = strict

\* It does so if the branches that rerouteBranches and reorderBlocks leave go
\* where the function meets the slice next ...
GuidedDelegateComputesValue == DelegateComputesValue \/ ~BranchesFollow

\* ... which they do if the gates, attractors and dominators that computeGates,
\* computeAttractorBlocks and addDomBranches find are enough for the function's
\* control flow ...
GatedDelegateComputesValue == DelegateComputesValue \/ ~GatesSuffice

\* ... and they always are for a slice without phis that lies outside of loops.
StraightDelegateComputesValue == DelegateComputesValue \/ ~Straight
=============================================================================

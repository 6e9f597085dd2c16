--------------------------- MODULE DelegateProofs ---------------------------
(***************************************************************************)
(* The delegate computes the value, for every function and every run of    *)
(* it, by simulation: if the branches of the delegate go where the         *)
(* function meets the slice next, it passes the same blocks of the slice   *)
(* with the same values.  OutlineProofs shows when the branches do so.     *)
(***************************************************************************)
EXTENDS OutlineProofs

-----------------------------------------------------------------------------
\* What a sequence is after Append.
LEMMA AppendFacts ==
    ASSUME NEW S, NEW q \in Seq(S), NEW e
    PROVE  /\ Append(q, e) \in Seq(S \cup {e})
           /\ Len(Append(q, e)) = Len(q) + 1
           /\ \A i \in 1 .. Len(q) : Append(q, e)[i] = q[i]
           /\ Append(q, e)[Len(q) + 1] = e
<1>1. q \in Seq(S \cup {e})
  OBVIOUS
<1> QED
  BY <1>1

\* The instructions of a block.
LEMMA BodyHas ==
    ASSUME IsFunction(f), NEW b \in f.blocks
    PROVE  /\ Len(f.body[b]) \in Nat /\ DOMAIN f.body[b] = 1 .. Len(f.body[b])
           /\ \A i \in 1 .. Len(f.body[b]) :
                  /\ f.body[b][i] \in Inst(f) \ Phis(f) /\ f.at[f.body[b][i]] = b
                  /\ \A k \in 1 .. Len(f.body[b]) :
                         k >= i => /\ f.body[b][k] \notin Operands(f, f.body[b][i])
                                   /\ f.body[b][k] = f.body[b][i] => k = i
<1>0. InSSA(f)
  BY DEF IsFunction
<1>1. f.body[b] \in Seq(Inst(f) \ Phis(f))
  BY <1>0 DEF InSSA
<1>2. Len(f.body[b]) \in Nat /\ DOMAIN f.body[b] = 1 .. Len(f.body[b])
  BY <1>1
<1>3. \A i \in 1 .. Len(f.body[b]) : f.body[b][i] \in Inst(f) \ Phis(f)
  BY <1>1
<1> QED
  BY <1>0, <1>2, <1>3 DEF InSSA

-----------------------------------------------------------------------------
\* The parts of RunInv speak of the slice, which no longer changes.
LEMMA TrailPrimed ==
    ASSUME UNCHANGED sliceVars
    PROVE  TrailLinked(trail, choice)' <=> TrailLinked(trail', choice')
BY DEF sliceVars, TrailLinked, Linked, Ahead, Computes, Values, Fresh, Undef, Exit

\* After a step that leaves the slice alone, the function is on its way if it is
\* for the new values of the run ...
LEMMA CallerPrimed ==
    ASSUME UNCHANGED sliceVars
    PROVE  CallerOn(trail[Len(trail)], pos, ip, env)' <=> CallerOn(trail'[Len(trail')], pos', ip', env')
BY DEF sliceVars, CallerOn, Pending, Linked, Ahead, Computes, Values, Exit

\* ... the same for the delegate ...
LEMMA DelegatePrimed ==
    ASSUME UNCHANGED sliceVars
    PROVE  DelegateOn(trail, steps, pos, ip, env)' <=> DelegateOn(trail', steps', pos', ip', env')
BY DEF sliceVars, DelegateOn, Pending

\* ... and its branches lead where they led.
LEMMA FollowPrimed ==
    ASSUME UNCHANGED <<sliceVars, outVars>>
    PROVE  BranchesFollow' <=> BranchesFollow
BY DEF sliceVars, outVars, BranchesFollow, Ahead, HasTerminator, Attracted, Exit

-----------------------------------------------------------------------------
\* What is pending at the start, within and at the end of a block.
LEMMA PendingFacts ==
    ASSUME SliceFacts, NEW b \in f.blocks
    PROVE  /\ b # NoBlock
           /\ Computes(b) = {v \in Phis(f) : f.at[v] = b} \cup Pending(b, 1)
           /\ \A i \in Nat : i > Len(f.body[b]) => Pending(b, i) = {}
           /\ \A i \in 1 .. Len(f.body[b]) : /\ Pending(b, i) = Pending(b, i + 1) \cup {f.body[b][i]}
                                             /\ f.body[b][i] \notin Pending(b, i + 1)
<1>1. IsFunction(f) /\ b # NoBlock
  BY FuncsAssumption, OutlineAssumption DEF SliceFacts, Fixed
<1>2. /\ Len(f.body[b]) \in Nat /\ DOMAIN f.body[b] = 1 .. Len(f.body[b])
      /\ \A i, k \in 1 .. Len(f.body[b]) : k >= i /\ f.body[b][k] = f.body[b][i] => k = i
  BY <1>1, BodyHas
<1>3. \A i : Pending(b, i) = {f.body[b][k] : k \in i .. Len(f.body[b])}
  BY <1>1 DEF Pending
<1>4. Computes(b) = {v \in Phis(f) : f.at[v] = b} \cup Pending(b, 1)
  BY <1>2, <1>3 DEF Computes
<1>5. \A i \in Nat : i > Len(f.body[b]) => Pending(b, i) = {}
  BY <1>2, <1>3
<1>6. ASSUME NEW i \in 1 .. Len(f.body[b])
      PROVE  /\ Pending(b, i) = Pending(b, i + 1) \cup {f.body[b][i]}
             /\ f.body[b][i] \notin Pending(b, i + 1)
  <2>1. i .. Len(f.body[b]) = ((i + 1) .. Len(f.body[b])) \cup {i}
    BY <1>2
  <2>2. \A k \in (i + 1) .. Len(f.body[b]) : f.body[b][k] # f.body[b][i]
    BY <1>2
  <2> QED
    BY <1>3, <2>1, <2>2
<1> QED
  BY <1>1, <1>4, <1>5, <1>6

\* An operand of an instruction that is no longer pending is not pending.
LEMMA OperandsReady ==
    ASSUME SliceFacts, NEW b \in f.blocks, NEW i \in 1 .. Len(f.body[b]),
           NEW w \in Computes(b) \ Phis(f), w \notin Pending(b, i + 1)
    PROVE  \A n \in DOMAIN f.ops[w] : f.ops[w][n] \notin Pending(b, i)
<1>1. IsFunction(f) /\ b # NoBlock
  BY FuncsAssumption, OutlineAssumption DEF SliceFacts, Fixed
<1>2. /\ Len(f.body[b]) \in Nat /\ DOMAIN f.body[b] = 1 .. Len(f.body[b])
      /\ \A j \in 1 .. Len(f.body[b]) :
             /\ f.body[b][j] \in Inst(f) \ Phis(f)
             /\ \A k \in 1 .. Len(f.body[b]) : k >= j => f.body[b][k] \notin Operands(f, f.body[b][j])
  BY <1>1, BodyHas
<1>3. \A j : Pending(b, j) = {f.body[b][k] : k \in j .. Len(f.body[b])}
  BY <1>1 DEF Pending
<1>4. PICK j \in 1 .. Len(f.body[b]) : w = f.body[b][j]
  BY <1>2 DEF Computes
<1>5. j <= i
  BY <1>2, <1>3, <1>4
<1>6. Operands(f, w) = {f.ops[w][n] : n \in DOMAIN f.ops[w]}
  BY <1>2, <1>4 DEF Operands
<1>7. \A k \in i .. Len(f.body[b]) : f.body[b][k] \notin Operands(f, w)
  BY <1>2, <1>4, <1>5
<1> QED
  BY <1>3, <1>6, <1>7

\* Operands with equal values.
LEMMA ValuesSame ==
    ASSUME NEW d, NEW e, NEW w, \A n \in DOMAIN f.ops[w] : d[f.ops[w][n]] = e[f.ops[w][n]]
    PROVE  Values(d, w) = Values(e, w)
BY DEF Values

\* An instruction of the function keeps the link to the block before.
LEMMA ExecuteLinked ==
    ASSUME SliceFacts, NEW t, NEW b \in f.blocks, NEW i \in 1 .. Len(f.body[b]), NEW e,
           Linked(t, b, e, deps \ Pending(b, i)),
           NEW d, d[f.body[b][i]] = <<f.body[b][i], Values(e, f.body[b][i])>>,
           \A w \in Inst(f) \cup f.args : w # f.body[b][i] => d[w] = e[w]
    PROVE  Linked(t, b, d, deps \ Pending(b, i + 1))
<1> DEFINE v == f.body[b][i]
<1>1. IsFunction(f)
  BY FuncsAssumption DEF SliceFacts, Fixed
<1>2. v \in Inst(f) \ Phis(f) /\ Pending(b, i) = Pending(b, i + 1) \cup {v} /\ v \notin Pending(b, i + 1)
  BY <1>1, BodyHas, PendingFacts
<1>3. v \in Computes(b)
  BY <1>1, BodyHas DEF Computes
<1>4. d[v] = <<v, Values(e, v)>> /\ \A w \in Inst(f) \cup f.args : w # v => d[w] = e[w]
  OBVIOUS
<1> HIDE DEF v
<1>5. ASSUME NEW w \in Computes(b) \ Phis(f), w \notin Pending(b, i + 1)
      PROVE  Values(d, w) = Values(e, w)
  <2>1. \A n \in DOMAIN f.ops[w] : f.ops[w][n] \notin Pending(b, i)
    BY <1>5, OperandsReady
  <2>2. w \in Inst(f)
    BY <1>1, <1>5, BodyHas DEF Computes
  <2>3. \A n \in DOMAIN f.ops[w] : f.ops[w][n] \in Inst(f) \cup f.args
    BY <1>1, <1>5, <2>2 DEF IsFunction, Operands
  <2>4. \A n \in DOMAIN f.ops[w] : f.ops[w][n] # v
    BY <1>2, <2>1
  <2>5. \A n \in DOMAIN f.ops[w] : d[f.ops[w][n]] = e[f.ops[w][n]]
    BY <1>4, <2>3, <2>4
  <2> QED
    BY <2>5, ValuesSame
<1>6. ASSUME NEW w \in deps \ Pending(b, i + 1)
      PROVE  IF w \in Phis(f) /\ f.at[w] = b
             THEN t.block \in DOMAIN f.inc[w] /\ d[w] = t.env[f.inc[w][t.block]]
             ELSE d[w] = IF w \in Computes(b) THEN <<w, Values(d, w)>> ELSE t.env[w]
  <2>1. CASE w = v
    BY <1>2, <1>3, <1>4, <1>5, <2>1
  <2>2. CASE w # v
    <3>1. w \in deps \ Pending(b, i)
      BY <1>2, <2>2
    <3>2. d[w] = e[w]
      BY <1>4, <2>2 DEF SliceFacts, WalkInv
    <3>3. w \in Computes(b) /\ w \in Phis(f) => f.at[w] = b
      BY <1>1, BodyHas DEF Computes
    <3> QED
      BY <1>5, <3>1, <3>2, <3>3 DEF Linked
  <2> QED
    BY <2>1, <2>2
<1> QED
  BY <1>6 DEF Linked

-----------------------------------------------------------------------------
\* Where the function is after it enters block s, in terms of the slice.
LEMMA MeetsSlice ==
    ASSUME SliceFacts, NEW s \in f.blocks
    PROVE  /\ IF s \in BBs THEN s \in Ahead(s) ELSE s \in ReachAvoiding(f, s, BBs)
           /\ \A x \in ReachAvoiding(f, s, BBs) : \A c \in f.succ[x] :
                  IF c \in BBs THEN c \in Ahead(s) ELSE c \in ReachAvoiding(f, s, BBs)
<1>1. IsFunction(f)
  BY FuncsAssumption DEF SliceFacts, Fixed
<1>2. /\ s \notin BBs => s \in ReachAvoiding(f, s, BBs)
      /\ \A x \in ReachAvoiding(f, s, BBs) : f.succ[x] \subseteq ReachAvoiding(f, s, BBs) \cup BBs
  BY <1>1, ReachClosed
<1>3. s \in BBs => ReachAvoiding(f, s, BBs) = {}
  BY ReachFromAvoided
<1> QED
  BY <1>2, <1>3 DEF Ahead

\* The last block in the history was left for a block of the function.
LEMMA TrailLeads ==
    ASSUME SliceFacts, sliced, NEW S, NEW tr \in Seq(S), Len(tr) >= 1, NEW ch, TrailLinked(tr, ch),
           NEW k \in 1 .. Len(tr), tr[k].block # Exit
    PROVE  tr[k].to \in f.blocks
<1>1. IsFunction(f) /\ BBs \subseteq f.blocks
  BY SliceHas
<1>2. CASE k = 1
  BY <1>1, <1>2 DEF TrailLinked, IsFunction
<1>3. CASE k # 1
  <2>1. k \in 2 .. Len(tr)
    BY <1>3
  <2> QED
    BY <1>1, <2>1 DEF TrailLinked, IsFunction
<1> QED
  BY <1>2, <1>3

\* Later choices change nothing in the history.
LEMMA TrailKept ==
    ASSUME NEW tr, NEW ch, TrailLinked(tr, ch), NEW c
    PROVE  TrailLinked(tr, ch \cup {c})
BY DEF TrailLinked

\* One more block in the history.
LEMMA TrailGrows ==
    ASSUME NEW S, NEW tr \in Seq(S), Len(tr) >= 1, NEW ch, TrailLinked(tr, ch), NEW t,
           tr[Len(tr)].block # Exit,
           Linked(tr[Len(tr)], t.block, t.env, deps),
           t.block \in BBs,
           t.block # Exit => /\ t.to \in f.succ[t.block]
                             /\ <<<<t.block, Values(t.env, Terminator(t.block))>>, t.to>> \in ch
    PROVE  TrailLinked(Append(tr, t), ch)
<1> DEFINE q == Append(tr, t)
<1>1. /\ Len(q) = Len(tr) + 1 /\ Len(tr) \in Nat
      /\ \A i \in 1 .. Len(tr) : q[i] = tr[i]
      /\ q[Len(tr) + 1] = t
  BY AppendFacts
<1> HIDE DEF q
<1>2. q[1] = [block |-> NoBlock, env |-> Fresh(f.args), to |-> f.entry]
  BY <1>1 DEF TrailLinked
<1>3. ASSUME NEW k \in 1 .. Len(q) - 1
      PROVE  q[k].block # Exit /\ Linked(q[k], q[k+1].block, q[k+1].env, deps)
  <2>1. CASE k = Len(tr)
    BY <1>1, <2>1
  <2>2. CASE k # Len(tr)
    <3>1. k \in 1 .. Len(tr) - 1 /\ q[k] = tr[k] /\ q[k+1] = tr[k+1]
      BY <1>1, <2>2
    <3> QED
      BY <3>1 DEF TrailLinked
  <2> QED
    BY <2>1, <2>2
<1>4. ASSUME NEW k \in 2 .. Len(q)
      PROVE  /\ q[k].block \in BBs
             /\ q[k].block # Exit =>
                  /\ q[k].to \in f.succ[q[k].block]
                  /\ <<<<q[k].block, Values(q[k].env, Terminator(q[k].block))>>, q[k].to>> \in ch
  <2>1. CASE k = Len(tr) + 1
    BY <1>1, <2>1
  <2>2. CASE k # Len(tr) + 1
    <3>1. k \in 2 .. Len(tr) /\ q[k] = tr[k]
      BY <1>1, <2>2
    <3> QED
      BY <3>1 DEF TrailLinked
  <2> QED
    BY <2>1, <2>2
<1> QED
  BY <1>2, <1>3, <1>4 DEF TrailLinked, q

-----------------------------------------------------------------------------
\* No value of the slice is computed outside of its blocks, and no edge into a
\* phi of the slice comes from outside.
LEMMA OutsideComputesNothing ==
    ASSUME SliceFacts, sliced, NEW b \in f.blocks \ BBs
    PROVE  /\ \A v \in deps : v \notin Computes(b)
           /\ \A c \in f.succ[b] : \A v \in deps \cap Phis(f) : f.at[v] # c
<1>1. /\ IsFunction(f) /\ InSSA(f)
      /\ \A v \in deps \cap Inst(f) : f.at[v] \in BBs
      /\ \A v \in deps \cap Phis(f) : v \in Inst(f) /\ DOMAIN f.inc[v] \subseteq BBs
  BY SliceHas
<1>2. \A v \in Computes(b) : v \in Inst(f) /\ f.at[v] = b
  BY <1>1, BodyHas DEF Computes, IsFunction
<1>3. \A v \in Phis(f) : DOMAIN f.inc[v] = Preds(f, f.at[v])
  BY <1>1 DEF InSSA
<1>4. \A c \in f.succ[b] : b \in Preds(f, c)
  BY DEF Preds
<1> QED
  BY <1>1, <1>2, <1>3, <1>4

\* The function enters block s from a block of the slice ...
LEMMA EntersFromSlice ==
    ASSUME SliceFacts, sliced, NEW t, t.block \in BBs \ {Exit}, NEW s \in f.succ[t.block], t.to = s,
           NEW d,
           \A v \in deps : d[v] = IF v \in Phis(f) /\ f.at[v] = s
                                  THEN IF t.block \in DOMAIN f.inc[v]
                                       THEN t.env[f.inc[v][t.block]] ELSE Undef
                                  ELSE t.env[v]
    PROVE  CallerOn(t, s, 1, d)
<1>1. /\ IsFunction(f) /\ InSSA(f) /\ BBs \subseteq f.blocks
      /\ \A v \in deps \cap Inst(f) : f.at[v] \in BBs
      /\ \A v \in deps \cap Phis(f) : v \in Inst(f)
  BY SliceHas
<1>2. s \in f.blocks /\ t.block \in f.blocks
  BY <1>1 DEF IsFunction
<1>3. \A v \in Phis(f) : f.at[v] = s => t.block \in DOMAIN f.inc[v]
  BY <1>1, <1>2 DEF InSSA, Preds
<1>4. CASE s \in BBs
  <2>1. s \in Ahead(t.to)
    BY <1>2, <1>4, MeetsSlice
  <2>2. Computes(s) = {v \in Phis(f) : f.at[v] = s} \cup Pending(s, 1)
    BY <1>2, PendingFacts
  <2>3. Linked(t, s, d, deps \ Pending(s, 1))
    BY <1>3, <2>1, <2>2 DEF Linked
  <2> QED
    BY <1>4, <2>3 DEF CallerOn
<1>5. CASE s \notin BBs
  <2>1. s \in ReachAvoiding(f, t.to, BBs)
    BY <1>2, <1>5, MeetsSlice
  <2>2. \A v \in deps : d[v] = t.env[v]
    BY <1>1, <1>5
  <2> QED
    BY <1>5, <2>1, <2>2 DEF CallerOn
<1> QED
  BY <1>4, <1>5

\* ... or from outside of the slice.
LEMMA EntersFromOutside ==
    ASSUME SliceFacts, sliced, NEW t, t.to \in f.blocks, NEW b \in f.blocks \ BBs, NEW s \in f.succ[b],
           NEW i, NEW e, CallerOn(t, b, i, e), NEW d,
           \A v \in deps : (v \in Phis(f) /\ f.at[v] = s) \/ d[v] = e[v]
    PROVE  CallerOn(t, s, 1, d)
<1>1. /\ b \in ReachAvoiding(f, t.to, BBs) /\ t.block # Exit
      /\ \A v \in deps : e[v] = t.env[v]
  BY DEF CallerOn
<1>2. \A v \in deps : ~(v \in Phis(f) /\ f.at[v] = s)
  BY OutsideComputesNothing
<1>3. \A v \in deps : d[v] = t.env[v]
  BY <1>1, <1>2
<1>4. s \in f.blocks
  BY SliceHas DEF IsFunction
<1>5. CASE s \in BBs
  <2>1. s \in Ahead(t.to)
    BY <1>1, <1>5, MeetsSlice
  <2>2. Computes(s) = {v \in Phis(f) : f.at[v] = s} \cup Pending(s, 1)
    BY <1>4, PendingFacts
  <2>3. Linked(t, s, d, deps \ Pending(s, 1))
    BY <1>2, <1>3, <2>1, <2>2 DEF Linked
  <2> QED
    BY <1>1, <1>5, <2>3 DEF CallerOn
<1>6. CASE s \notin BBs
  <2>1. s \in ReachAvoiding(f, t.to, BBs)
    BY <1>1, <1>6, MeetsSlice
  <2> QED
    BY <1>1, <1>3, <1>6, <2>1 DEF CallerOn
<1> QED
  BY <1>5, <1>6

\* The function starts.
LEMMA CallerStarts ==
    ASSUME SliceFacts, sliced, NEW t, NEW e, t = [block |-> NoBlock, env |-> e, to |-> f.entry]
    PROVE  CallerOn(t, f.entry, 1, e)
<1>1. /\ IsFunction(f) /\ InSSA(f) /\ BBs \subseteq f.blocks /\ Exit \in BBs
  BY SliceHas
<1>2. f.entry \in f.blocks /\ t.block # Exit
  BY <1>1, OutlineAssumption DEF SliceFacts, Fixed, IsFunction
<1>3. \A v \in Phis(f) : f.at[v] # f.entry
  BY <1>1 DEF InSSA
<1>4. CASE f.entry \in BBs
  <2>1. f.entry \in Ahead(t.to)
    BY <1>2, <1>4, MeetsSlice
  <2>2. Computes(f.entry) = {v \in Phis(f) : f.at[v] = f.entry} \cup Pending(f.entry, 1)
    BY <1>2, PendingFacts
  <2>3. Linked(t, f.entry, e, deps \ Pending(f.entry, 1))
    BY <1>3, <2>1, <2>2 DEF Linked
  <2> QED
    BY <1>2, <1>4, <2>3 DEF CallerOn
<1>5. CASE f.entry \notin BBs
  <2>1. f.entry \in ReachAvoiding(f, t.to, BBs)
    BY <1>2, <1>5, MeetsSlice
  <2> QED
    BY <1>2, <1>5, <2>1 DEF CallerOn
<1> QED
  BY <1>4, <1>5

-----------------------------------------------------------------------------
RunTyped ==
    /\ phase # "done" => DOMAIN env = Inst(f) \cup f.args
    /\ (\E S : trail \in Seq(S)) /\ Len(trail) >= 1
    /\ phase = "slice" \/ (phase = "done" /\ strict = Undef) \/ Outlined

\* Once outlined, a delegate stays as it is while the two run.
LEMMA OutlinedPrimed ==
    ASSUME UNCHANGED <<sliceVars, jump, phiInc, entry>>
    PROVE  Outlined' <=> Outlined
<1>1. rerouteBranches' = rerouteBranches
  BY DEF sliceVars, rerouteBranches, HasTerminator, Targets, Attracted, addDomBranches
<1>2. reorderBlocks(jump)' = reorderBlocks(jump)
  BY DEF sliceVars, reorderBlocks, Succs, HasTerminator, Attracted, Exit
<1>3. updatePHINodes(jump)' = updatePHINodes(jump)
  BY DEF sliceVars, updatePHINodes, Skipped, Orders, Stale, Succs, HasTerminator, Attracted
<1> QED
  BY <1>1, <1>2, <1>3 DEF Outlined, sliceVars

\* updatePHINodes removes no edge that the delegate has.
LEMMA PhisKept ==
    ASSUME NEW v \in Phis(f) \cap deps, NEW p \in DOMAIN f.inc[v],
           phiInc \in updatePHINodes(jump), f.at[v] \in Succs(jump, p)
    PROVE  p \in DOMAIN phiInc[v] /\ phiInc[v][p] = f.inc[v][p]
<1>1. p \notin Stale(jump, v)
  BY DEF Stale
<1>2. \E L : phiInc[v] = [q \in (DOMAIN f.inc[v] \ Stale(jump, v)) \cup L |-> f.inc[v][q]]
  BY DEF updatePHINodes
<1> QED
  BY <1>1, <1>2

\* Every step of the runs keeps the types.
LEMMA RunTypedStep ==
    ASSUME RunTyped, RunInv, TypeOK, [Next]_vars
    PROVE  RunTyped'
<1>a. PICK S : trail \in Seq(S)
  BY DEF RunTyped
<1>b. Len(trail) >= 1 /\ Len(trail) \in Nat
  BY <1>a DEF RunTyped
<1>c. ASSUME NEW t, trail' = Append(trail, t) PROVE (\E Z : trail' \in Seq(Z)) /\ Len(trail') >= 1
  <2>1. trail' \in Seq(S \cup {t}) /\ Len(trail') = Len(trail) + 1
    BY <1>a, <1>c, AppendFacts
  <2> QED
    BY <1>b, <2>1
<1>d. ASSUME trail' = trail PROVE (\E Z : trail' \in Seq(Z)) /\ Len(trail') >= 1
  BY <1>a, <1>b, <1>d
<1>1. CASE Slice
  BY <1>1, <1>d DEF Slice, outVars, runVars, WalkNext, EndWalk, get_data_dependences_for, RunTyped
<1>2. CASE outline
  <2>1. CASE canOutline /\ phase' = "caller"
    <3>1. UNCHANGED sliceVars
      BY <1>2 DEF outline
    <3>2. rerouteBranches' = rerouteBranches
      BY <3>1 DEF sliceVars, rerouteBranches, HasTerminator, Targets, Attracted, addDomBranches
    <3>3. reorderBlocks(jump)' = reorderBlocks(jump')
      BY <3>1 DEF sliceVars, reorderBlocks, Succs, HasTerminator, Attracted, Exit
    <3>4. updatePHINodes(jump)' = updatePHINodes(jump')
      BY <3>1 DEF sliceVars, updatePHINodes, Skipped, Orders, Stale, Succs, HasTerminator, Attracted
    <3>5. Outlined'
      BY <1>2, <2>1, <3>1, <3>2, <3>3, <3>4 DEF outline, Outlined, sliceVars
    <3> QED
      BY <1>2, <1>d, <3>5 DEF outline, runVars, sliceVars, RunTyped
  <2>2. CASE phase' = "done"
    BY <1>2, <1>d, <2>2 DEF outline, runVars, sliceVars, RunTyped, RunInv, Undef
  <2> QED
    BY <1>2, <2>1, <2>2 DEF outline
<1>3. CASE Execute
  <2>1. DOMAIN env' = DOMAIN env
    BY <1>3 DEF Execute
  <2>2. /\ UNCHANGED <<sliceVars, jump, phiInc, entry>>
        /\ phase \in {"caller", "delegate"} /\ phase' = phase /\ trail' = trail /\ f' = f
    BY <1>3 DEF Execute, outVars, sliceVars
  <2> QED
    BY <1>d, <2>1, <2>2, OutlinedPrimed DEF RunTyped
<1>4. ASSUME NEW s \in f.blocks, CallerBranches(s) PROVE RunTyped'
  <2>1. DOMAIN env' = DOMAIN env
    BY <1>4 DEF CallerBranches, Entered
  <2>2. /\ UNCHANGED <<sliceVars, jump, phiInc, entry>>
        /\ phase = "caller" /\ phase' = phase /\ f' = f
        /\ trail' = trail \/ trail' = Append(trail, Passed(s))
    BY <1>4 DEF CallerBranches, outVars, sliceVars
  <2> QED
    BY <1>c, <1>d, <2>1, <2>2, OutlinedPrimed DEF RunTyped
<1>5. CASE CallerEnds
  BY <1>5, <1>d DEF CallerEnds, runVars, RunTyped, RunInv, Undef
<1>6. CASE CallDelegate
  <2>1. DOMAIN env' = Inst(f) \cup f.args
    BY <1>6 DEF CallDelegate, Fresh
  <2>2. /\ UNCHANGED <<sliceVars, jump, phiInc, entry>>
        /\ phase = "caller" /\ phase' = "delegate" /\ f' = f
        /\ trail' = Append(trail, Passed(NoBlock))
    BY <1>6 DEF CallDelegate, sliceVars
  <2> QED
    BY <1>c, <2>1, <2>2, OutlinedPrimed DEF RunTyped
<1>7. CASE DelegateBranches
  <2>1. DOMAIN env' = DOMAIN env
    BY <1>7 DEF DelegateBranches, Entered
  <2>2. /\ UNCHANGED <<sliceVars, jump, phiInc, entry>>
        /\ phase = "delegate" /\ phase' = phase /\ f' = f /\ trail' = trail
    BY <1>7 DEF DelegateBranches, outVars, sliceVars
  <2> QED
    BY <1>d, <2>1, <2>2, OutlinedPrimed DEF RunTyped
<1>8. CASE DelegateReturns \/ DelegateFails
  <2>1. /\ UNCHANGED <<sliceVars, jump, phiInc, entry>>
        /\ phase = "delegate" /\ phase' = "done" /\ trail' = trail
    BY <1>8 DEF DelegateReturns, DelegateFails, runVars
  <2> QED
    BY <1>d, <2>1, OutlinedPrimed DEF RunTyped
<1>9. CASE Done \/ UNCHANGED vars
  <2>1. UNCHANGED <<sliceVars, jump, phiInc, entry>> /\ UNCHANGED <<phase, env, f, trail, strict>>
    BY <1>9 DEF Done, vars, outVars, runVars, sliceVars
  <2> QED
    BY <1>d, <2>1, OutlinedPrimed DEF RunTyped, Undef
<1> QED
  BY <1>1, <1>2, <1>3, <1>4, <1>5, <1>6, <1>7, <1>8, <1>9 DEF Next

-----------------------------------------------------------------------------
\* The function and the delegate execute an instruction.
LEMMA RunExecutes ==
    ASSUME SliceFacts, TypeOK, RunTyped, RunInv, Execute
    PROVE  RunInv'
<1> DEFINE v == f.body[pos][ip]
           t == trail[Len(trail)]
<1>1. /\ phase \in {"caller", "delegate"} /\ phase' = phase /\ pos # NoBlock /\ ip <= Len(f.body[pos])
      /\ env' = IF phase = "caller" \/ v \in deps THEN [env EXCEPT ![v] = <<v, Values(env, v)>>] ELSE env
      /\ ip' = ip + 1 /\ UNCHANGED <<sliceVars, outVars>>
      /\ pos' = pos /\ choice' = choice /\ steps' = steps /\ trail' = trail /\ strict' = strict
  BY DEF Execute, outVars
<1>2. sliced /\ IsFunction(f) /\ BBs \subseteq f.blocks /\ deps \subseteq Inst(f) \cup f.args
  BY <1>1, SliceHas DEF TypeOK
<1>3. pos \in f.blocks /\ ip \in 1 .. Len(f.body[pos])
  BY <1>1, <1>2, BodyHas DEF TypeOK
<1>4. /\ v \in Inst(f) \ Phis(f) /\ f.at[v] = pos
      /\ Pending(pos, ip) = Pending(pos, ip + 1) \cup {v} /\ v \notin Pending(pos, ip + 1)
  BY <1>2, <1>3, BodyHas, PendingFacts
<1>5. DOMAIN env = Inst(f) \cup f.args
  BY <1>1 DEF RunTyped
<1> HIDE DEF v
<1>6. /\ \A w \in Inst(f) \cup f.args : w # v => env'[w] = env[w]
      /\ phase = "caller" \/ v \in deps => env'[v] = <<v, Values(env, v)>>
  BY <1>1, <1>4, <1>5
<1>7. TrailLinked(trail, choice)'
  BY <1>1, TrailPrimed DEF RunInv
<1>8. CASE phase = "caller"
  <2>1. CallerOn(t, pos, ip, env)
    BY <1>8 DEF RunInv
  <2>2. CallerOn(t, pos, ip + 1, env')
    <3>1. CASE pos \in BBs
      <4>1. Linked(t, pos, env, deps \ Pending(pos, ip))
        BY <2>1, <3>1 DEF CallerOn
      <4>2. Linked(t, pos, env', deps \ Pending(pos, ip + 1))
        BY <1>3, <1>6, <1>8, <4>1, ExecuteLinked DEF v
      <4> QED
        BY <2>1, <3>1, <4>2 DEF CallerOn
    <3>2. CASE pos \notin BBs
      <4>1. v \notin deps
        BY <1>2, <1>4, <3>2, SliceHas
      <4> QED
        BY <1>2, <1>6, <2>1, <3>2, <4>1 DEF CallerOn
    <3> QED
      BY <3>1, <3>2
  <2>3. CallerOn(trail[Len(trail)], pos, ip, env)'
    BY <1>1, <2>2, CallerPrimed
  <2> QED
    BY <1>1, <1>7, <1>8, <2>3 DEF RunInv, Undef
<1>9. CASE phase = "delegate"
  <2>1. ASSUME DelegateOn(trail, steps, pos, ip, env)
        PROVE  DelegateOn(trail, steps, pos, ip + 1, env')
    <3> DEFINE e == trail[steps + 1].env
    <3>1. /\ steps \in 1 .. Len(trail) - 1 /\ pos = trail[steps + 1].block
          /\ \A w \in deps \ Pending(pos, ip) : env[w] = e[w]
      BY <2>1 DEF DelegateOn
    <3>2. Linked(trail[steps], pos, e, deps)
      BY <1>9, <3>1 DEF RunInv, TrailLinked
    <3>3. ASSUME v \in deps PROVE env'[v] = e[v]
      <4>1. v \in Computes(pos)
        BY <1>2, <1>3, BodyHas DEF Computes, v
      <4>2. e[v] = <<v, Values(e, v)>>
        BY <1>4, <3>2, <3>3, <4>1 DEF Linked
      <4>3. \A n \in DOMAIN f.ops[v] : f.ops[v][n] \in deps \ Pending(pos, ip)
        BY <1>2, <1>3, <1>4, <3>3, <4>1, OperandsReady, SliceHas
      <4>4. Values(env, v) = Values(e, v)
        BY <3>1, <4>3, ValuesSame
      <4> QED
        BY <1>6, <3>3, <4>2, <4>4
    <3>4. \A w \in deps \ Pending(pos, ip + 1) : env'[w] = e[w]
      BY <1>2, <1>4, <1>6, <3>1, <3>3
    <3> QED
      BY <3>1, <3>4 DEF DelegateOn
  <2>2. BranchesFollow' => DelegateOn(trail, steps, pos, ip, env)'
    BY <1>1, <1>9, <2>1, DelegatePrimed, FollowPrimed DEF RunInv
  <2> QED
    BY <1>1, <1>7, <1>9, <2>2 DEF RunInv, Exit, sliceVars
<1> QED
  BY <1>1, <1>8, <1>9

\* The function branches.
LEMMA RunCallerBranches ==
    ASSUME SliceFacts, TypeOK, RunTyped, RunInv, NEW s \in f.blocks, CallerBranches(s)
    PROVE  RunInv'
<1> DEFINE t == trail[Len(trail)]
           k == <<pos, Values(env, Terminator(pos))>>
<1>1. /\ phase = "caller" /\ phase' = phase /\ AtEnd /\ pos # Exit
      /\ s \in f.succ[pos] /\ choice' = choice \cup {<<k, s>>}
      /\ pos' = s /\ ip' = 1 /\ env' = Entered(Inst(f), f.inc, pos, s)
      /\ trail' = (IF pos \in BBs THEN Append(trail, Passed(s)) ELSE trail)
      /\ UNCHANGED <<sliceVars, outVars>> /\ strict' = strict
  BY DEF CallerBranches, Branches, outVars
<1>2. /\ sliced /\ IsFunction(f) /\ BBs \subseteq f.blocks /\ deps \subseteq Inst(f) \cup f.args
      /\ \A v \in deps \cap Phis(f) : v \in Inst(f)
  BY <1>1, SliceHas DEF TypeOK
<1>3. pos \in f.blocks /\ ip \in Nat /\ Pending(pos, ip) = {}
  BY <1>1, <1>2, PendingFacts DEF TypeOK, AtEnd
<1>4. \A v \in deps : env'[v] = IF v \in Phis(f) /\ f.at[v] = s
                                THEN IF pos \in DOMAIN f.inc[v] THEN env[f.inc[v][pos]] ELSE Undef
                                ELSE env[v]
  BY <1>1, <1>2 DEF RunTyped, Entered
<1>5. PICK S : trail \in Seq(S)
  BY DEF RunTyped
<1>6. Len(trail) >= 1 /\ Len(trail) \in 1 .. Len(trail)
  BY <1>5 DEF RunTyped
<1>7. CallerOn(t, pos, ip, env) /\ t.block # Exit
  BY <1>1 DEF RunInv, CallerOn
<1>8. TrailLinked(trail, choice')
  BY <1>1, TrailKept DEF RunInv
<1>9. TrailLinked(trail', choice') /\ CallerOn(trail'[Len(trail')], pos', ip', env')
  <2>1. CASE pos \in BBs
    <3> DEFINE n == Passed(s)
    <3>1. n.block = pos /\ n.env = env /\ n.to = s
      BY DEF Passed
    <3>2. Linked(t, pos, env, deps)
      BY <1>3, <1>7, <2>1 DEF CallerOn
    <3>3. trail' = Append(trail, n) /\ trail'[Len(trail')] = n
      BY <1>1, <1>5, <2>1, AppendFacts
    <3> HIDE DEF n
    <3>4. TrailLinked(trail', choice')
      <4>1. <<<<n.block, Values(n.env, Terminator(n.block))>>, n.to>> \in choice'
        BY <1>1, <3>1
      <4>2. n.block \in BBs /\ n.to \in f.succ[n.block] /\ Linked(t, n.block, n.env, deps)
        BY <1>1, <2>1, <3>1, <3>2
      <4> QED
        BY <1>5, <1>6, <1>7, <1>8, <3>3, <4>1, <4>2, TrailGrows
    <3>5. CallerOn(n, s, 1, env')
      BY <1>1, <1>2, <1>4, <2>1, <3>1, EntersFromSlice
    <3> QED
      BY <1>1, <3>3, <3>4, <3>5
  <2>2. CASE pos \notin BBs
    <3>1. t.to \in f.blocks
      BY <1>2, <1>5, <1>6, <1>7, <1>8, TrailLeads
    <3>2. CallerOn(t, s, 1, env')
      BY <1>1, <1>2, <1>3, <1>4, <1>7, <2>2, <3>1, EntersFromOutside
    <3> QED
      BY <1>1, <1>8, <2>2, <3>2
  <2> QED
    BY <2>1, <2>2
<1>10. TrailLinked(trail, choice)' /\ CallerOn(trail[Len(trail)], pos, ip, env)'
  BY <1>1, <1>9, TrailPrimed, CallerPrimed
<1> QED
  BY <1>1, <1>10 DEF RunInv, Undef

\* The function starts, once the slice is outlined.
LEMMA RunStarts ==
    ASSUME SliceFacts, TypeOK, RunInv, outline
    PROVE  RunInv'
<1>1. CASE phase' = "caller"
  <2>1. /\ phase = "slice" /\ sliced /\ phase' = "caller" /\ UNCHANGED sliceVars /\ UNCHANGED runVars
    BY <1>1 DEF outline
  <2>2. /\ trail = <<[block |-> NoBlock, env |-> Fresh(f.args), to |-> f.entry]>>
        /\ pos = f.entry /\ ip = 1 /\ env = Fresh(f.args) /\ strict = Undef
    BY <2>1 DEF RunInv
  <2>3. Len(trail) = 1 /\ trail[1] = [block |-> NoBlock, env |-> Fresh(f.args), to |-> f.entry]
    BY <2>2
  <2>4. TrailLinked(trail, choice)
    BY <2>3 DEF TrailLinked
  <2>5. CallerOn(trail[Len(trail)], pos, ip, env)
    BY <2>1, <2>2, <2>3, CallerStarts
  <2>6. TrailLinked(trail, choice)' /\ CallerOn(trail[Len(trail)], pos, ip, env)'
    BY <2>1, <2>4, <2>5, TrailPrimed, CallerPrimed DEF runVars
  <2> QED
    BY <2>1, <2>2, <2>6 DEF RunInv, runVars, Undef
<1>2. CASE phase' = "done"
  BY <1>2 DEF outline, RunInv
<1> QED
  BY <1>1, <1>2 DEF outline

\* The delegate starts, with the arguments of the slice.
LEMMA RunCallsDelegate ==
    ASSUME SliceFacts, TypeOK, RunTyped, RunInv, CallDelegate
    PROVE  RunInv'
<1> DEFINE t == trail[Len(trail)]
           n == Passed(NoBlock)
<1>1. /\ phase = "caller" /\ phase' = "delegate" /\ AtEnd /\ pos = Exit
      /\ strict' = env[f.initial] /\ trail' = Append(trail, n)
      /\ pos' = entry /\ ip' = 1 /\ env' = Fresh(f.args \cap deps) /\ steps' = 1
      /\ UNCHANGED <<sliceVars, jump, phiInc, entry, choice>>
  BY DEF CallDelegate, depArgs
<1>2. /\ sliced /\ IsFunction(f) /\ BBs \subseteq f.blocks /\ deps \subseteq Inst(f) \cup f.args
      /\ Exit \in BBs /\ \A v \in deps \cap Phis(f) : DOMAIN f.inc[v] \subseteq BBs
  BY <1>1, SliceHas DEF TypeOK
<1>3. Pending(pos, ip) = {}
  BY <1>1, <1>2, PendingFacts DEF TypeOK, AtEnd
<1>4. n.block = Exit /\ n.env = env
  BY <1>1 DEF Passed
<1>5. PICK S : trail \in Seq(S)
  BY DEF RunTyped
<1>6. Len(trail) >= 1 /\ Len(trail) \in Nat /\ trail' \in Seq(S \cup {n}) /\ Len(trail') = Len(trail) + 1
  BY <1>1, <1>5, AppendFacts DEF RunTyped
<1>7. CallerOn(t, pos, ip, env) /\ t.block # Exit
  BY <1>1 DEF RunInv, CallerOn
<1>8. trail'[Len(trail')] = n
  BY <1>1, <1>5, <1>6, AppendFacts
<1> HIDE DEF n
<1>9. TrailLinked(trail', choice)
  <2>1. Linked(t, n.block, n.env, deps)
    BY <1>1, <1>2, <1>3, <1>4, <1>7 DEF CallerOn
  <2> QED
    BY <1>1, <1>2, <1>4, <1>5, <1>6, <1>7, <2>1, TrailGrows DEF RunInv
<1>10. ASSUME BranchesFollow PROVE DelegateOn(trail', steps', pos', ip', env')
  <2> DEFINE r == trail'[1]
             e == trail'[2].env
             c == trail'[2].block
  <2>0. 1 \in 1 .. Len(trail') - 1 /\ 1 + 1 = 2 /\ 2 \in 2 .. Len(trail')
    BY <1>6
  <2>1. /\ r.block = NoBlock /\ r.env = Fresh(f.args) /\ r.to = f.entry
        /\ Linked(r, c, e, deps) /\ c \in BBs
    <3>1. r = [block |-> NoBlock, env |-> Fresh(f.args), to |-> f.entry]
      BY <1>9 DEF TrailLinked
    <3>2. Linked(r, trail'[1 + 1].block, trail'[1 + 1].env, deps)
      BY <1>9, <2>0 DEF TrailLinked
    <3>3. c \in BBs
      BY <1>9, <2>0 DEF TrailLinked
    <3> QED
      BY <2>0, <3>1, <3>2, <3>3
  <2> HIDE DEF r, e, c
  <2>2. entry = c
    BY <1>10, <2>1 DEF Linked, BranchesFollow
  <2>3. entry \in BBs
    BY <2>1, <2>2
  <2>4. Computes(entry) = {v \in Phis(f) : f.at[v] = entry} \cup Pending(entry, 1)
    BY <1>2, <2>3, PendingFacts
  <2>5. NoBlock \notin BBs
    BY <1>2, OutlineAssumption DEF SliceFacts, Fixed
  <2>6. ASSUME NEW v \in deps \ Pending(entry, 1) PROVE env'[v] = e[v]
    <3>1. ~(v \in Phis(f) /\ f.at[v] = entry)
      BY <1>2, <2>1, <2>2, <2>5 DEF Linked
    <3>2. e[v] = Fresh(f.args)[v]
      BY <2>1, <2>2, <2>4, <3>1 DEF Linked
    <3> QED
      BY <1>1, <1>2, <3>2 DEF Fresh
  <2> QED
    BY <1>1, <2>0, <2>2, <2>6 DEF DelegateOn, c, e
<1>11. TrailLinked(trail, choice)'
  BY <1>1, <1>9, TrailPrimed
<1>12. BranchesFollow' => BranchesFollow
  BY <1>1 DEF sliceVars, BranchesFollow, Ahead, HasTerminator, Attracted, Exit
<1>13. BranchesFollow' => DelegateOn(trail, steps, pos, ip, env)'
  BY <1>1, <1>10, <1>12, DelegatePrimed
<1>14. (trail[Len(trail)].block = Exit /\ strict = trail[Len(trail)].env[f.initial])'
  BY <1>1, <1>4, <1>8 DEF Exit, sliceVars
<1> QED
  BY <1>1, <1>11, <1>13, <1>14 DEF RunInv

\* The delegate branches as the function did.
LEMMA RunDelegateBranches ==
    ASSUME SliceFacts, TypeOK, RunTyped, RunInv, DelegateBranches
    PROVE  RunInv'
<1>1. /\ phase = "delegate" /\ phase' = phase /\ AtEnd /\ pos # Exit /\ steps + 1 < Len(trail)
      /\ ip' = 1 /\ env' = Entered(deps, phiInc, pos, pos') /\ steps' = steps + 1
      /\ UNCHANGED <<sliceVars, outVars>> /\ trail' = trail /\ strict' = strict
  BY DEF DelegateBranches, outVars
<1>2. /\ sliced /\ IsFunction(f) /\ BBs \subseteq f.blocks /\ deps \subseteq Inst(f) \cup f.args
      /\ \A v \in deps \cap Phis(f) :
             v \in Inst(f) /\ \A p \in DOMAIN f.inc[v] : f.inc[v][p] \in deps
  BY <1>1, SliceHas DEF TypeOK
<1>3. TrailLinked(trail, choice')
  <2>1. choice' = choice \/ \E c : choice' = choice \cup {c}
    BY DEF DelegateBranches, Branches
  <2> QED
    BY <1>1, <2>1, TrailKept DEF RunInv
<1>4. ASSUME BranchesFollow PROVE DelegateOn(trail', steps', pos', ip', env')
  <2> DEFINE t == trail[steps + 1]
             n == trail[steps + 2]
  <2>1. /\ steps \in 1 .. Len(trail) - 1 /\ pos = t.block
        /\ \A v \in deps \ Pending(pos, ip) : env[v] = t.env[v]
    BY <1>1, <1>4 DEF RunInv, DelegateOn
  <2>2. /\ steps + 1 \in 1 .. Len(trail) - 1 /\ steps + 1 \in 2 .. Len(trail)
        /\ steps + 2 \in 2 .. Len(trail) /\ (steps + 1) + 1 = steps + 2
    BY <1>1, <2>1 DEF RunTyped
  <2>3. /\ Linked(t, n.block, n.env, deps)
        /\ t.block \in BBs /\ t.to \in f.succ[t.block]
        /\ <<<<t.block, Values(t.env, Terminator(t.block))>>, t.to>> \in choice
    <3>1. TrailLinked(trail, choice)
      BY <1>1 DEF RunInv
    <3>2. Linked(t, trail[(steps + 1) + 1].block, trail[(steps + 1) + 1].env, deps)
      BY <2>2, <3>1 DEF TrailLinked
    <3>3. /\ t.block \in BBs /\ t.to \in f.succ[t.block]
          /\ <<<<t.block, Values(t.env, Terminator(t.block))>>, t.to>> \in choice
      BY <1>1, <2>1, <2>2, <3>1 DEF TrailLinked
    <3> QED
      BY <2>2, <3>2, <3>3
  <2>4. n.block \in BBs
    BY <1>3, <2>2 DEF TrailLinked
  <2> HIDE DEF t, n
  <2>5. pos \in f.blocks /\ Pending(pos, ip) = {}
    BY <1>1, <1>2, <2>1, <2>3, PendingFacts DEF TypeOK, AtEnd
  <2>6. \A v \in deps : env[v] = t.env[v]
    BY <2>1, <2>5
  <2>7. n.block \in Ahead(t.to)
    BY <2>3 DEF Linked
  <2>8. pos' = n.block /\ n.block \in Succs(jump, pos)
    <3>1. CASE HasTerminator(pos)
      <4>1. PICK s \in f.succ[pos] : Branches(s) /\ pos' = Attracted(s)
        BY <3>1 DEF DelegateBranches
      <4>2. Values(env, Terminator(pos)) = Values(t.env, Terminator(pos))
        <5>1. Terminator(pos) \in (deps \cap Inst(f)) \ Phis(f)
          BY <1>2, <2>5, <3>1 DEF HasTerminator, IsFunction, InSSA
        <5>2. \A i \in DOMAIN f.ops[Terminator(pos)] : f.ops[Terminator(pos)][i] \in deps
          BY <1>2, <5>1, SliceHas
        <5> QED
          BY <2>6, <5>2, ValuesSame
      <4>3. s = t.to
        BY <2>1, <2>3, <4>1, <4>2 DEF Branches
      <4>4. Ahead(t.to) \subseteq {Attracted(t.to)}
        BY <1>1, <1>4, <2>1, <2>3, <3>1 DEF BranchesFollow
      <4> QED
        BY <2>1, <2>3, <2>7, <3>1, <4>1, <4>3, <4>4 DEF Succs
    <3>2. CASE ~HasTerminator(pos)
      <4>1. pos' = jump[pos]
        BY <3>2 DEF DelegateBranches
      <4>2. Ahead(t.to) \subseteq {jump[pos]}
        BY <1>1, <1>4, <2>1, <2>3, <3>2 DEF BranchesFollow
      <4> QED
        BY <2>7, <3>2, <4>1, <4>2 DEF Succs
    <3> QED
      BY <3>1, <3>2
  <2>9. Computes(pos') = {v \in Phis(f) : f.at[v] = pos'} \cup Pending(pos', 1)
    BY <1>2, <2>4, <2>8, PendingFacts
  <2>10. ASSUME NEW v \in deps \ Pending(pos', 1) PROVE env'[v] = n.env[v]
    <3>1. v \in DOMAIN env
      BY <1>1, <1>2 DEF RunTyped
    <3>2. CASE v \in Phis(f) /\ f.at[v] = pos'
      <4>1. pos \in DOMAIN f.inc[v] /\ n.env[v] = t.env[f.inc[v][pos]]
        BY <2>1, <2>3, <2>8, <3>2 DEF Linked
      <4>2. pos \in DOMAIN phiInc[v] /\ phiInc[v][pos] = f.inc[v][pos]
        BY <1>1, <2>8, <3>2, <4>1, PhisKept DEF RunTyped, Outlined
      <4>3. env'[v] = env[f.inc[v][pos]]
        BY <1>1, <3>1, <3>2, <4>2 DEF Entered
      <4> QED
        BY <1>2, <2>6, <3>2, <4>1, <4>3
    <3>3. CASE ~(v \in Phis(f) /\ f.at[v] = pos')
      <4>1. n.env[v] = t.env[v]
        BY <2>3, <2>8, <2>9, <3>3 DEF Linked
      <4>2. env'[v] = env[v]
        BY <1>1, <3>1, <3>3 DEF Entered
      <4> QED
        BY <2>6, <4>1, <4>2
    <3> QED
      BY <3>2, <3>3
  <2>11. steps' \in 1 .. Len(trail') - 1 /\ trail'[steps' + 1] = n
    BY <1>1, <2>2 DEF n
  <2> QED
    BY <1>1, <2>8, <2>10, <2>11 DEF DelegateOn
<1>5. TrailLinked(trail, choice)'
  BY <1>1, <1>3, TrailPrimed
<1>6. BranchesFollow' => DelegateOn(trail, steps, pos, ip, env)'
  BY <1>1, <1>4, DelegatePrimed, FollowPrimed
<1> QED
  BY <1>1, <1>5, <1>6 DEF RunInv, Exit, sliceVars

\* The delegate ends with the value.
LEMMA RunReturns ==
    ASSUME SliceFacts, TypeOK, RunTyped, RunInv, DelegateReturns \/ DelegateFails, BranchesFollow
    PROVE  result' = strict
<1>1. /\ phase = "delegate" /\ TrailLinked(trail, choice)
      /\ DelegateOn(trail, steps, pos, ip, env)
      /\ trail[Len(trail)].block = Exit /\ strict = trail[Len(trail)].env[f.initial]
  BY DEF RunInv, DelegateReturns, DelegateFails
<1>2. /\ sliced /\ IsFunction(f) /\ BBs \subseteq f.blocks /\ f.initial \in deps
  BY <1>1, SliceHas DEF TypeOK
<1>3. /\ steps \in 1 .. Len(trail) - 1 /\ pos = trail[steps + 1].block
      /\ \A v \in deps \ Pending(pos, ip) : env[v] = trail[steps + 1].env[v]
  BY <1>1 DEF DelegateOn
<1>4. steps + 1 \in 2 .. Len(trail) /\ (steps + 1 # Len(trail) => steps + 1 \in 1 .. Len(trail) - 1)
  BY <1>3 DEF RunTyped
<1>5. pos \in BBs /\ pos # NoBlock
  BY <1>1, <1>2, <1>3, <1>4, OutlineAssumption DEF TrailLinked, SliceFacts, Fixed
<1>6. steps + 1 # Len(trail) => pos # Exit
  BY <1>1, <1>3, <1>4 DEF TrailLinked
<1>7. AtEnd /\ steps + 1 = Len(trail) /\ pos = Exit
  BY <1>1, <1>3, <1>4, <1>5, <1>6 DEF DelegateReturns, DelegateFails
<1>8. Pending(pos, ip) = {}
  BY <1>1, <1>2, <1>5, <1>7, PendingFacts DEF TypeOK, AtEnd
<1>9. result' = env[f.initial]
  BY <1>7, <1>4, <1>5 DEF DelegateReturns, DelegateFails
<1> QED
  BY <1>1, <1>2, <1>3, <1>7, <1>8, <1>9

-----------------------------------------------------------------------------
\* Every step keeps the two runs in step.
LEMMA RunStep ==
    ASSUME SliceFacts, TypeOK, RunTyped, RunInv, [Next]_vars
    PROVE  RunInv'
<1>1. CASE Slice
  BY <1>1 DEF Slice, WalkNext, EndWalk, get_data_dependences_for, outVars, runVars, RunInv, Fresh, Undef
<1>2. CASE CallerEnds
  BY <1>2 DEF CallerEnds, RunInv
<1>3. CASE DelegateReturns \/ DelegateFails
  BY <1>3 DEF DelegateReturns, DelegateFails, RunInv
<1>4. CASE Done \/ UNCHANGED vars
  <2>1. UNCHANGED <<sliceVars, outVars>> /\ UNCHANGED runVars
    BY <1>4 DEF Done, vars
  <2>2. /\ TrailLinked(trail, choice)' <=> TrailLinked(trail, choice)
        /\ CallerOn(trail[Len(trail)], pos, ip, env)' <=> CallerOn(trail[Len(trail)], pos, ip, env)
        /\ DelegateOn(trail, steps, pos, ip, env)' <=> DelegateOn(trail, steps, pos, ip, env)
        /\ BranchesFollow' <=> BranchesFollow
    BY <2>1, TrailPrimed, CallerPrimed, DelegatePrimed, FollowPrimed DEF runVars
  <2> QED
    BY <2>1, <2>2 DEF RunInv, sliceVars, outVars, runVars, Fresh, Exit, Undef
<1> QED
  BY <1>1, <1>2, <1>3, <1>4, RunStarts, RunExecutes, RunCallerBranches, RunCallsDelegate,
     RunDelegateBranches DEF Next

\* A guided delegate that is done has returned the value.
LEMMA GuidedStep ==
    ASSUME SliceFacts, TypeOK, RunTyped, RunInv, GuidedDelegateComputesValue, [Next]_vars
    PROVE  GuidedDelegateComputesValue'
<1>1. SUFFICES ASSUME phase' = "done", strict' # Undef, BranchesFollow'
               PROVE  result' = strict'
  BY DEF GuidedDelegateComputesValue, DelegateComputesValue, Undef
<1>2. CASE phase = "delegate"
  <2>1. CASE DelegateReturns \/ DelegateFails
    <3>1. UNCHANGED <<sliceVars, jump, phiInc, entry>> /\ strict' = strict
      BY <2>1 DEF DelegateReturns, DelegateFails, runVars
    <3>2. BranchesFollow
      BY <1>1, <3>1 DEF sliceVars, BranchesFollow, Ahead, HasTerminator, Attracted, Exit
    <3> QED
      BY <2>1, <3>1, <3>2, RunReturns
  <2> QED
    BY <1>1, <1>2, <2>1 DEF Next, Slice, outline, Execute, CallerBranches, CallerEnds, CallDelegate,
                            DelegateBranches, Done, vars, outVars
<1>3. CASE phase = "done"
  <2>1. UNCHANGED <<sliceVars, outVars>> /\ UNCHANGED runVars
    BY <1>3 DEF Next, Slice, outline, Execute, CallerBranches, CallerEnds, CallDelegate,
                DelegateBranches, DelegateReturns, DelegateFails, Done, vars
  <2> QED
    BY <1>1, <1>3, <2>1, FollowPrimed DEF GuidedDelegateComputesValue, DelegateComputesValue, runVars
<1>4. CASE phase \in {"slice", "caller"}
  <2>1. strict = Undef
    BY <1>4 DEF RunInv
  <2>2. strict' = strict
    BY <1>1, <1>4 DEF Next, Slice, outline, Execute, CallerBranches, CallerEnds, CallDelegate,
                DelegateBranches, DelegateReturns, DelegateFails, Done, vars, runVars, outVars
  <2> QED
    BY <1>1, <2>1, <2>2
<1> QED
  BY <1>2, <1>3, <1>4 DEF TypeOK

\* The delegate runs in step with the function, for every function, however it
\* branches, and whatever the delegate that rerouteBranches, updatePHINodes and
\* reorderBlocks leave.
THEOREM DelegateInStep == Spec => [](RunTyped /\ RunInv /\ GuidedDelegateComputesValue)
<1>1. OutInit => RunTyped /\ RunInv /\ GuidedDelegateComputesValue
  <2> SUFFICES ASSUME OutInit PROVE RunTyped /\ RunInv /\ GuidedDelegateComputesValue
    OBVIOUS
  <2>1. trail \in Seq({[block |-> NoBlock, env |-> env, to |-> f.entry]}) /\ Len(trail) >= 1
    BY DEF OutInit
  <2>2. DOMAIN env = Inst(f) \cup f.args
    BY DEF OutInit, Fresh
  <2> QED
    BY <2>1, <2>2 DEF OutInit, RunTyped, RunInv, GuidedDelegateComputesValue, DelegateComputesValue
<1>2. /\ SliceFacts /\ TypeOK /\ [Next]_vars
      /\ RunTyped /\ RunInv /\ GuidedDelegateComputesValue
      => (RunTyped /\ RunInv /\ GuidedDelegateComputesValue)'
  BY RunTypedStep, RunStep, GuidedStep
<1> QED
  BY <1>1, <1>2, OutlineSliceFacts, DelegateIsWhole, PTL DEF Spec

\* RunInv, which the run checks on small functions, holds for all.
THEOREM RunInvHolds == Spec => []RunInv
BY DelegateInStep, PTL

\* Where the branches of the delegate go where the function meets the slice
\* next, the delegate returns the value that the function computes.
THEOREM GuidedDelegateCorrect == Spec => []GuidedDelegateComputesValue
BY DelegateInStep, PTL

-----------------------------------------------------------------------------
\* The outlined delegate computes the value, for every function, loops included,
\* whose gates decide all that matters, that cannot return in between, and
\* whose slice begins and ends outside of loops.
THEOREM GatedDelegateCorrect == Spec => []GatedDelegateComputesValue
<1>1. SliceFacts /\ SliceIsLeast /\ RunTyped /\ GuidedDelegateComputesValue => GatedDelegateComputesValue
  BY GatesSufficeToFollow DEF RunTyped, GuidedDelegateComputesValue, DelegateComputesValue,
                              GatedDelegateComputesValue
<1> QED
  BY <1>1, DelegateInStep, OutlineSliceFacts, OutlineImplementsWalk, SliceLeast, PTL

\* It does so without conditions on the gates where the slice has no phi and
\* lies outside of loops.
THEOREM StraightDelegateCorrect == Spec => []StraightDelegateComputesValue
<1>1. SliceFacts /\ SliceIsLeast /\ RunTyped /\ GatedDelegateComputesValue => StraightDelegateComputesValue
  BY StraightSuffices DEF RunTyped, Outlined, GatedDelegateComputesValue, DelegateComputesValue,
                          StraightDelegateComputesValue
<1> QED
  BY <1>1, GatedDelegateCorrect, DelegateInStep, OutlineSliceFacts, OutlineImplementsWalk, SliceLeast, PTL
=============================================================================

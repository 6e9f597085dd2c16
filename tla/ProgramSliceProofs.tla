------------------------- MODULE ProgramSliceProofs -------------------------
(***************************************************************************)
(* Proofs about slices, for every control-flow graph: the walk loses       *)
(* nothing and adds nothing, and the gates of phis are conditional.        *)
(***************************************************************************)
EXTENDS ProgramSlice, TLAPS

-----------------------------------------------------------------------------
\* ReachAvoiding is closed under successors outside of A ...
LEMMA ReachClosed ==
    ASSUME NEW g, IsFunction(g), NEW s \in g.blocks, NEW A
    PROVE  /\ s \notin A => s \in ReachAvoiding(g, s, A)
           /\ \A b \in ReachAvoiding(g, s, A) :
                  b \in g.blocks /\ g.succ[b] \subseteq ReachAvoiding(g, s, A) \cup A
<1> DEFINE closed == {S \in SUBSET g.blocks :
                         (s \notin A => s \in S) /\ \A b \in S : g.succ[b] \subseteq S \cup A}
<1>1. \A b : b \in ReachAvoiding(g, s, A) <=> b \in g.blocks /\ \A S \in closed : b \in S
  BY DEF ReachAvoiding
<1>2. \A b \in g.blocks : g.succ[b] \subseteq g.blocks
  BY DEF IsFunction
<1>3. ASSUME NEW b \in ReachAvoiding(g, s, A), NEW t \in g.succ[b], t \notin A
      PROVE  t \in ReachAvoiding(g, s, A)
  <2>1. \A S \in closed : t \in S
    BY <1>1, <1>3
  <2> QED
    BY <1>1, <1>2, <1>3, <2>1
<1>4. s \notin A => s \in ReachAvoiding(g, s, A)
  BY <1>1
<1> HIDE DEF closed
<1> QED
  BY <1>1, <1>3, <1>4

\* ... and is the least such set.
LEMMA ReachLeast ==
    ASSUME NEW g, NEW s, NEW A, NEW S \in SUBSET g.blocks,
           s \notin A => s \in S,
           \A b \in S : g.succ[b] \subseteq S \cup A
    PROVE  ReachAvoiding(g, s, A) \subseteq S
BY DEF ReachAvoiding

\* What is left out is not reached.
LEMMA ReachAvoids ==
    ASSUME NEW g, IsFunction(g), NEW s \in g.blocks, NEW A, NEW a \in A
    PROVE  a \notin ReachAvoiding(g, s, A)
<1> DEFINE S == g.blocks \ A
<1>1. /\ S \in SUBSET g.blocks /\ a \notin S
      /\ s \notin A => s \in S
      /\ \A b \in S : g.succ[b] \subseteq S \cup A
  BY DEF IsFunction
<1> HIDE DEF S
<1>2. ReachAvoiding(g, s, A) \subseteq S
  BY <1>1, ReachLeast
<1> QED
  BY <1>1, <1>2

\* From a block of A, nothing is reached without entering A.
LEMMA ReachFromAvoided ==
    ASSUME NEW g, NEW A, NEW s \in A
    PROVE  ReachAvoiding(g, s, A) = {}
<1> DEFINE E == {}
<1>1. E \in SUBSET g.blocks /\ (s \notin A => s \in E) /\ \A b \in E : g.succ[b] \subseteq E \cup A
  OBVIOUS
<1> HIDE DEF E
<1>2. ReachAvoiding(g, s, A) \subseteq E
  BY <1>1, ReachLeast
<1> QED
  BY <1>2 DEF E

\* Paths can be joined, and avoid less ...
LEMMA ReachTrans ==
    ASSUME NEW g, IsFunction(g), NEW s \in g.blocks, NEW A, NEW B, A \subseteq B,
           NEW x \in ReachAvoiding(g, s, A) \cup {s}
    PROVE  ReachAvoiding(g, x, B) \subseteq ReachAvoiding(g, s, A)
<1> DEFINE R == ReachAvoiding(g, s, A)
<1>1. /\ s \notin A => s \in R
      /\ \A b \in R : b \in g.blocks /\ g.succ[b] \subseteq R \cup A
  BY ReachClosed
<1>2. R \in SUBSET g.blocks /\ (x \notin B => x \in R) /\ \A b \in R : g.succ[b] \subseteq R \cup B
  BY <1>1
<1> HIDE DEF R
<1>3. ReachAvoiding(g, x, B) \subseteq R
  BY <1>2, ReachLeast
<1> QED
  BY <1>3 DEF R

\* ... and be cut where they first enter c ...
LEMMA ReachSplit ==
    ASSUME NEW g, IsFunction(g), NEW s \in g.blocks, NEW c \in g.blocks, NEW A
    PROVE  ReachAvoiding(g, s, A) \subseteq ReachAvoiding(g, s, A \cup {c}) \cup ReachAvoiding(g, c, A)
<1> DEFINE P == ReachAvoiding(g, s, A \cup {c})
           Q == ReachAvoiding(g, c, A)
           R == P \cup Q
<1>1. /\ s \notin A \cup {c} => s \in P
      /\ \A b \in P : b \in g.blocks /\ g.succ[b] \subseteq P \cup (A \cup {c})
  BY ReachClosed
<1>2. /\ c \notin A => c \in Q
      /\ \A b \in Q : b \in g.blocks /\ g.succ[b] \subseteq Q \cup A
  BY ReachClosed
<1>3. R \in SUBSET g.blocks /\ (s \notin A => s \in R) /\ \A b \in R : g.succ[b] \subseteq R \cup A
  BY <1>1, <1>2
<1> HIDE DEF R
<1>4. ReachAvoiding(g, s, A) \subseteq R
  BY <1>3, ReachLeast
<1> QED
  BY <1>4 DEF R

\* ... or behind their first block.
LEMMA ReachFirst ==
    ASSUME NEW g, IsFunction(g), NEW s \in g.blocks, NEW x \in ReachAvoiding(g, s, {}), x # s
    PROVE  \E t \in g.succ[s] : x \in ReachAvoiding(g, t, {})
<1> DEFINE R == {b \in g.blocks : b = s \/ \E t \in g.succ[s] : b \in ReachAvoiding(g, t, {})}
<1>1. \A b \in g.blocks : g.succ[b] \subseteq g.blocks
  BY DEF IsFunction
<1>2. ASSUME NEW b \in R, NEW c \in g.succ[b] PROVE c \in R
  <2>1. c \in g.blocks
    BY <1>1, <1>2
  <2>2. CASE b = s
    BY <1>2, <2>1, <2>2, ReachClosed
  <2>3. CASE b # s
    <3>1. PICK t \in g.succ[s] : b \in ReachAvoiding(g, t, {})
      BY <1>2, <2>3
    <3>2. c \in ReachAvoiding(g, t, {})
      BY <1>1, <1>2, <3>1, ReachClosed
    <3> QED
      BY <2>1, <3>1, <3>2
  <2> QED
    BY <2>2, <2>3
<1>3. R \in SUBSET g.blocks /\ s \in R /\ \A b \in R : g.succ[b] \subseteq R \cup {}
  BY <1>2
<1> HIDE DEF R
<1>4. ReachAvoiding(g, s, {}) \subseteq R
  BY <1>3, ReachLeast
<1> QED
  BY <1>4 DEF R

\* What is reached from b is reached before c is, or from c before b is.
LEMMA ReachEither ==
    ASSUME NEW g, IsFunction(g), NEW b \in g.blocks, NEW c \in g.blocks, b # c
    PROVE  ReachAvoiding(g, b, {}) \subseteq ReachAvoiding(g, b, {c}) \cup ReachAvoiding(g, c, {b})
<1> DEFINE P == ReachAvoiding(g, b, {c})
           Q == ReachAvoiding(g, c, {b})
           R == P \cup Q
<1>1. b \in P /\ \A x \in P : x \in g.blocks /\ g.succ[x] \subseteq P \cup {c}
  BY ReachClosed
<1>2. c \in Q /\ \A x \in Q : x \in g.blocks /\ g.succ[x] \subseteq Q \cup {b}
  BY ReachClosed
<1>3. R \in SUBSET g.blocks /\ b \in R /\ \A x \in R : g.succ[x] \subseteq R \cup {}
  BY <1>1, <1>2
<1> HIDE DEF R
<1>4. ReachAvoiding(g, b, {}) \subseteq R
  BY <1>3, ReachLeast
<1> QED
  BY <1>4 DEF R

\* A dominator reaches what it dominates.
LEMMA DomReaches ==
    ASSUME NEW g, IsFunction(g), NEW a \in g.blocks, NEW b \in g.blocks, Dom(g, a, b)
    PROVE  b \in ReachAvoiding(g, a, {})
<1>1. g.entry \in g.blocks /\ b \in ReachAvoiding(g, g.entry, {}) /\ {} \cup {a} = {a}
  BY DEF IsFunction
<1>2. ReachAvoiding(g, g.entry, {}) \subseteq ReachAvoiding(g, g.entry, {a}) \cup ReachAvoiding(g, a, {})
  BY <1>1, ReachSplit
<1> QED
  BY <1>1, <1>2 DEF Dom

\* Dominance is transitive.
LEMMA DomTrans ==
    ASSUME NEW g, IsFunction(g), NEW a \in g.blocks, NEW b \in g.blocks, NEW c \in g.blocks,
           Dom(g, a, b), Dom(g, b, c)
    PROVE  Dom(g, a, c)
<1> DEFINE P == ReachAvoiding(g, g.entry, {a})
<1>1. g.entry \in g.blocks
  BY DEF IsFunction
<1>2. (g.entry # a => g.entry \in P) /\ \A x \in P : x \in g.blocks /\ g.succ[x] \subseteq P \cup {a}
  BY <1>1, ReachClosed
<1>3. b \notin P
  BY DEF Dom
<1> HIDE DEF P
<1>4. CASE g.entry = b
  <2>1. g.entry = a
    BY <1>2, <1>3, <1>4
  <2> QED
    BY <1>4, <2>1
<1>5. CASE g.entry # b
  <2>1. P \in SUBSET g.blocks /\ (g.entry \notin {a} => g.entry \in P)
    BY <1>2
  <2>2. P \subseteq ReachAvoiding(g, g.entry, {b})
    <3> DEFINE Q == ReachAvoiding(g, g.entry, {b})
    <3>1. g.entry \in Q /\ \A x \in Q : x \in g.blocks /\ g.succ[x] \subseteq Q \cup {b}
      BY <1>1, <1>5, ReachClosed
    <3> DEFINE R == P \cap Q
    <3>2. (g.entry \notin {a} => g.entry \in R) /\ R \in SUBSET g.blocks
      BY <2>1, <3>1
    <3> HIDE DEF Q
    <3>3. \A x \in R : g.succ[x] \subseteq R \cup {a}
      BY <1>2, <1>3, <3>1
    <3> HIDE DEF R
    <3>4. P \subseteq R
      BY <3>2, <3>3, ReachLeast DEF P
    <3> QED
      BY <3>4 DEF R, Q
  <2> QED
    BY <2>2 DEF Dom, P
<1> QED
  BY <1>4, <1>5

-----------------------------------------------------------------------------
\* A block with one successor controls none: what its successor's branch does
\* not decide, it does not decide either.
LEMMA ControllerBranches ==
    ASSUME NEW g, IsFunction(g), NEW p \in g.blocks, NEW c \in getController(g, p)
    PROVE  \E s, t \in g.succ[c] : s # t
<1> DEFINE T == ReachAvoiding(g, g.entry, {c})
<1>1. /\ c \in g.blocks /\ Dom(g, c, p) /\ ~PDom(g, p, c)
      /\ \A e \in Controllers(g, p) : Dom(g, e, c)
  BY DEF getController, Controllers
<1>2. /\ g.entry \in g.blocks
      /\ g.succ[c] \subseteq g.blocks
      /\ \A b \in g.blocks : b \in ReachAvoiding(g, g.entry, {})
  BY <1>1 DEF IsFunction
<1>3. /\ g.entry # c => g.entry \in T
      /\ \A b \in T : b \in g.blocks /\ g.succ[b] \subseteq T \cup {c}
      /\ c \notin T /\ p \notin T
  BY <1>1, <1>2, ReachClosed, ReachAvoids DEF Dom
<1>4. T \subseteq g.blocks
  BY <1>3
<1> HIDE DEF T
<1>5. PICK x \in g.blocks : g.succ[x] = {} /\ x \in ReachAvoiding(g, c, {p})
  BY <1>1 DEF PDom, Exits
<1>6. c # p
  <2> SUFFICES ASSUME c = p PROVE FALSE
    OBVIOUS
  <2> DEFINE S == {}
  <2>1. /\ S \in SUBSET g.blocks /\ x \notin S
        /\ c \notin {p} => c \in S
        /\ \A b \in S : g.succ[b] \subseteq S \cup {p}
    OBVIOUS
  <2> HIDE DEF S
  <2>2. ReachAvoiding(g, c, {p}) \subseteq S
    BY <2>1, ReachLeast
  <2> QED
    BY <1>5, <2>1, <2>2
<1>7. PICK e \in g.succ[c] : e \notin T /\ e # c
  <2> SUFFICES ASSUME g.succ[c] \subseteq T \cup {c} PROVE FALSE
    OBVIOUS
  <2> DEFINE S == T \cup {c}
  <2>1. /\ S \in SUBSET g.blocks /\ p \notin S
        /\ g.entry \notin {} => g.entry \in S
        /\ \A b \in S : g.succ[b] \subseteq S \cup {}
    BY <1>1, <1>3, <1>4, <1>6
  <2> HIDE DEF S
  <2>2. ReachAvoiding(g, g.entry, {}) \subseteq S
    BY <2>1, ReachLeast
  <2> QED
    BY <1>2, <2>1, <2>2
<1> SUFFICES ASSUME g.succ[c] = {e} PROVE FALSE
  BY <1>7
<1>8. e \in g.blocks
  BY <1>2, <1>7
<1>9. Dom(g, e, p)
  <2> DEFINE S == T \cup {c}
  <2>1. /\ S \in SUBSET g.blocks /\ p \notin S
        /\ g.entry \notin {e} => g.entry \in S
        /\ \A b \in S : g.succ[b] \subseteq S \cup {e}
    BY <1>1, <1>3, <1>4, <1>6
  <2> HIDE DEF S
  <2>2. ReachAvoiding(g, g.entry, {e}) \subseteq S
    BY <2>1, ReachLeast
  <2> QED
    BY <2>1, <2>2 DEF Dom
<1>10. ~PDom(g, p, e)
  <2> DEFINE R == ReachAvoiding(g, e, {p})
  <2>1. /\ e # p => e \in R
        /\ \A b \in R : b \in g.blocks /\ g.succ[b] \subseteq R \cup {p}
    BY <1>8, ReachClosed
  <2> HIDE DEF R
  <2> DEFINE S == R \cup {c}
  <2>2. /\ S \in SUBSET g.blocks
        /\ c \notin {p} => c \in S
        /\ \A b \in S : g.succ[b] \subseteq S \cup {p}
    BY <1>1, <2>1
  <2> HIDE DEF S
  <2>3. ReachAvoiding(g, c, {p}) \subseteq S
    BY <2>2, ReachLeast
  <2>4. x \in R
    BY <1>5, <2>3 DEF S
  <2> QED
    BY <1>5, <2>4 DEF PDom, Exits, R
<1>11. Dom(g, e, c)
  BY <1>1, <1>8, <1>9, <1>10 DEF Controllers
<1> DEFINE R == ReachAvoiding(g, g.entry, {e})
<1>12. /\ g.entry # e => g.entry \in R
       /\ \A b \in R : b \in g.blocks /\ g.succ[b] \subseteq R \cup {e}
       /\ c \notin R
  BY <1>2, <1>11, ReachClosed DEF Dom
<1>13. T \subseteq R
  <2> HIDE DEF R
  <2> DEFINE S == R \cap T
  <2>1. /\ S \in SUBSET g.blocks
        /\ g.entry \notin {c} => g.entry \in S
        /\ \A b \in S : g.succ[b] \subseteq S \cup {c}
    BY <1>3, <1>4, <1>7, <1>12
  <2> HIDE DEF S
  <2>2. ReachAvoiding(g, g.entry, {c}) \subseteq S
    BY <2>1, ReachLeast
  <2> QED
    BY <2>2 DEF S, T
<1> HIDE DEF R
<1>14. g.entry \in T
  BY <1>3, <1>7, <1>12
<1>15. \A b \in T : g.succ[b] \subseteq T \cup {}
  BY <1>3, <1>7, <1>12, <1>13
<1>16. ReachAvoiding(g, g.entry, {}) \subseteq T
  BY <1>4, <1>14, <1>15, ReachLeast
<1> QED
  BY <1>1, <1>2, <1>3, <1>16

\* The assertion in getGate holds whatever the function.
LEMMA GateBranches ==
    ASSUME NEW g, IsFunction(g), NEW b \in g.blocks, NEW c \in g.blocks,
           Terminator(c) \in computeGates(g, b)
    PROVE  \E s, t \in g.succ[c] : s # t
<1>1. PICK p \in Preds(g, b) :
          c \in IF Dom(g, p, b) /\ ~PDom(g, b, p) THEN {p} ELSE getController(g, p)
  BY DEF computeGates, getGate, Terminator
<1>2. p \in g.blocks /\ b \in g.succ[p]
  BY <1>1 DEF Preds
<1>3. CASE Dom(g, p, b) /\ ~PDom(g, b, p)
  <2> SUFFICES ASSUME g.succ[p] = {b} PROVE FALSE
    BY <1>1, <1>2, <1>3
  <2> DEFINE S == {p}
  <2>1. /\ S \in SUBSET g.blocks
        /\ p \notin {b} => p \in S
        /\ \A q \in S : g.succ[q] \subseteq S \cup {b}
    BY <1>2
  <2> HIDE DEF S
  <2>2. ReachAvoiding(g, p, {b}) \subseteq S
    BY <2>1, ReachLeast
  <2> QED
    BY <1>3, <2>2 DEF PDom, Exits, S
<1>4. CASE ~(Dom(g, p, b) /\ ~PDom(g, b, p))
  BY <1>1, <1>2, <1>4, ControllerBranches
<1> QED
  BY <1>3, <1>4

-----------------------------------------------------------------------------
\* What the walk starts from stays as it is.
Fixed == f \in Funcs /\ gates = [b \in f.blocks |-> computeGates(f, b)]

\* The walk leaves the function and its gates alone.
LEMMA WalkFixed == WalkSpec => []Fixed
<1>1. Init => Fixed
  BY DEF Init, Fixed
<1>2. Fixed /\ [WalkNext]_sliceVars => Fixed'
  BY DEF Fixed, WalkNext, EndWalk, get_data_dependences_for, sliceVars
<1> QED
  BY <1>1, <1>2, PTL DEF WalkSpec

\* computeAttractorBlocks comes after the walk, and no block joins the slice later.
Attracting == sliced => attractors = [b \in f.blocks |-> computeAttractorBlocks(f, BBs, b)]

\* At the end of the walk every block has its attractor.
LEMMA WalkAttracting == WalkSpec => []Attracting
<1>1. Init => Attracting
  BY DEF Init, Attracting
<1>2. Attracting /\ [WalkNext]_sliceVars => Attracting'
  <2> SUFFICES ASSUME Attracting, [WalkNext]_sliceVars PROVE Attracting'
    OBVIOUS
  <2>1. CASE EndWalk
    BY <2>1 DEF EndWalk, Attracting
  <2>2. ASSUME NEW v \in to_visit, get_data_dependences_for(v) PROVE Attracting'
    BY <2>2 DEF get_data_dependences_for, Attracting
  <2>3. CASE UNCHANGED sliceVars
    BY <2>3 DEF sliceVars, Attracting
  <2> QED
    BY <2>1, <2>2, <2>3 DEF WalkNext
<1> QED
  BY <1>1, <1>2, PTL DEF WalkSpec

\* Operands, gates and blocks are those of the function.
LEMMA DependencesTyped ==
    ASSUME Fixed, NEW v \in Inst(f) \cup f.args
    PROVE  Operands(f, v) \cup GatesOf(v) \subseteq Inst(f) \cup f.args
<1>1. IsFunction(f)
  BY FuncsAssumption DEF Fixed
<1>2. Operands(f, v) \subseteq Inst(f) \cup f.args
  <2>1. CASE v \in Inst(f)
    BY <1>1, <2>1 DEF IsFunction
  <2>2. CASE v \notin Inst(f)
    BY <1>1, <2>2 DEF IsFunction, Operands
  <2> QED
    BY <2>1, <2>2
<1>3. GatesOf(v) \subseteq Inst(f)
  <2> SUFFICES ASSUME v \in Phis(f) PROVE gates[f.at[v]] \subseteq Inst(f)
    BY DEF GatesOf
  <2>1. f.at[v] \in f.blocks
    BY <1>1 DEF IsFunction
  <2>2. gates[f.at[v]] = computeGates(f, f.at[v])
    BY <2>1 DEF Fixed
  <2>3. \A p, c : c \in getController(f, p) => c \in f.blocks
    BY DEF getController, Controllers
  <2>4. \A b : computeGates(f, b) \subseteq {Terminator(c) : c \in f.blocks}
    BY <2>3 DEF computeGates, getGate, Preds
  <2> QED
    BY <1>1, <2>2, <2>4 DEF IsFunction
<1> QED
  BY <1>2, <1>3

\* The blocks of the slice are blocks of the function.
LEMMA BlocksTyped ==
    ASSUME Fixed, WalkInv
    PROVE  BBs \subseteq f.blocks
<1>1. IsFunction(f)
  BY FuncsAssumption DEF Fixed
<1>2. \A v : BlocksOf(v) \subseteq f.blocks
  BY <1>1 DEF BlocksOf, IsFunction
<1> QED
  BY <1>2 DEF WalkInv

\* One turn of the walk keeps WalkInv.
LEMMA WalkStep ==
    ASSUME Fixed, Fixed', WalkInv, NEW cur \in to_visit, get_data_dependences_for(cur)
    PROVE  WalkInv'
<1> DEFINE new == Operands(f, cur) \ visited
<1>1. /\ deps' = deps \cup {cur} /\ BBs' = BBs \cup BlocksOf(cur)
      /\ visited' = visited \cup new
      /\ to_visit' = (to_visit \ {cur}) \cup new \cup (GatesOf(cur) \ visited')
      /\ ~sliced /\ f' = f /\ gates' = gates /\ sliced' = sliced
  BY DEF get_data_dependences_for
<1>2. \A v : GatesOf(v)' = GatesOf(v) /\ BlocksOf(v)' = BlocksOf(v)
  BY <1>1 DEF GatesOf, BlocksOf
<1>3. Operands(f, cur) \cup GatesOf(cur) \subseteq Inst(f) \cup f.args
  BY DependencesTyped DEF WalkInv
<1>4. (deps \cup to_visit \subseteq Inst(f) \cup f.args)'
  BY <1>1, <1>3 DEF WalkInv
<1>5. (f.initial \in deps)'
  BY <1>1 DEF WalkInv
<1>6. (visited \subseteq deps \cup to_visit)'
  BY <1>1 DEF WalkInv
<1>7. Operands(f, cur) \cup GatesOf(cur) \subseteq deps' \cup to_visit'
  BY <1>1, <1>6
<1>8. deps \cup to_visit \subseteq deps' \cup to_visit'
  BY <1>1
<1>9. ASSUME NEW v \in deps', v \notin to_visit'
      PROVE  /\ Operands(f, v) \cup GatesOf(v) \subseteq deps' \cup to_visit'
             /\ BlocksOf(v) \subseteq BBs'
  <2>1. CASE v = cur
    BY <1>1, <1>7, <2>1
  <2>2. CASE v # cur
    <3>1. v \in deps \ to_visit
      BY <1>1, <1>9, <2>2
    <3> QED
      BY <1>1, <1>8, <3>1 DEF WalkInv
  <2> QED
    BY <2>1, <2>2
<1>10. (\A v \in deps \ to_visit : /\ Operands(f, v) \cup GatesOf(v) \subseteq deps \cup to_visit
                                  /\ BlocksOf(v) \subseteq BBs)'
  BY <1>1, <1>2, <1>9
<1>11. (BBs \subseteq UNION {BlocksOf(v) : v \in deps})'
  <2>1. BBs \subseteq UNION {BlocksOf(v) : v \in deps}
    BY DEF WalkInv
  <2>2. \A v \in deps \cup {cur} : BlocksOf(v) \subseteq UNION {BlocksOf(w) : w \in deps \cup {cur}}
    OBVIOUS
  <2>3. BBs \cup BlocksOf(cur) \subseteq UNION {BlocksOf(v) : v \in deps \cup {cur}}
    BY <2>1, <2>2
  <2>4. {BlocksOf(v)' : v \in deps'} = {BlocksOf(v) : v \in deps \cup {cur}}
    BY <1>1, <1>2
  <2> QED
    BY <1>1, <2>3, <2>4
<1> QED
  BY <1>1, <1>4, <1>5, <1>6, <1>10, <1>11 DEF WalkInv

\* The walk of get_data_dependences_for loses nothing: WalkInv holds for every
\* function and in every order of the queue.
THEOREM WalkCorrect == WalkSpec => []WalkInv
<1>1. Init => WalkInv
  BY FuncsAssumption DEF Init, WalkInv, IsFunction
<1>2. WalkInv /\ Fixed /\ Fixed' /\ [WalkNext]_sliceVars => WalkInv'
  <2> SUFFICES ASSUME WalkInv, Fixed, Fixed', [WalkNext]_sliceVars PROVE WalkInv'
    OBVIOUS
  <2>1. CASE EndWalk
    BY <2>1 DEF EndWalk, WalkInv, BlocksOf, GatesOf
  <2>2. ASSUME NEW v \in to_visit, get_data_dependences_for(v) PROVE WalkInv'
    BY <2>2, WalkStep
  <2>3. CASE UNCHANGED sliceVars
    BY <2>3 DEF sliceVars, WalkInv, BlocksOf, GatesOf
  <2> QED
    BY <2>1, <2>2, <2>3 DEF WalkNext
<1> QED
  BY <1>1, <1>2, WalkFixed, PTL DEF WalkSpec

\* A finished slice holds the operands, gates and blocks of all it holds.
THEOREM SliceClosed == WalkSpec => []SliceIsClosed
<1>1. WalkInv => SliceIsClosed
  <2> SUFFICES ASSUME WalkInv, sliced
               PROVE  f.initial \in deps /\ Closed(deps) /\ BBs = UNION {BlocksOf(v) : v \in deps}
    BY DEF SliceIsClosed
  <2>1. to_visit = {}
    BY DEF WalkInv
  <2>2. \A v \in deps : /\ Operands(f, v) \cup GatesOf(v) \subseteq deps
                       /\ BlocksOf(v) \subseteq BBs
    BY <2>1 DEF WalkInv
  <2>3. UNION {BlocksOf(v) : v \in deps} \subseteq BBs
    BY <2>2
  <2> QED
    BY <2>2, <2>3 DEF WalkInv, Closed
<1> QED
  BY <1>1, WalkCorrect, PTL

\* The slice holds nothing that is not needed: every set that has the value and
\* is closed under operands and gates has the whole slice, at any time.
SliceIsLeast == \A S : f.initial \in S /\ Closed(S) => deps \cup to_visit \subseteq S

\* The walk of get_data_dependences_for adds nothing that is not needed.
THEOREM SliceLeast == WalkSpec => []SliceIsLeast
<1>1. Init => SliceIsLeast
  BY DEF Init, SliceIsLeast
<1>2. SliceIsLeast /\ [WalkNext]_sliceVars => SliceIsLeast'
  <2> SUFFICES ASSUME SliceIsLeast, [WalkNext]_sliceVars,
                      NEW S, (f.initial \in S /\ Closed(S))'
               PROVE  (deps \cup to_visit \subseteq S)'
    BY DEF SliceIsLeast
  <2>1. f' = f /\ gates' = gates
    BY DEF WalkNext, EndWalk, get_data_dependences_for, sliceVars
  <2>2. f.initial \in S /\ Closed(S)
    BY <2>1 DEF Closed, GatesOf
  <2>3. deps \cup to_visit \subseteq S
    BY <2>2 DEF SliceIsLeast
  <2>4. ASSUME NEW v \in to_visit, get_data_dependences_for(v) PROVE (deps \cup to_visit \subseteq S)'
    <3>1. Operands(f, v) \cup GatesOf(v) \subseteq S
      BY <2>2, <2>3 DEF Closed
    <3> QED
      BY <2>3, <2>4, <3>1 DEF get_data_dependences_for
  <2>5. CASE EndWalk \/ UNCHANGED sliceVars
    BY <2>3, <2>5 DEF EndWalk, sliceVars
  <2> QED
    BY <2>4, <2>5 DEF WalkNext
<1> QED
  BY <1>1, <1>2, PTL DEF WalkSpec

\* The assertion of getGate never fails, on any control-flow graph.
THEOREM GatesConditional == WalkSpec => []GatesAreConditional
<1>1. Fixed => GatesAreConditional
  <2> SUFFICES ASSUME Fixed, NEW b \in f.blocks, NEW c \in f.blocks, Terminator(c) \in gates[b]
               PROVE  \E s, t \in f.succ[c] : s # t
    BY DEF GatesAreConditional
  <2>1. IsFunction(f) /\ Terminator(c) \in computeGates(f, b)
    BY FuncsAssumption DEF Fixed
  <2> QED
    BY <2>1, GateBranches
<1> QED
  BY <1>1, WalkFixed, PTL
=============================================================================

----------------------------- MODULE MCOutline ------------------------------
(***************************************************************************)
(* Instances of Outline.  A function has one variable in its source, which *)
(* some blocks update; it is put in SSA form as LLVM does: phis where      *)
(* different values meet, and phis at the exits of loops (LCSSA).          *)
(* Branches in loops, or all branches ("tests"), test the variable; others *)
(* are on an argument of their own; outside of loops they may be switches. *)
(***************************************************************************)
EXTENDS Outline, FiniteSetsExt

Arg(b) == <<"arg", b>>
Op(b)  == <<"op", b>>
Phi(b) == <<"phi", b>>

-----------------------------------------------------------------------------
\* A graph: the successors of its blocks, a loop and the block after the loop.
Graph(s, l, x) == [succ |-> s, loop |-> l, exit |-> x]

\* Acyclic graphs: blocks are numbered so that branches go up.
UpTo2(S) == {T \in SUBSET S : Cardinality(T) \in 1..2}
Dags(n) ==
    {Graph(s, {}, 0) :
        s \in {s \in [1..n -> UpTo2(2..n) \cup {{}}] :
                  /\ \A b \in 1..n : s[b] \subseteq (b+1)..n
                  /\ s[n] = {} /\ \A b \in 2..n : \E p \in 1..(b-1) : b \in s[p]}}

\* while loops: plain, with an if in the body, and under an if; all in the form
\* that loop-simplify gives them.
Whiles == {Graph(<<{2}, {3, 4}, {2}, {}>>, {2, 3}, 4),
           Graph(<<{2}, {3, 6}, {4, 5}, {5}, {2}, {}>>, 2..5, 6),
           Graph(<<{2, 6}, {3}, {4, 5}, {3}, {6}, {}>>, {3, 4}, 5)}

\* do-while loops, of one block and of two.
DoWhiles == {Graph(<<{2}, {2, 3}, {}>>, {2}, 3),
             Graph(<<{2}, {3}, {2, 4}, {}>>, {2, 3}, 4)}

\* A function that may return between a branch and the join behind it.
EarlyReturn == Graph(<<{2, 3}, {4, 5}, {7}, {6, 8}, {6}, {7}, {8}, {}>>, {}, 0)

\* The value of the variable at the end of every block.
Out(g, U, phis) ==
    LET n == Len(g.succ)
        out[b \in 0..n] ==
            IF b \in U THEN Op(b)
            ELSE IF b \in phis THEN Phi(b)
            ELSE IF b <= 1 THEN Arg(0)
            ELSE out[Min({p \in 1..n : b \in g.succ[p]})]
    IN  out

\* The places of phis, given the blocks that update the variable.
SSA(g, U) ==
    LET n == Len(g.succ)
    IN  {phis \in SUBSET (2..n) :
            \A b \in 2..n :
                LET values == {Out(g, U, phis)[p] : p \in {p \in 1..n : b \in g.succ[p]}}
                IN  (b \in phis) = IF b = g.exit THEN \E c \in g.loop : values \cap {Op(c), Phi(c)} # {}
                                  ELSE Cardinality(values \ {Phi(b)}) > 1}

Function(g, U, phis, init, kind) ==
    LET n == Len(g.succ)
        preds(b) == {p \in 1..n : b \in g.succ[p]}
        out == Out(g, U, phis)
        in(b) == IF b \in phis THEN Phi(b)
                 ELSE IF b = 1 THEN Arg(0) ELSE out[Min(preds(b))]
        branching == {b \in 1..n : Cardinality(g.succ[b]) > 1}
        cond(b) == IF b \notin branching THEN <<>>
                   ELSE IF b \in g.loop \/ kind = "tests" THEN <<out[b]>> ELSE <<Arg(b)>>
    IN  [blocks |-> 1..n, entry |-> 1, succ |-> g.succ,
         at |-> [v \in {Op(b) : b \in U} \cup {Phi(b) : b \in phis}
                       \cup {Terminator(b) : b \in 1..n} |-> v[2]],
         ops |-> [v \in {Op(b) : b \in U} \cup {Terminator(b) : b \in 1..n} |->
                     IF v = Op(v[2]) THEN <<in(v[2])>> ELSE cond(v[2])],
         inc |-> [v \in {Phi(b) : b \in phis} |-> [p \in preds(v[2]) |-> out[p]]],
         body |-> [b \in 1..n |-> IF b \in U THEN <<Op(b)>> ELSE <<>>],
         args |-> {Arg(b) : b \in {0} \cup branching},
         initial |-> init,
         switches |-> IF kind = "switches" THEN branching \ g.loop ELSE {}]

\* The value sliced is computed outside of the loop: canOutline's test of loop
\* depths and LCSSA see to that.
Functions(g, Us, kinds) ==
    UNION {UNION {{Function(g, U, phis, init, kind) :
                      init \in {Op(b) : b \in U \ g.loop} \cup {Phi(b) : b \in phis \ g.loop},
                      kind \in kinds} : phis \in SSA(g, U)} : U \in Us}

Sliced ==
    UNION {Functions(g, SUBSET (1..4), {"branches", "switches", "tests"}) : g \in Dags(4)}
    \cup UNION {Functions(g, {1..5, 2..4, {3, 4}}, {"branches", "tests"}) : g \in Dags(5)}
    \cup UNION {Functions(g, SUBSET DOMAIN g.succ, {"branches"}) : g \in Whiles \cup DoWhiles}
    \cup Functions(EarlyReturn, {{3, 6}}, {"branches"})

\* if ((a && b) || c) with an update in the then-part.
ShortCircuit == Functions(Graph(<<{2, 3}, {4, 3}, {4, 5}, {5}, {}>>, {}, 0), {{4}}, {"branches"})

DoWhile == UNION {Functions(g, {{2, Len(g.succ)}}, {"branches"}) : g \in DoWhiles}
=============================================================================

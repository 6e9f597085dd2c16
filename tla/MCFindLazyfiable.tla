-------------------------- MODULE MCFindLazyfiable --------------------------
(***************************************************************************)
(* Small modules for FindLazyfiable: every control-flow graph of up to     *)
(* four blocks with one argument, and modules whose functions call each    *)
(* other.                                                                  *)
(***************************************************************************)
EXTENDS FindLazyfiable, FiniteSets, TLC

Small(S, lo, hi) == {T \in SUBSET S : Cardinality(T) \in lo .. hi}

NoUse == (0 :> {}) @@ (1 :> {})
Line == ("entry" :> {"exit"}) @@ ("p" :> {}) @@ ("q" :> {}) @@ ("exit" :> {})
Diamond == ("entry" :> {"p", "q"}) @@ ("p" :> {"exit"}) @@ ("q" :> {"exit"}) @@ ("exit" :> {})

Plain == [decl |-> FALSE, vararg |-> FALSE, args |-> {0}, entry |-> "entry",
          rets |-> {"exit"}, succ |-> Line, uses |-> NoUse, phis |-> NoUse]

-----------------------------------------------------------------------------
\* Graphs of entry, two inner blocks and exit: the entry has no predecessor,
\* the exit no successor, branches have at most two targets, q may be a dead
\* end and either inner block may close a loop.
Succs == {("entry" :> e) @@ ("p" :> p) @@ ("q" :> q) @@ ("exit" :> {}) :
              e \in Small({"p", "q", "exit"}, 1, 2),
              p \in Small({"p", "q", "exit"}, 1, 2),
              q \in Small({"p", "q", "exit"}, 0, 2)}

Edges(s) == {e \in Block \X Block : e[2] \in s[e[1]]}

\* A phi can only take the argument along an edge of the graph.
Graphs == {t \in Succs \X Small(Block, 0, 2) \X ({{}} \cup {{e} : e \in Block \X Block}) :
              t[3] \subseteq Edges(t[1])}

\* One function with a body; g is only declared.
GraphMods ==
    {[funs |-> [f |-> [Plain EXCEPT !.succ = t[1], !.uses = (0 :> t[2]) @@ NoUse,
                                    !.phis = (0 :> t[3]) @@ NoUse],
                g |-> [Plain EXCEPT !.decl = TRUE]],
      calls |-> {}] : t \in Graphs}

-----------------------------------------------------------------------------
\* f has two arguments and a branch; g may be a declaration, variadic or
\* without a return.  They call each other, f itself, and g an unknown
\* function.
Branching(u, ph) == [Plain EXCEPT !.args = {0, 1}, !.succ = Diamond,
                                  !.uses = (0 :> u) @@ (1 :> {"p", "q"}),
                                  !.phis = (0 :> ph) @@ (1 :> {})]

Calls(i) == {[caller |-> "g", callee |-> "f", insts |-> i],
             [caller |-> "g", callee |-> "f", insts |-> {0, 1}],
             [caller |-> "g", callee |-> Indirect, insts |-> {0}],
             [caller |-> "f", callee |-> "g", insts |-> {0}],
             [caller |-> "f", callee |-> "f", insts |-> {1}]}

CallMods ==
    {[funs |-> [f |-> Branching(u, ph),
                g |-> [Plain EXCEPT !.decl = d, !.vararg = v, !.rets = r]],
      calls |-> {c \in Calls(i) : d => c.caller # "g"}] :
        u \in {{}, {"p"}, {"exit"}}, ph \in {{}, {<<"q", "exit">>}},
        d \in BOOLEAN, v \in BOOLEAN, r \in {{}, {"exit"}}, i \in SUBSET Arg}

AllMods == GraphMods \cup CallMods
=============================================================================

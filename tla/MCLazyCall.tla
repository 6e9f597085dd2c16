----------------------------- MODULE MCLazyCall -----------------------------
(***************************************************************************)
(* Small candidates for LazyCall: two locations, one of them the stack     *)
(* slot of an alloca, and one slice for each kind of instruction that      *)
(* canOutline tells apart.                                                 *)
(***************************************************************************)
EXTENDS LazyCall

MCLoc == {"x", "s"}

Op(kind, reads, writes, addr) ==
    [kind |-> kind, target |-> "body", reads |-> reads, writes |-> writes,
     addr |-> addr, throws |-> FALSE, returns |-> TRUE]

Add     == Op("other", {}, {}, {})
Gep     == Op("other", {}, {}, {"x"})
Alloca  == Op("alloca", {}, {}, {"s"})
LoadX   == Op("load", {"x"}, {}, {})
LoadS   == Op("load", {"s"}, {}, {})
ReadX   == Op("call", {"x"}, {}, {})
ReadS   == Op("call", {"s"}, {}, {})
WriteX  == Op("call", {}, {"x"}, {})
IncX    == Op("call", {"x"}, {"x"}, {})
Atomic  == Op("other", {"x"}, {"x"}, {})
Throw   == [Op("call", {}, {}, {}) EXCEPT !.throws = TRUE]
Spin    == [Op("other", {}, {}, {}) EXCEPT !.returns = FALSE]
ReadLib == [ReadX EXCEPT !.target = "libfunc"]
Extern  == [ReadX EXCEPT !.target = "extern"]
Indirect == [ReadX EXCEPT !.target = "indirect"]
SpinCall == [ReadX EXCEPT !.returns = FALSE]

\* Slices with their criterion.
Criteria ==
    {<<{Add} \cup s, Add>> :
        s \in {{}, {LoadX}, {Gep, LoadX}, {ReadX}, {ReadLib}, {Gep, ReadX},
               {Alloca, LoadS}, {Alloca, ReadS}, {WriteX}, {IncX}, {Atomic},
               {Throw}, {Spin}, {Extern}, {Indirect}, {SpinCall}}}
    \cup {<<{Alloca}, Alloca>>}

Straight == [callDepth |-> 0, sliceDepths |-> {0}, carried |-> FALSE, lcssa |-> FALSE]

Shapes == {[callDepth |-> 0, sliceDepths |-> {0, 1}, carried |-> FALSE, lcssa |-> TRUE],
           [callDepth |-> 1, sliceDepths |-> {0}, carried |-> FALSE, lcssa |-> FALSE],
           [callDepth |-> 1, sliceDepths |-> {0, 1}, carried |-> TRUE, lcssa |-> FALSE],
           [callDepth |-> 1, sliceDepths |-> {2}, carried |-> FALSE, lcssa |-> FALSE]}

\* A candidate with criterion c, shape h and surroundings.  The caller loads
\* what the slice loads.
Candidate(c, m, h, st, ca, a, w) ==
    [slice |-> c[1], initial |-> c[2], memo |-> m,
     stores |-> st, calls |-> ca, args |-> a, calleeWrites |-> w,
     loads |-> UNION {i.reads : i \in {j \in c[1] : j.kind = "load"}},
     callDepth |-> h.callDepth, sliceDepths |-> h.sliceDepths,
     carried |-> h.carried, lcssa |-> h.lcssa]

\* Every slice in straight-line code with every surrounding, and every shape
\* of loop around a pure slice and around one that reads memory.
AllProg ==
    {Candidate(c, m, Straight, st, ca, a, w) :
        c \in Criteria, m \in BOOLEAN,
        st \in {{}, {"x"}}, ca \in {{}, {"x"}, {"s"}},
        a \in {{}, {"x"}}, w \in {{}, {"x"}}}
    \cup
    {Candidate(c, m, h, {}, {"s"}, {}, {"s"}) :
        c \in {<<{Add}, Add>>, <<{Add, LoadX}, Add>>}, m \in BOOLEAN, h \in Shapes}

\* The candidates whose surroundings respect what canOutline does not test.
QuietProg == {p \in AllProg : Quiet(p)}

\* A callee that writes what the slice reads, and read-only calls of the slice
\* that read what a store of the caller writes.
CalleeProg == {p \in AllProg : CallsAreQuiet(p) /\ AllocasAreQuiet(p) /\ CallsReturn(p)
                               /\ ~CalleeIsQuiet(p)}
CallProg   == {p \in AllProg : CalleeIsQuiet(p) /\ AllocasAreQuiet(p) /\ CallsReturn(p)
                               /\ p.calls = {} /\ ~CallsAreQuiet(p)}
=============================================================================

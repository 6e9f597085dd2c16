--------------------------- MODULE MCLazyfication ---------------------------
(***************************************************************************)
(* Small modules for Lazyfication: three calls in one caller, two of f and *)
(* one of g, which may be variadic, or of an unknown function.             *)
(***************************************************************************)
EXTENDS Lazyfication, TLC

\* u and v are computed by instructions; the slice of v may hold u.
Slices == {("u" :> {"u"}) @@ ("v" :> {"v"}), ("u" :> {"u"}) @@ ("v" :> {"u", "v"})}

Low == {0, 1}
Operands == {o @@ (256 :> NoInst) : o \in [Low -> Inst \cup {NoInst}]}
Wide == {(0 :> o) @@ (1 :> NoInst) @@ (256 :> "v") : o \in Inst \cup {NoInst}}

Row(o) == ("c1" :> o[1]) @@ ("c2" :> o[2]) @@ ("c3" :> o[3])

\* The analysis' candidates are instructions in calls of known functions, and
\* variadic functions are not promising.  Indirect calls have profiles too.
Module(o, g, sl, va, us, l, pr, pg) ==
    [callee |-> ("c1" :> "f") @@ ("c2" :> "f") @@ ("c3" :> g),
     ops |-> Row(o),
     decl |-> {}, vararg |-> va, used |-> us, slice |-> sl, legal |-> l,
     sites |-> {<<c, i>> \in Call \X Arg :
                   (c = "c3" => g # Indirect) /\ Row(o)[c][i] # NoInst},
     promising |-> {p \in pr : p[1] \notin va},
     pgo |-> pg, selected |-> Call \X Low]

V == [i \in Arg |-> IF i \in Low THEN "v" ELSE NoInst]

MCMods ==
    {Module(<<a, b, V>>, g, sl, va, us, l, pr, pg) :
        a \in Operands, b \in Operands, g \in {"g", Indirect},
        sl \in Slices, va \in {{}, {"g"}},
        us \in {Fn \X Arg, Fn \X {1}}, l \in {Call \X Arg, (Call \X Arg) \ {<<"c1", 0>>}},
        pr \in {Fn \X Arg, {"f"} \X Arg}, pg \in BOOLEAN}
    \cup
    {Module(<<a, b, V>>, "g", sl, {}, Fn \X Arg, Call \X Arg, Fn \X Arg, FALSE) :
        a \in Wide, b \in Wide \cup Operands, sl \in Slices}
=============================================================================

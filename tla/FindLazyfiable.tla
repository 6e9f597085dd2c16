--------------------------- MODULE FindLazyfiable ---------------------------
(***************************************************************************)
(* The analysis FindLazyfiableAnalysis: which formal arguments of which    *)
(* functions have a path from entry to exit that never uses them           *)
(* ("promising"), and which actual arguments of which calls are computed   *)
(* by an instruction of the caller.                                        *)
(*                                                                         *)
(* One action per statement group of runOnModule; the depth-first search   *)
(* is one action per popped block.  The search's stack is a set and any    *)
(* block of it may be popped, which covers every order in which succ_begin *)
(* may list the successors.                                                *)
(***************************************************************************)
EXTENDS Naturals

CONSTANTS Fn,       \* functions of the module
          Block,    \* names of basic blocks
          Arg,      \* argument indices
          Mods,     \* the modules examined
          Indirect  \* callee of an indirect call, not a function

VARIABLES mod,      \* the module under analysis
          phase, todo, fn, args, calls,   \* where runOnModule is
          exit, arg, st, visited,         \* locals of findLazyfiablePaths and DFS
          dummy,                          \* dummy calls in the IR: <<function, argument, block>>
          promisingFunctions, promisingFunctionArgs,
          lazyfiableCallSites, stats

vars == <<mod, phase, todo, fn, args, calls, exit, arg, st, visited, dummy,
          promisingFunctions, promisingFunctionArgs, lazyfiableCallSites, stats>>

dfs == <<exit, arg, st, visited>>
results == <<promisingFunctions, promisingFunctionArgs, lazyfiableCallSites, stats>>

(***************************************************************************)
(* A function: its control-flow graph, the blocks that return, and for     *)
(* every argument the blocks with a use by an instruction that is no phi   *)
(* and the edges <<from, to>> along which a phi of block `to' takes the    *)
(* argument.  A call: the function it is in, its callee, and the arguments *)
(* that are computed by an instruction.  At most one block returns: the    *)
(* pass mergereturn ran before.                                            *)
(***************************************************************************)
Function == [decl : BOOLEAN, vararg : BOOLEAN, args : SUBSET Arg,
             entry : Block, rets : {r \in SUBSET Block : \A x, y \in r : x = y},
             succ : [Block -> SUBSET Block],
             uses : [Arg -> SUBSET Block], phis : [Arg -> SUBSET (Block \X Block)]]
CallInst == [caller : Fn, callee : Fn \cup {Indirect}, insts : SUBSET Arg]
ModType  == [funs : [Fn -> Function], calls : SUBSET CallInst]

ASSUME ModAssumption == Mods \subseteq ModType
ASSUME SetAssumption == Indirect \notin Fn /\ Fn # {} /\ Block # {} /\ Arg # {}

Init == /\ mod \in Mods
        /\ phase = "start" /\ todo = Fn /\ args = {} /\ calls = {}
        /\ fn = CHOOSE f \in Fn : TRUE
        /\ exit = CHOOSE b \in Block : TRUE
        /\ arg = CHOOSE a \in Arg : TRUE
        /\ st = {} /\ visited = {}
        /\ dummy = {}
        /\ promisingFunctions = {} /\ promisingFunctionArgs = {}
        /\ lazyfiableCallSites = {} /\ stats = {}

\* A phi's use of an argument happens on an edge; a dummy call at the end of
\* the edge's source block stands for it.
addMissingUses ==
    /\ phase = "start" /\ phase' = "functions"
    /\ dummy' = {t \in Fn \X Arg \X Block :
                    /\ t[2] \in mod.funs[t[1]].args
                    /\ \E to \in Block : <<t[3], to>> \in mod.funs[t[1]].phis[t[2]]}
    /\ UNCHANGED <<mod, todo, fn, args, calls, dfs, results>>

Skipped(f) == mod.funs[f].decl \/ mod.funs[f].vararg

SkipFunction ==
    /\ phase = "functions"
    /\ \E f \in todo : Skipped(f) /\ todo' = todo \ {f}
    /\ UNCHANGED <<mod, phase, fn, args, calls, dfs, dummy, results>>

\* Faulty variant of findLazyfiablePaths: a function that never returns is
\* left before its calls are collected.
findLazyfiablePathsEarly ==
    /\ phase = "functions"
    /\ \E f \in todo :
          /\ ~Skipped(f)
          /\ todo' = todo \ {f} /\ fn' = f
          /\ \/ mod.funs[f].rets = {} /\ args' = {} /\ calls' = {} /\ UNCHANGED exit
             \/ /\ exit' \in mod.funs[f].rets
                /\ args' = mod.funs[f].args
                /\ calls' = {c \in mod.calls : c.caller = f}
    /\ phase' = "args"
    /\ UNCHANGED <<mod, arg, st, visited, dummy, results>>

\* findLazyfiablePaths looks for the block that returns; a function without
\* one has no promising argument.
findLazyfiablePaths ==
    /\ phase = "functions"
    /\ \E f \in todo :
          /\ ~Skipped(f)
          /\ todo' = todo \ {f} /\ fn' = f
          /\ calls' = {c \in mod.calls : c.caller = f}
          /\ \/ /\ mod.funs[f].rets = {}
                /\ args' = {} /\ UNCHANGED exit
             \/ /\ exit' \in mod.funs[f].rets
                /\ args' = mod.funs[f].args
    /\ phase' = "args"
    /\ UNCHANGED <<mod, arg, st, visited, dummy, results>>

\* Faulty variant of StartDFS: the visited set of the last search is kept.
StartDFSKeepingVisited ==
    /\ phase = "args" /\ phase' = "dfs"
    /\ arg' \in args /\ args' = args \ {arg'}
    /\ st' = {mod.funs[fn].entry} /\ visited' = visited \cup {mod.funs[fn].entry}
    /\ UNCHANGED <<mod, todo, fn, calls, exit, dummy, results>>

StartDFS ==
    /\ phase = "args" /\ phase' = "dfs"
    /\ arg' \in args /\ args' = args \ {arg'}
    /\ st' = {mod.funs[fn].entry} /\ visited' = {mod.funs[fn].entry}
    /\ UNCHANGED <<mod, todo, fn, calls, exit, dummy, results>>

\* Faulty variant of hasUse: the uses of phis are not seen.
hasUseNoPhis(f, a, b) == b \in mod.funs[f].uses[a]

\* The block holds an instruction, phis excepted, with the argument as operand.
hasUse(f, a, b) == b \in mod.funs[f].uses[a] \/ <<f, a, b>> \in dummy

\* A block with a use is not expanded.
VisitUse(b) ==
    /\ hasUse(fn, arg, b)
    /\ st' = st \ {b}
    /\ UNCHANGED <<visited, promisingFunctions, promisingFunctionArgs>>

\* The exit is reached: the pair is recorded and the search ends.
VisitExit(b) ==
    /\ ~hasUse(fn, arg, b) /\ b = exit
    /\ promisingFunctions' = promisingFunctions \cup {fn}
    /\ promisingFunctionArgs' = promisingFunctionArgs \cup {<<fn, arg>>}
    /\ st' = {}
    /\ UNCHANGED visited

\* Faulty variants of Expand: successors are pushed again although visited;
\* blocks are marked when they are popped and not when they are pushed.
ExpandAgain(b) ==
    LET new == mod.funs[fn].succ[b]
    IN  /\ ~hasUse(fn, arg, b) /\ b # exit
        /\ visited' = visited \cup new
        /\ st' = (st \ {b}) \cup new
        /\ UNCHANGED <<promisingFunctions, promisingFunctionArgs>>
ExpandLateMark(b) ==
    /\ ~hasUse(fn, arg, b) /\ b # exit
    /\ visited' = visited \cup {b}
    /\ st' = (st \ {b}) \cup (mod.funs[fn].succ[b] \ visited)
    /\ UNCHANGED <<promisingFunctions, promisingFunctionArgs>>

Expand(b) ==
    LET new == mod.funs[fn].succ[b] \ visited
    IN  /\ ~hasUse(fn, arg, b) /\ b # exit
        /\ visited' = visited \cup new
        /\ st' = (st \ {b}) \cup new
        /\ UNCHANGED <<promisingFunctions, promisingFunctionArgs>>

DFS ==
    /\ phase = "dfs"
    /\ \E b \in st : VisitUse(b) \/ VisitExit(b) \/ Expand(b)
    /\ UNCHANGED <<mod, phase, todo, fn, args, calls, exit, arg, dummy,
                   lazyfiableCallSites, stats>>

EndDFS ==
    /\ phase = "dfs" /\ st = {} /\ phase' = "args"
    /\ UNCHANGED <<mod, todo, fn, args, calls, dfs, dummy, results>>

EndArgs ==
    /\ phase = "args" /\ args = {} /\ phase' = "calls"
    /\ UNCHANGED <<mod, todo, fn, args, calls, dfs, dummy, results>>

\* Every argument computed by an instruction counts as complex.
isArgumentComplex(c, i) == i \in c.insts

\* Faulty variant of analyzeCall: a call of a function that the same caller
\* already has a candidate for is passed over.
analyzeCallOncePerCallee ==
    /\ phase = "calls"
    /\ \E c \in calls :
          /\ calls' = calls \ {c}
          /\ IF c.callee = Indirect \/ (c.callee \in Fn /\ mod.funs[c.callee].decl)
                 \/ (\E i \in Arg : <<c.callee, i>> \in stats)
             THEN UNCHANGED <<lazyfiableCallSites, stats>>
             ELSE LET found == {i \in Arg : isArgumentComplex(c, i)}
                  IN  /\ lazyfiableCallSites' = lazyfiableCallSites \cup {<<c, i>> : i \in found}
                      /\ stats' = stats \cup {<<c.callee, i>> : i \in found}
    /\ UNCHANGED <<mod, phase, todo, fn, args, dfs, dummy,
                   promisingFunctions, promisingFunctionArgs>>

analyzeCall ==
    /\ phase = "calls"
    /\ \E c \in calls :
          /\ calls' = calls \ {c}
          /\ IF c.callee = Indirect \/ (c.callee \in Fn /\ mod.funs[c.callee].decl)
             THEN UNCHANGED <<lazyfiableCallSites, stats>>
             ELSE LET found == {i \in Arg : isArgumentComplex(c, i)}
                  IN  /\ lazyfiableCallSites' = lazyfiableCallSites \cup {<<c, i>> : i \in found}
                      /\ stats' = stats \cup {<<c.callee, i>> : i \in found}
    /\ UNCHANGED <<mod, phase, todo, fn, args, dfs, dummy,
                   promisingFunctions, promisingFunctionArgs>>

EndCalls ==
    /\ phase = "calls" /\ calls = {} /\ phase' = "functions"
    /\ UNCHANGED <<mod, todo, fn, args, calls, dfs, dummy, results>>

\* All functions done: the dummy functions and their calls are erased.
removeDummyFunctions ==
    /\ phase = "functions" /\ todo = {} /\ phase' = "done"
    /\ dummy' = {}
    /\ UNCHANGED <<mod, todo, fn, args, calls, dfs, results>>

Done == phase = "done" /\ UNCHANGED vars

Step == \/ addMissingUses \/ SkipFunction \/ findLazyfiablePaths \/ StartDFS \/ DFS
        \/ EndDFS \/ EndArgs \/ analyzeCall \/ EndCalls \/ removeDummyFunctions

Next == Step \/ Done

\* The analysis is a single thread that runs to its end.
Spec == Init /\ [][Next]_vars /\ WF_vars(Step)

-----------------------------------------------------------------------------
\* Type correctness of the analysis' state and results.
TypeOK ==
    /\ mod \in ModType
    /\ phase \in {"start", "functions", "args", "dfs", "calls", "done"}
    /\ todo \subseteq Fn /\ fn \in Fn /\ args \subseteq Arg /\ calls \subseteq mod.calls
    /\ exit \in Block /\ arg \in Arg /\ st \subseteq visited /\ visited \subseteq Block
    /\ dummy \subseteq Fn \X Arg \X Block
    /\ promisingFunctions \subseteq Fn /\ promisingFunctionArgs \subseteq Fn \X Arg
    /\ lazyfiableCallSites \subseteq mod.calls \X Arg /\ stats \subseteq Fn \X Arg

(***************************************************************************)
(* Reference definitions.  Reachability is stated with closed sets: a      *)
(* block is reachable when every set closed under the relation and holding *)
(* the entry holds it.                                                     *)
(***************************************************************************)
\* Blocks in which the analysis sees a use: uses by instructions, and the
\* sources of edges along which a phi takes the argument.
UseBlocks(f, a) ==
    mod.funs[f].uses[a] \cup
    {b \in Block : \E to \in Block : <<b, to>> \in mod.funs[f].phis[a]}

Closed(f, a, C) ==
    /\ mod.funs[f].entry \in C
    /\ \A b \in C \ UseBlocks(f, a) : mod.funs[f].succ[b] \subseteq C

\* Some path of blocks from entry to exit holds no use block, exit included.
Avoidable(f, a) ==
    \E x \in mod.funs[f].rets \ UseBlocks(f, a) :
        \A C \in SUBSET Block : Closed(f, a, C) => x \in C

\* What an execution does: it uses the argument in a block or along an edge.
EdgeClosed(f, a, C) ==
    /\ mod.funs[f].entry \in C
    /\ \A b \in C \ mod.funs[f].uses[a] :
          {s \in mod.funs[f].succ[b] : <<b, s>> \notin mod.funs[f].phis[a]} \subseteq C

\* Some execution path from entry to exit crosses no use of the argument.
UnusedPath(f, a) ==
    \E x \in mod.funs[f].rets \ mod.funs[f].uses[a] :
        \A C \in SUBSET Block : EdgeClosed(f, a, C) => x \in C

\* The analysis has decided about argument a of f.
Finished(f, a) ==
    /\ phase # "start" /\ f \notin todo /\ ~Skipped(f) /\ a \in mod.funs[f].args
    /\ f = fn => a \notin args /\ ~(phase = "dfs" /\ a = arg)

\* The search is exact (DFS): whatever order it visits blocks in, an argument
\* is recorded exactly when some path from entry to exit avoids its use
\* blocks, and what was found for one argument or function is not disturbed
\* by the search for another.
PromisingIsExact ==
    \A f \in Fn, a \in Arg :
        Finished(f, a) => (<<f, a>> \in promisingFunctionArgs <=> Avoidable(f, a))

\* What is recorded is true of executions: a promising argument really can
\* stay unused from entry to exit, phis included (addMissingUses with DFS).
PromisingIsSound ==
    \A f \in Fn, a \in Arg :
        <<f, a>> \in promisingFunctionArgs =>
            f \in promisingFunctions /\ ~Skipped(f) /\ UnusedPath(f, a)

\* No opportunity is lost between the two halves of the analysis: once it
\* ends, every call from an analysed function to a function it can avoid an
\* argument of is a candidate (what runOnModule of the lazification pass
\* intersects), and the IR is free of dummy calls.
CandidatesFound ==
    phase = "done" =>
        /\ dummy = {}
        /\ \A c \in mod.calls, i \in Arg :
              (/\ i \in c.insts /\ c.callee \in Fn
               /\ ~Skipped(c.caller) /\ ~Skipped(c.callee)
               /\ i \in mod.funs[c.callee].args /\ Avoidable(c.callee, i))
              => <<c, i>> \in lazyfiableCallSites /\ <<c.callee, i>> \in promisingFunctionArgs

\* The analysis ends on every control-flow graph, loops included.
Terminates == <>(phase = "done")

-----------------------------------------------------------------------------
(***************************************************************************)
(* The inductive invariant.                                                *)
(***************************************************************************)
\* While functions are analysed, the uses seen in the IR are the use blocks.
DummyIsRight ==
    phase \notin {"start", "done"} =>
        \A f \in Fn : \A a \in mod.funs[f].args, b \in Block :
            hasUse(f, a, b) <=> b \in UseBlocks(f, a)

\* Where runOnModule is.
ControlIsRight ==
    /\ phase \in {"start", "functions", "calls", "done"} => args = {}
    /\ phase \in {"args", "dfs", "calls"} => fn \notin todo /\ ~Skipped(fn)
    /\ phase \in {"args", "dfs"} => args \subseteq mod.funs[fn].args
    /\ phase = "args" /\ args # {} => exit \in mod.funs[fn].rets
    /\ phase = "dfs" => /\ arg \in mod.funs[fn].args \ args
                        /\ exit \in mod.funs[fn].rets
    /\ phase = "done" => todo = {}

\* Nothing is recorded before its search, and what is recorded is avoidable.
RecordedIsAvoidable ==
    \A f \in Fn, a \in Arg :
        <<f, a>> \in promisingFunctionArgs =>
            /\ f \in promisingFunctions /\ f \notin todo /\ ~Skipped(f)
            /\ f = fn => a \notin args
            /\ Avoidable(f, a)

\* The search: every visited block is reachable without crossing a use, and
\* until the exit is found, what was popped has been expanded or has a use.
SearchIsRight ==
    phase = "dfs" =>
        /\ mod.funs[fn].entry \in visited
        /\ \A b \in visited, C \in SUBSET Block : Closed(fn, arg, C) => b \in C
        /\ <<fn, arg>> \in promisingFunctionArgs \/
              \A b \in visited \ st :
                  \/ b \in UseBlocks(fn, arg)
                  \/ b # exit /\ mod.funs[fn].succ[b] \subseteq visited

\* Calls still to look at are those of the current function.
CallsAreRight ==
    /\ phase \in {"start", "functions", "done"} => calls = {}
    /\ \A c \in calls : c.caller = fn
    /\ \A c \in mod.calls, i \in Arg :
          (/\ c.caller \notin todo /\ ~Skipped(c.caller) /\ phase # "start" /\ c \notin calls
           /\ i \in c.insts /\ c.callee \in Fn /\ ~mod.funs[c.callee].decl)
          => <<c, i>> \in lazyfiableCallSites

FInv == /\ TypeOK /\ DummyIsRight /\ ControlIsRight /\ RecordedIsAvoidable
        /\ SearchIsRight /\ PromisingIsExact /\ CallsAreRight
        /\ (phase = "start" => todo = Fn) /\ (phase = "done" => dummy = {})
=============================================================================

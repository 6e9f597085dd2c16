------------------------ MODULE FindLazyfiableProofs ------------------------
(***************************************************************************)
(* Proofs about FindLazyfiable, for every module, control-flow graph and   *)
(* order of the search.                                                    *)
(***************************************************************************)
EXTENDS FindLazyfiable, TLAPS

\* The parts of a function have their types.
LEMMA FunctionType ==
    ASSUME mod \in ModType, NEW f \in Fn
    PROVE  /\ mod.funs[f].args \subseteq Arg /\ mod.funs[f].entry \in Block
           /\ mod.funs[f].rets \subseteq Block
           /\ \A x, y \in mod.funs[f].rets : x = y
           /\ \A b \in Block : mod.funs[f].succ[b] \subseteq Block
           /\ \A a \in Arg : /\ mod.funs[f].uses[a] \subseteq Block
                             /\ mod.funs[f].phis[a] \subseteq Block \X Block
<1>1. mod.funs[f] \in Function
  BY DEF ModType
<1> QED BY <1>1 DEF Function

\* The reference definitions depend on the module only, which never changes.
LEMMA ReferenceIsFixed ==
    ASSUME mod' = mod
    PROVE  \A f, a : /\ Skipped(f)' = Skipped(f)
                     /\ UseBlocks(f, a)' = UseBlocks(f, a)
                     /\ Avoidable(f, a)' = Avoidable(f, a)
                     /\ \A C : Closed(f, a, C)' = Closed(f, a, C)
BY DEF Skipped, UseBlocks, Avoidable, Closed

\* The search finds the exit only when it is avoidable (DFS, the record of a
\* promising pair).
LEMMA FoundIsAvoidable ==
    ASSUME mod \in ModType, NEW f \in Fn, NEW a \in mod.funs[f].args,
           NEW x \in mod.funs[f].rets, x \notin UseBlocks(f, a),
           \A C \in SUBSET Block : Closed(f, a, C) => x \in C
    PROVE  Avoidable(f, a)
BY DEF Avoidable

\* When the stack is empty and nothing was found, the visited blocks are
\* closed and do not hold a usable exit: no path avoids the uses.
LEMMA ExhaustedIsUnavoidable ==
    ASSUME mod \in ModType, NEW f \in Fn, NEW a \in mod.funs[f].args,
           NEW x \in mod.funs[f].rets, NEW V \in SUBSET Block,
           mod.funs[f].entry \in V,
           \A b \in V : \/ b \in UseBlocks(f, a)
                        \/ b # x /\ mod.funs[f].succ[b] \subseteq V
    PROVE  ~Avoidable(f, a)
<1>1. Closed(f, a, V)
  BY DEF Closed
<1>2. \A y \in mod.funs[f].rets : y = x
  BY FunctionType
<1>3. x \notin V \/ x \in UseBlocks(f, a)
  OBVIOUS
<1> QED BY <1>1, <1>2, <1>3 DEF Avoidable

\* A path of blocks without use blocks is a path of an execution that does
\* not use the argument (addMissingUses is conservative).
LEMMA AvoidableIsUnused ==
    ASSUME mod \in ModType, NEW f \in Fn, NEW a \in Arg, Avoidable(f, a)
    PROVE  UnusedPath(f, a)
<1>1. PICK x \in mod.funs[f].rets \ UseBlocks(f, a) :
          \A C \in SUBSET Block : Closed(f, a, C) => x \in C
  BY DEF Avoidable
<1>2. ASSUME NEW C \in SUBSET Block, EdgeClosed(f, a, C)
      PROVE  Closed(f, a, C)
  <2>1. ASSUME NEW b \in C \ UseBlocks(f, a), NEW s \in mod.funs[f].succ[b]
        PROVE  s \in C
    <3>1. s \in Block /\ b \notin mod.funs[f].uses[a]
      BY FunctionType DEF UseBlocks
    <3>2. <<b, s>> \notin mod.funs[f].phis[a]
      BY <3>1 DEF UseBlocks
    <3> QED BY <1>2, <3>1, <3>2 DEF EdgeClosed
  <2> QED BY <1>2, <2>1 DEF Closed, EdgeClosed
<1>3. x \notin mod.funs[f].uses[a]
  BY DEF UseBlocks
<1> QED BY <1>1, <1>2, <1>3 DEF UnusedPath

-----------------------------------------------------------------------------
\* The invariant holds before the analysis starts.
LEMMA InitEstablishes == Init => FInv
<1> SUFFICES ASSUME Init PROVE FInv
  OBVIOUS
<1>1. fn \in Fn /\ exit \in Block /\ arg \in Arg /\ mod \in ModType
  BY SetAssumption, ModAssumption DEF Init
<1>2. TypeOK
  BY <1>1 DEF Init, TypeOK
<1> QED BY <1>1, <1>2 DEF Init, FInv, DummyIsRight, ControlIsRight, RecordedIsAvoidable,
               SearchIsRight, PromisingIsExact, CallsAreRight, Finished

\* Inserting the dummy calls makes the visible uses the use blocks.
LEMMA AddMissingUsesKeeps == FInv /\ addMissingUses => FInv'
<1> SUFFICES ASSUME FInv, addMissingUses PROVE FInv'
  OBVIOUS
<1> USE DEF FInv
<1>0. /\ mod' = mod /\ mod \in ModType /\ phase = "start" /\ phase' = "functions"
      /\ UNCHANGED <<todo, fn, args, calls, exit, arg, st, visited, promisingFunctions,
                     promisingFunctionArgs, lazyfiableCallSites, stats>>
      /\ todo = Fn
  BY DEF addMissingUses, dfs, results, TypeOK
<1>1. TypeOK'
  BY <1>0 DEF TypeOK, addMissingUses
<1>2. DummyIsRight'
  <2> SUFFICES ASSUME NEW f \in Fn, NEW a \in mod.funs[f].args, NEW b \in Block
               PROVE  hasUse(f, a, b)' <=> b \in UseBlocks(f, a)
    BY <1>0, ReferenceIsFixed DEF DummyIsRight
  <2>1. a \in Arg
    BY <1>0, FunctionType
  <2>2. <<f, a, b>> \in dummy' <=> \E to \in Block : <<b, to>> \in mod.funs[f].phis[a]
    BY <2>1 DEF addMissingUses
  <2> QED BY <1>0, <2>2 DEF hasUse, UseBlocks
<1>3. ControlIsRight' /\ SearchIsRight'
  BY <1>0 DEF ControlIsRight, SearchIsRight
<1>4. RecordedIsAvoidable'
  BY <1>0, ReferenceIsFixed DEF RecordedIsAvoidable
<1>5. PromisingIsExact'
  BY <1>0 DEF PromisingIsExact, Finished
<1>6. CallsAreRight'
  BY <1>0 DEF CallsAreRight, TypeOK, ModType, CallInst
<1> QED BY <1>0, <1>1, <1>2, <1>3, <1>4, <1>5, <1>6

\* Declarations and variadic functions are passed over.
LEMMA SkipKeeps == FInv /\ SkipFunction => FInv'
<1> SUFFICES ASSUME FInv, SkipFunction PROVE FInv'
  OBVIOUS
<1> USE DEF FInv
<1>0. /\ mod' = mod /\ mod \in ModType /\ phase = "functions"
      /\ UNCHANGED <<phase, fn, args, calls, exit, arg, st, visited, dummy, promisingFunctions,
                     promisingFunctionArgs, lazyfiableCallSites, stats>>
  BY DEF SkipFunction, dfs, results, TypeOK
<1>1. PICK f \in todo : Skipped(f) /\ todo' = todo \ {f}
  BY DEF SkipFunction
<1>2. TypeOK'
  BY <1>0, <1>1 DEF TypeOK
<1>3. DummyIsRight' /\ ControlIsRight' /\ SearchIsRight'
  BY <1>0, ReferenceIsFixed DEF DummyIsRight, ControlIsRight, SearchIsRight, hasUse
<1>4. RecordedIsAvoidable'
  BY <1>0, <1>1, ReferenceIsFixed DEF RecordedIsAvoidable
<1>5. PromisingIsExact'
  BY <1>0, <1>1, ReferenceIsFixed DEF PromisingIsExact, Finished
<1>6. CallsAreRight'
  BY <1>0, <1>1, ReferenceIsFixed DEF CallsAreRight
<1> QED BY <1>0, <1>2, <1>3, <1>4, <1>5, <1>6

\* A function is taken up: its arguments are all undecided, and without a
\* return block none of them is avoidable.
LEMMA PathsKeeps == FInv /\ findLazyfiablePaths => FInv'
<1> SUFFICES ASSUME FInv, findLazyfiablePaths PROVE FInv'
  OBVIOUS
<1> USE DEF FInv
<1>0. /\ mod' = mod /\ mod \in ModType /\ phase = "functions" /\ phase' = "args"
      /\ UNCHANGED <<arg, st, visited, dummy, promisingFunctions,
                     promisingFunctionArgs, lazyfiableCallSites, stats>>
      /\ args = {} /\ calls = {}
  BY DEF findLazyfiablePaths, results, TypeOK, ControlIsRight, CallsAreRight
<1>1. PICK f \in todo :
          /\ ~Skipped(f) /\ todo' = todo \ {f} /\ fn' = f
          /\ calls' = {c \in mod.calls : c.caller = f}
          /\ \/ mod.funs[f].rets = {} /\ args' = {} /\ exit' = exit
             \/ exit' \in mod.funs[f].rets /\ args' = mod.funs[f].args
  BY DEF findLazyfiablePaths
<1>2. f \in Fn /\ exit' \in Block /\ args' \subseteq mod.funs[f].args
  BY <1>0, <1>1, FunctionType DEF TypeOK
<1>3. TypeOK'
  BY <1>0, <1>1, <1>2, FunctionType DEF TypeOK
<1>4. DummyIsRight' /\ SearchIsRight'
  BY <1>0, ReferenceIsFixed DEF DummyIsRight, SearchIsRight, hasUse
<1>5. ControlIsRight'
  BY <1>0, <1>1, <1>2, ReferenceIsFixed DEF ControlIsRight
<1>6. RecordedIsAvoidable'
  BY <1>0, <1>1, ReferenceIsFixed DEF RecordedIsAvoidable
<1>7. PromisingIsExact'
  <2> SUFFICES ASSUME NEW g \in Fn, NEW a \in Arg, Finished(g, a)'
               PROVE  <<g, a>> \in promisingFunctionArgs <=> Avoidable(g, a)
    BY <1>0, ReferenceIsFixed DEF PromisingIsExact
  <2>1. CASE g = f
    BY <1>0, <1>1, <2>1, ReferenceIsFixed DEF Finished, RecordedIsAvoidable, Avoidable
  <2>2. CASE g # f
    BY <1>0, <1>1, <2>2, ReferenceIsFixed DEF Finished, PromisingIsExact
  <2> QED BY <2>1, <2>2
<1>8. CallsAreRight'
  BY <1>0, <1>1, ReferenceIsFixed DEF CallsAreRight
<1> QED BY <1>0, <1>3, <1>4, <1>5, <1>6, <1>7, <1>8

\* A search starts at the entry with nothing expanded.
LEMMA StartKeeps == FInv /\ StartDFS => FInv'
<1> SUFFICES ASSUME FInv, StartDFS PROVE FInv'
  OBVIOUS
<1> USE DEF FInv
<1>0. /\ mod' = mod /\ mod \in ModType /\ phase = "args" /\ phase' = "dfs"
      /\ UNCHANGED <<todo, fn, calls, exit, dummy, promisingFunctions,
                     promisingFunctionArgs, lazyfiableCallSites, stats>>
      /\ arg' \in args /\ args' = args \ {arg'} /\ fn \in Fn
      /\ st' = {mod.funs[fn].entry} /\ visited' = {mod.funs[fn].entry}
      /\ args \subseteq mod.funs[fn].args /\ exit \in mod.funs[fn].rets
  BY DEF StartDFS, results, TypeOK, ControlIsRight
<1>1. TypeOK'
  BY <1>0, FunctionType DEF TypeOK
<1>2. DummyIsRight' /\ ControlIsRight'
  BY <1>0, ReferenceIsFixed DEF DummyIsRight, ControlIsRight, hasUse
<1>3. SearchIsRight'
  BY <1>0, ReferenceIsFixed DEF SearchIsRight, Closed
<1>4. RecordedIsAvoidable'
  BY <1>0, ReferenceIsFixed DEF RecordedIsAvoidable
<1>5. PromisingIsExact'
  BY <1>0, ReferenceIsFixed DEF PromisingIsExact, Finished
<1>6. CallsAreRight'
  BY <1>0, ReferenceIsFixed DEF CallsAreRight
<1> QED BY <1>0, <1>1, <1>2, <1>3, <1>4, <1>5, <1>6

\* One popped block: it has a use, is the exit, or is expanded.
LEMMA DFSKeeps == FInv /\ DFS => FInv'
<1> SUFFICES ASSUME FInv, DFS PROVE FInv'
  OBVIOUS
<1> USE DEF FInv
<1>0. /\ mod' = mod /\ mod \in ModType /\ phase = "dfs" /\ phase' = "dfs"
      /\ UNCHANGED <<todo, fn, args, calls, exit, arg, dummy, lazyfiableCallSites, stats>>
      /\ fn \in Fn /\ arg \in Arg /\ st \subseteq visited /\ visited \subseteq Block
      /\ arg \in mod.funs[fn].args \ args /\ exit \in mod.funs[fn].rets
      /\ fn \notin todo /\ ~Skipped(fn)
  BY DEF DFS, TypeOK, ControlIsRight
<1>1. PICK b \in st : VisitUse(b) \/ VisitExit(b) \/ Expand(b)
  BY DEF DFS
<1>2. hasUse(fn, arg, b) <=> b \in UseBlocks(fn, arg)
  BY <1>0, <1>1 DEF DummyIsRight
<1>3. DummyIsRight' /\ ControlIsRight' /\ CallsAreRight'
  BY <1>0, ReferenceIsFixed DEF DummyIsRight, ControlIsRight, CallsAreRight, hasUse
<1>4. CASE VisitUse(b)
  <2>1. /\ st' = st \ {b} /\ visited' = visited
        /\ UNCHANGED <<promisingFunctions, promisingFunctionArgs>>
    BY <1>4 DEF VisitUse
  <2>2. TypeOK'
    BY <1>0, <2>1 DEF TypeOK
  <2>3. SearchIsRight'
    BY <1>0, <1>2, <1>4, <2>1, ReferenceIsFixed DEF SearchIsRight, VisitUse
  <2>4. RecordedIsAvoidable' /\ PromisingIsExact'
    BY <1>0, <2>1, ReferenceIsFixed DEF RecordedIsAvoidable, PromisingIsExact, Finished
  <2> QED BY <1>0, <1>3, <2>2, <2>3, <2>4
<1>5. CASE VisitExit(b)
  <2>1. /\ st' = {} /\ visited' = visited
        /\ promisingFunctions' = promisingFunctions \cup {fn}
        /\ promisingFunctionArgs' = promisingFunctionArgs \cup {<<fn, arg>>}
    BY <1>5 DEF VisitExit
  <2>2. TypeOK'
    BY <1>0, <2>1 DEF TypeOK
  <2>3. Avoidable(fn, arg)
    <3>1. exit \notin UseBlocks(fn, arg) /\ exit \in visited
      BY <1>0, <1>1, <1>2, <1>5 DEF VisitExit
    <3>2. \A C \in SUBSET Block : Closed(fn, arg, C) => exit \in C
      BY <1>0, <3>1 DEF SearchIsRight
    <3> QED BY <1>0, <3>1, <3>2, FoundIsAvoidable
  <2>4. SearchIsRight'
    BY <1>0, <2>1, ReferenceIsFixed DEF SearchIsRight
  <2>5. RecordedIsAvoidable'
    BY <1>0, <2>1, <2>3, ReferenceIsFixed DEF RecordedIsAvoidable
  <2>6. PromisingIsExact'
    BY <1>0, <2>1, ReferenceIsFixed DEF PromisingIsExact, Finished
  <2> QED BY <1>0, <1>3, <2>2, <2>4, <2>5, <2>6
<1>6. CASE Expand(b)
  <2>1. /\ visited' = visited \cup mod.funs[fn].succ[b]
        /\ st' = (st \ {b}) \cup (mod.funs[fn].succ[b] \ visited)
        /\ UNCHANGED <<promisingFunctions, promisingFunctionArgs>>
        /\ b \notin UseBlocks(fn, arg) /\ b # exit
    BY <1>2, <1>6 DEF Expand
  <2>2. mod.funs[fn].succ[b] \subseteq Block
    BY <1>0, <1>1, FunctionType
  <2>3. TypeOK'
    BY <1>0, <2>1, <2>2 DEF TypeOK
  <2>4. SearchIsRight'
    <3>1. ASSUME NEW c \in visited', NEW C \in SUBSET Block, Closed(fn, arg, C)
          PROVE  c \in C
      <4>1. b \in C
        BY <1>0, <1>1, <3>1 DEF SearchIsRight
      <4>2. mod.funs[fn].succ[b] \subseteq C
        BY <2>1, <3>1, <4>1 DEF Closed
      <4> QED BY <1>0, <2>1, <3>1, <4>2 DEF SearchIsRight
    <3>2. \/ <<fn, arg>> \in promisingFunctionArgs
          \/ \A c \in visited' \ st' :
                 \/ c \in UseBlocks(fn, arg)
                 \/ c # exit /\ mod.funs[fn].succ[c] \subseteq visited'
      BY <1>0, <2>1 DEF SearchIsRight
    <3>3. mod.funs[fn].entry \in visited'
      BY <1>0, <2>1 DEF SearchIsRight
    <3> QED BY <1>0, <2>1, <3>1, <3>2, <3>3, ReferenceIsFixed DEF SearchIsRight
  <2>5. RecordedIsAvoidable' /\ PromisingIsExact'
    BY <1>0, <2>1, ReferenceIsFixed DEF RecordedIsAvoidable, PromisingIsExact, Finished
  <2> QED BY <1>0, <1>3, <2>3, <2>4, <2>5
<1> QED BY <1>1, <1>4, <1>5, <1>6

\* The search ends: the pair is recorded, or the visited blocks show that no
\* path avoids the uses.
LEMMA EndDFSKeeps == FInv /\ EndDFS => FInv'
<1> SUFFICES ASSUME FInv, EndDFS PROVE FInv'
  OBVIOUS
<1> USE DEF FInv
<1>0. /\ mod' = mod /\ mod \in ModType /\ phase = "dfs" /\ phase' = "args" /\ st = {}
      /\ UNCHANGED <<todo, fn, args, calls, exit, arg, st, visited, dummy, promisingFunctions,
                     promisingFunctionArgs, lazyfiableCallSites, stats>>
      /\ fn \in Fn /\ arg \in mod.funs[fn].args \ args /\ exit \in mod.funs[fn].rets
      /\ visited \in SUBSET Block
  BY DEF EndDFS, dfs, results, TypeOK, ControlIsRight
<1>1. <<fn, arg>> \in promisingFunctionArgs <=> Avoidable(fn, arg)
  <2>1. CASE <<fn, arg>> \in promisingFunctionArgs
    BY <1>0, <2>1, FunctionType DEF RecordedIsAvoidable
  <2>2. CASE <<fn, arg>> \notin promisingFunctionArgs
    <3>1. /\ mod.funs[fn].entry \in visited
          /\ \A b \in visited : \/ b \in UseBlocks(fn, arg)
                                \/ b # exit /\ mod.funs[fn].succ[b] \subseteq visited
      BY <1>0, <2>2 DEF SearchIsRight
    <3> QED BY <1>0, <2>2, <3>1, ExhaustedIsUnavoidable
  <2> QED BY <2>1, <2>2
<1>2. TypeOK' /\ DummyIsRight' /\ ControlIsRight' /\ SearchIsRight' /\ CallsAreRight'
  BY <1>0, ReferenceIsFixed
  DEF TypeOK, DummyIsRight, ControlIsRight, SearchIsRight, CallsAreRight, hasUse
<1>3. RecordedIsAvoidable'
  BY <1>0, ReferenceIsFixed DEF RecordedIsAvoidable
<1>4. PromisingIsExact'
  BY <1>0, <1>1, ReferenceIsFixed DEF PromisingIsExact, Finished
<1> QED BY <1>0, <1>2, <1>3, <1>4

\* The steps between the searches, the calls and the functions only move
\* control.
LEMMA ControlKeeps == FInv /\ (EndArgs \/ EndCalls) => FInv'
<1> SUFFICES ASSUME FInv, EndArgs \/ EndCalls PROVE FInv'
  OBVIOUS
<1> USE DEF FInv
<1>0. /\ mod' = mod /\ mod \in ModType /\ phase' \in {"calls", "functions"} /\ args = {}
      /\ phase \in {"args", "calls"} /\ (phase' = "functions" => calls = {})
      /\ UNCHANGED <<todo, fn, args, calls, exit, arg, st, visited, dummy, promisingFunctions,
                     promisingFunctionArgs, lazyfiableCallSites, stats>>
  BY DEF EndArgs, EndCalls, dfs, results, TypeOK, ControlIsRight
<1>1. TypeOK'
  BY <1>0 DEF TypeOK
<1>2. DummyIsRight'
  <2>1. \A f, a, b : hasUse(f, a, b)' = hasUse(f, a, b)
    BY <1>0 DEF hasUse
  <2>2. phase' \notin {"start", "done"} => phase \notin {"start", "done"}
    BY <1>0
  <2> QED BY <1>0, <2>1, <2>2, ReferenceIsFixed DEF DummyIsRight
<1>3. ControlIsRight'
  BY <1>0, ReferenceIsFixed DEF ControlIsRight
<1>4. SearchIsRight' /\ RecordedIsAvoidable'
  BY <1>0, ReferenceIsFixed DEF SearchIsRight, RecordedIsAvoidable
<1>5. PromisingIsExact'
  BY <1>0, ReferenceIsFixed DEF PromisingIsExact, Finished
<1>6. CallsAreRight'
  BY <1>0, ReferenceIsFixed DEF CallsAreRight
<1> QED BY <1>0, <1>1, <1>2, <1>3, <1>4, <1>5, <1>6

\* A call is looked at: its complex arguments become candidates unless the
\* callee is unknown or has no body.
LEMMA AnalyzeCallKeeps == FInv /\ analyzeCall => FInv'
<1> SUFFICES ASSUME FInv, analyzeCall PROVE FInv'
  OBVIOUS
<1> USE DEF FInv
<1>0. /\ mod' = mod /\ mod \in ModType /\ phase = "calls" /\ phase' = "calls"
      /\ UNCHANGED <<todo, fn, args, exit, arg, st, visited, dummy, promisingFunctions,
                     promisingFunctionArgs>>
  BY DEF analyzeCall, dfs, TypeOK
<1>1. PICK c \in calls :
          /\ calls' = calls \ {c}
          /\ IF c.callee = Indirect \/ (c.callee \in Fn /\ mod.funs[c.callee].decl)
             THEN UNCHANGED <<lazyfiableCallSites, stats>>
             ELSE /\ lazyfiableCallSites' = lazyfiableCallSites \cup
                         {<<c, i>> : i \in {j \in Arg : isArgumentComplex(c, j)}}
                  /\ stats' = stats \cup
                         {<<c.callee, i>> : i \in {j \in Arg : isArgumentComplex(c, j)}}
  BY DEF analyzeCall
<1>2. c \in mod.calls /\ c \in CallInst
  BY <1>0 DEF TypeOK, ModType
<1>3. TypeOK'
  BY <1>0, <1>1, <1>2 DEF TypeOK, CallInst
<1>4. DummyIsRight' /\ SearchIsRight'
  <2>1. DummyIsRight'
    BY <1>0, ReferenceIsFixed DEF DummyIsRight, hasUse
  <2>2. SearchIsRight'
    BY <1>0, ReferenceIsFixed DEF SearchIsRight
  <2> QED BY <2>1, <2>2
<1>5. ControlIsRight'
  BY <1>0, ReferenceIsFixed DEF ControlIsRight
<1>7. RecordedIsAvoidable' /\ PromisingIsExact'
  BY <1>0, ReferenceIsFixed DEF RecordedIsAvoidable, PromisingIsExact, Finished
<1>6. CallsAreRight'
  <2>1. ASSUME NEW d \in mod.calls, NEW i \in Arg,
               d.caller \notin todo, ~Skipped(d.caller), d \notin calls',
               i \in d.insts, d.callee \in Fn, ~mod.funs[d.callee].decl
        PROVE  <<d, i>> \in lazyfiableCallSites'
    <3>1. CASE d = c
      BY <1>1, <2>1, <3>1, SetAssumption DEF isArgumentComplex
    <3>2. CASE d # c
      BY <1>0, <1>1, <2>1, <3>2 DEF CallsAreRight
    <3> QED BY <3>1, <3>2
  <2> QED BY <1>0, <1>1, <2>1, ReferenceIsFixed DEF CallsAreRight
<1> QED BY <1>0, <1>3, <1>4, <1>5, <1>6, <1>7

\* The dummy calls disappear when every function has been analysed.
LEMMA RemoveKeeps == FInv /\ removeDummyFunctions => FInv'
<1> SUFFICES ASSUME FInv, removeDummyFunctions PROVE FInv'
  OBVIOUS
<1> USE DEF FInv
<1>0. /\ mod' = mod /\ mod \in ModType /\ phase = "functions" /\ phase' = "done"
      /\ todo = {} /\ args = {} /\ calls = {} /\ dummy' = {}
      /\ UNCHANGED <<todo, fn, args, calls, exit, arg, st, visited, promisingFunctions,
                     promisingFunctionArgs, lazyfiableCallSites, stats>>
  BY DEF removeDummyFunctions, dfs, results, TypeOK, ControlIsRight, CallsAreRight
<1>1. TypeOK' /\ DummyIsRight' /\ ControlIsRight' /\ SearchIsRight' /\ CallsAreRight'
  BY <1>0, ReferenceIsFixed
  DEF TypeOK, DummyIsRight, ControlIsRight, SearchIsRight, CallsAreRight
<1>2. RecordedIsAvoidable' /\ PromisingIsExact'
  BY <1>0, ReferenceIsFixed DEF RecordedIsAvoidable, PromisingIsExact, Finished
<1> QED BY <1>0, <1>1, <1>2

\* A step that changes nothing keeps the invariant.
LEMMA StutterKeeps == FInv /\ UNCHANGED vars => FInv'
<1> SUFFICES ASSUME FInv, UNCHANGED vars PROVE FInv'
  OBVIOUS
<1> USE DEF FInv
<1>0. /\ mod' = mod /\ mod \in ModType
      /\ UNCHANGED <<phase, todo, fn, args, calls, exit, arg, st, visited, dummy,
                     promisingFunctions, promisingFunctionArgs, lazyfiableCallSites, stats>>
  BY DEF vars, TypeOK
<1>1. TypeOK'
  BY <1>0 DEF TypeOK
<1>2. DummyIsRight'
  <2>1. \A f, a, b : hasUse(f, a, b)' = hasUse(f, a, b)
    BY <1>0 DEF hasUse
  <2>2. phase' \notin {"start", "done"} => phase \notin {"start", "done"}
    BY <1>0
  <2> QED BY <1>0, <2>1, <2>2, ReferenceIsFixed DEF DummyIsRight
<1>3. ControlIsRight'
  BY <1>0, ReferenceIsFixed DEF ControlIsRight
<1>4. SearchIsRight' /\ RecordedIsAvoidable'
  <2>1. SearchIsRight'
    BY <1>0, ReferenceIsFixed DEF SearchIsRight
  <2>2. RecordedIsAvoidable'
    BY <1>0, ReferenceIsFixed DEF RecordedIsAvoidable
  <2> QED BY <2>1, <2>2
<1>5. PromisingIsExact'
  BY <1>0, ReferenceIsFixed DEF PromisingIsExact, Finished
<1>6. CallsAreRight'
  BY <1>0, ReferenceIsFixed DEF CallsAreRight
<1> QED BY <1>0, <1>1, <1>2, <1>3, <1>4, <1>5, <1>6

-----------------------------------------------------------------------------
\* The inductive invariant holds throughout the analysis.
THEOREM Invariance == Spec => []FInv
<1>1. FInv /\ [Next]_vars => FInv'
  BY AddMissingUsesKeeps, SkipKeeps, PathsKeeps, StartKeeps, DFSKeeps, EndDFSKeeps,
     ControlKeeps, AnalyzeCallKeeps, RemoveKeeps, StutterKeeps
  DEF Next, Step, Done
<1> QED BY <1>1, InitEstablishes, PTL DEF Spec

\* The analysis' worklists and results keep their types.
THEOREM TypeCorrect == Spec => []TypeOK
<1>1. FInv => TypeOK
  BY DEF FInv
<1> QED BY <1>1, Invariance, PTL

\* The search records exactly the arguments that some path from entry to
\* exit avoids, on every control-flow graph and in every visiting order.
THEOREM SearchIsExact == Spec => []PromisingIsExact
<1>1. FInv => PromisingIsExact
  BY DEF FInv
<1> QED BY <1>1, Invariance, PTL

\* A promising argument can stay unused on some execution path.
THEOREM PromisingIsTrue == Spec => []PromisingIsSound
<1>1. FInv => PromisingIsSound
  BY AvoidableIsUnused DEF FInv, RecordedIsAvoidable, PromisingIsSound, TypeOK
<1> QED BY <1>1, Invariance, PTL

\* When the analysis ends, no candidate is missing and the IR is restored.
THEOREM NoCandidateIsLost == Spec => []CandidatesFound
<1>1. FInv => CandidatesFound
  <2> SUFFICES ASSUME FInv, phase = "done" PROVE CandidatesFound
    BY DEF CandidatesFound
  <2>1. dummy = {} /\ todo = {} /\ args = {} /\ calls = {} /\ mod \in ModType
    BY DEF FInv, ControlIsRight, CallsAreRight, TypeOK
  <2>2. ASSUME NEW c \in mod.calls, NEW i \in Arg, i \in c.insts, c.callee \in Fn,
               ~Skipped(c.caller), ~Skipped(c.callee),
               i \in mod.funs[c.callee].args, Avoidable(c.callee, i)
        PROVE  <<c, i>> \in lazyfiableCallSites /\ <<c.callee, i>> \in promisingFunctionArgs
    <3>1. ~mod.funs[c.callee].decl
      BY <2>2 DEF Skipped
    <3>2. <<c, i>> \in lazyfiableCallSites
      BY <2>1, <2>2, <3>1 DEF FInv, CallsAreRight
    <3>3. Finished(c.callee, i)
      BY <2>1, <2>2 DEF Finished
    <3> QED BY <2>2, <3>2, <3>3 DEF FInv, PromisingIsExact
  <2> QED BY <2>1, <2>2 DEF CandidatesFound
<1> QED BY <1>1, Invariance, PTL
=============================================================================

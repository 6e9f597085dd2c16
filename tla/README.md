# Wyvern in TLA+

Wyvern is a set of LLVM passes that turn call by value into call by need: an actual
argument that the callee may not use is outlined into a delegate function, and the call
passes a thunk.  These modules model the passes' decisions and what the code they
generate does at run time, check both with TLC on small instances, and prove the main
results with TLAPS for instances of any size.

## Inventory

| component | code | state | operations | hard parts |
|---|---|---|---|---|
| candidate analysis | `passes/FindLazyfiable.*` | promising functions and arguments, candidate calls, dummy calls in the IR | `addMissingUses`, `findLazyfiablePaths`, `DFS`, `analyzeCall`, `removeDummyFunctions` | visiting order, loops, phis, state left over from another argument |
| slice legality | `ProgramSlice::canOutline` | none | one test over the caller | writes that the alias sets do not hold; moved reads |
| slicing, code generation | rest of `ProgramSlice.*` | queue and marks of the walk, slice, attractors, delegate IR | `computeGates`, `get_data_dependences_for`, `computeAttractorBlocks`, `rerouteBranches`, `updatePHINodes`, `reorderBlocks` | control dependence through joins and loops; blocks without a terminator; which block comes first |
| thunks | `outline`, `memoizedOutline`, `generateThunkInitializationCode`, `updateThunkArgUses`, `cloneCalleeFunction` | at run time: function pointer, memo value, memo flag, environment | initialise, evaluate, memoise | staleness across iterations and activations; order of writes and uses |
| driver | `WyvernLazyficationPass::runOnModule`, `lazifyCallsite`, PGO | lazified pairs, cloned callees, profile | selection of candidates | calls rewritten while others wait; profile matched by number |
| instrumentation | `passes/Instrumentation.*` | none | places the calls of the runtime | order of inserted calls; exceptions |
| profiling runtime | `wyinstr.cpp` | reports, shadow stack, `initialized` | `init_prof`, `init_call`, `mark_eval`, `end_call`, `dump` | threads, empty stack, shifts |
| debug helpers, result script, tests | `DebugUtils.*`, `scripts/`, `test/` | none | | not modelled |

The analysis feeds both passes.  Instrumentation marks the promising functions and links
the program with the runtime, whose report the driver reads back for profile-guided
lazification.  The driver asks `canOutline` of each candidate and then generates the
delegate, the thunk and the cloned callee.

What makes each part correct: the analysis records exactly the arguments that can be
avoided and loses no call; a lazified program computes what the original computed and
evaluates each argument at most once; the profile counts what happened.

## Modules

| module | role |
|---|---|
| `SliceProgram` | one candidate (slice, surroundings of the call) and `canOutline`; no state |
| `StrictCall` | abstract specification: the original program, call by value |
| `LazyCall` | the lazified program: thunk, delegate, memoisation; implements `StrictCall` |
| `LazyCallProofs` | theorems about `LazyCall` |
| `MCLazyCall` | small candidates for TLC |
| `ControlFlow` | the function sliced: graph and SSA values; dominance, gates, attractors; no state |
| `ProgramSlice`, `ProgramSliceProofs` | the walk that collects a slice (specification `WalkSpec`) and its theorems |
| `Outline` | the delegate made from the slice, run beside the function; implements `WalkSpec` |
| `OutlineProofs`, `DelegateProofs` | theorems about the delegate's control flow, and about its runs |
| `MCOutline` | small functions in SSA form |
| `FindLazyfiable`, `FindLazyfiableProofs` | the analysis and its theorems |
| `MCFindLazyfiable` | all small control-flow graphs; modules of two functions with calls |
| `Lazyfication`, `LazyficationProofs`, `MCLazyfication` | the driver over the candidates of a module, theorems, instances |
| `WyInstr`, `WyInstrProofs`, `MCWyInstr` | the instrumented program on the runtime, theorems, instances |
| `ProfileGuided`, `ProfileGuidedProofs` | profile-guided selection from the report that `WyInstr` writes (EXTENDS it; `MCWyInstr` instantiates both) |

Operators whose comment says "faulty variant" are not part of any specification.  Each is
what a definition of the model would become with a plausible mistake in the code; replacing
the definition by it makes TLC report the property it is paired with in `PROJECT.json`.

### Lazification (`SliceProgram`, `StrictCall`, `LazyCall`)

A candidate records, for each instruction of the slice, what `canOutline` asks of it (kind,
callee, locations read, written and addressed, whether it may throw and whether it returns), and of the
caller the locations its stores and other calls write, its loads read, what the call's other
pointer arguments address and what the callee writes.  The slice's value is a free term of the
environment, the iteration and the memory it reads, so two evaluations are equal exactly when
they saw the same inputs.  Pointers alias exactly when they address a common location: the
most precise sound alias analysis.

`LazyCall`'s variables are the caller's control point, its formal arguments (`env`), the
iteration of a loop around the call, memory, and the thunk with the four parts that
`computeStructType` lays out.  `Def` stands for the initialisation code in place of the
argument's definition, `Use` for the calls that `updateThunkArgUses` inserts (directly in the
caller, through the function pointer in the cloned callee), `MemoHit` and `Evaluate` for the
two ways through a delegate, `Call` for the rewritten call.  `CallerWrite` and `CalleeWrite`
write anything the program may write, at any time.  `Reenter` starts another activation on
the same stack slot, with the old thunk still in it; `Init` gives the slot arbitrary contents.
`strict` and `evals` are history variables.

That the delegate's body computes the slice's value is an assumption here.  `Outline` examines
it, and shows for which functions it holds.

`canOutline` alone does not make lazification sound.  What is missing is the predicate
`Quiet`: the callee reaches what the slice reads at most through pointer arguments that the
slice computes too; no write of the caller reaches what the slice's calls read; the slice reads
none of its own stack slots; its calls return; and a value nested deeper than the call does
not vary with the loop around the call (in SSA form such a value reaches the call through a
phi at the call's depth, so that clause describes the IR rather than restricting it).  The
theorems assume it, and two runs show what happens when the first or the second clause does
not hold.

### Slicing and outlining (`ControlFlow`, `ProgramSlice`, `Outline`)

A function is a graph of blocks with instructions in SSA form, terminators among them.
Dominance and postdominance are defined by the paths that avoid a block; both trees come from
LLVM in the code.  `getController` and `computeGates` follow the code: for each predecessor of
a block with phis, the predecessor itself if it dominates the block and is not postdominated by
it, else the nearest dominator that the predecessor does not postdominate.

`ProgramSlice` is the walk of `get_data_dependences_for`, one queued value a step, in any order.
It keeps the code's asymmetry: an operand is marked when it is queued, a gate only if it is
also met as an operand, so a gate may be walked several times.  `EndWalk` computes the
attractors, as the constructor does.

`Outline` has three phases.  `outline` is one step, since nothing runs beside the compiler: it
asks the part of `canOutline` that is about the slice's shape, gives each cloned block without
terminator a branch (`Targets`), redirects the others to attractors (`Attracted`), trims phis
and chooses the entry (`reorderBlocks`).  Where the code's result depends on the order of blocks
in a set of pointers, every outcome is allowed.  Then the original function runs up to the value
(phase `"caller"`: `Execute` an instruction, `CallerBranches`), and the delegate runs on the
arguments that the thunk holds (`CallDelegate`, `Execute`, `DelegateBranches`, `DelegateReturns`).
Instructions are uninterpreted: a value is the term that computed it, and a branch chooses freely on
a value it has not seen and repeats its choice on one that it has.  Equality of terms is therefore
equality for every program of that shape.  The history variable `trail` has one entry for each block
of the slice that the function passed: the values at its end and where it branched.  The delegate
may not pass more blocks than that (`DelegateFails`), so a delegate that loops for ever is wrong too.

`updatePHINodes` removes entries of a phi while its index runs to the old count, so an entry that
follows a removed one can stay (`Trimmed`, `Skipped`, over every order in which the phi may list its
blocks).  It is for an edge that the delegate does not have, so no run of the delegate meets it,
although LLVM's verifier would.  And two stale entries around a live one, or three stale ones alone,
make the code remove a block that is gone, at index -1 (`Overruns`): the pass fails an assertion or
touches foreign memory, and the model ends (`outline`).  16 functions of the run have a phi with such an order.
`GatesSuffice` fails for all of them, as for all functions where an entry stays.

The delegate does not always return the value.  One gate for each predecessor misses branches where
paths join before the phi (`if ((a && b) || c)`), and misses the branch that closes a do-while
loop, which nothing in it controls by that definition.  A switch left out of the slice is given
no replacement.  And where a function may return on the way to a join, the join postdominates
nothing before it: it attracts no block, and the branch that should lead to it leads past it or
nowhere (`EarlyReturn` in `MCOutline`).

`GatesSuffice` says that none of this happens, in three parts: every branch that decides whether a
block of the slice is passed on the way to the value is in the slice (`GatesComplete`); where the
delegate relies on attractors the function meets the slice again before it can return, and no
switch is left out (`NoEarlyReturn`); and the slice begins and ends outside of loops
(`OutsideLoops`).  It speaks of the function and the slice, not of the delegate.
`GatedDelegateComputesValue` says that then the delegate returns the value, for any graph,
loops included.  It goes through `BranchesFollow`, which does speak of the delegate: each of its branches
goes to the block of the slice that the function meets next.  `Straight` is a case that is always
right: no phi in the slice and no block of it in a loop (`StraightDelegateComputesValue`).

The condition is not needlessly strong.  The run has 4036 functions, of which 4020 reach the
value.  The slices of 2458 are straight, and right.  Of the others, which have phis, 1320 satisfy
`GatesSuffice` and are right; the 242 that do not satisfy it fail `BranchesFollow` as well, and
each goes wrong on some path.

### Analysis (`FindLazyfiable`)

A module of the program is a record of functions (graph, returning block, use blocks and
phi edges per argument) and calls.  Actions follow `runOnModule`: dummy uses are added, each
function is skipped or searched argument by argument, its calls are looked at, and the dummy
functions go.  One `DFS` step pops one block.  The stack is a set from which any block may be
popped, so every order of successors is covered, and more.  `mergereturn` leaves at most one
returning block (`Function`).

### Profiling (`WyInstr`)

A runtime function holds the mutex throughout, so it is one step.  The program is any program:
its threads call, evaluate, return, throw and exit in any order.  `Features` names what it does
that the runtime does not expect (a return that uses an argument, phis, exceptions over several
frames, indirect calls to code without a body, callbacks and threads); a program with none,
one thread and at most 32 arguments is `Plain`.  `calls`, `evals` and `uniq` are history: the
perfect profile.  Once the runtime has touched memory it may not (`fault`) nothing more happens.
A phi's mark runs whenever its block is entered (`PassPhi`), whichever edge was taken and however often.  An
exception leaves any number of frames (`Unwind`), after an `end_call` when instrumented code calls
`__cxa_throw`, and without one when other code throws or an exception is thrown again.

Two abstractions: an activation's site fixes the number of its arguments, and functions
entered from uninstrumented code form one site `NoSite`.

### Driver (`Lazyfication`)

`LazyCall` is about one candidate; `Lazyfication` is about what candidates do to each other.
Its state is every call of the module (callee and operands as they are now), the thunks made,
the cache of cloned callees and the value the pass would return.  `StaticTurn` is one turn of
the loop over the analysis' candidates, `ProfileTurn` one of the loop over calls with a
profile; `lazifyCallsite` and `NotLazified` are the two ways through `lazifyCallsite`.  Calls
come in any order (the candidates are ordered by address), the operands of one call from the
lowest index, and the static loop cuts the index to eight bits.

An operand is an instruction, a thunk or the result of a thunk call, which is what
`updateThunkArgUses` leaves behind.  Whether `canOutline` accepts a slice of the original code is
input (`legal`; `SliceProgram` models the test itself).  The part of the test that the pass itself
can change is computed: `stored` holds the thunks that `generateThunkInitializationCode` stores to,
and `canOutline` rejects a slice with an alloca that some store of the caller writes.  Nothing in the
driver asks whether a slice calls a thunk.  That no delegate does (`DelegatesCallNoThunk`) follows
because every thunk made before has been stored to, and fails if the initialisation takes no
store (a copy of the fields, say).  It is why a value that depends on an already lazified one is never
lazified.

Two things the model makes plain.  Every slice has a thunk type of its own, so the key of
`clonedCallees` never repeats and the cache never hits.  And since a clone has no analysis
results, a call is lazified in one operand only, however many are promising.

### Profile-guided selection (`ProfileGuided`)

`loadProfileInfo` and `shouldLazifyCallsitePGO` read the file that `WyInstr`'s `dump` wrote.  A
rate is compared with the threshold by multiplication (`ThrNum / ThrDen`); rates of doubles
that differ by rounding are not told apart from exact ones.  A report counts one call too
many: it starts at 1 (`wyinstr.cpp:22`), and `init_call` adds the first call too (`:88`), although the
profile is said to hold "the number of times the call site was called" (`Lazyfication.h:10-11`).
The code contradicts its header here: `OneCallTooMany`, a part of `WInv`, says what the reports
hold instead, and `CallsAreCounted` proves it for every program.  The extra call lowers rates: rarely used arguments are all taken (`RarelyUsedIsTaken`), at the
price of some that are not rare.

## Runs

| run | result | shows |
|---|---|---|
| `lazy_call` | passes | call by need implements call by value for accepted, quiet candidates |
| `lazy_call_globals` | violated | a callee that writes globals changes the value of the thunk |
| `lazy_call_read_calls` | violated | a read-only call of the slice runs at the use, after a store of the caller to what it reads |
| `find_lazyfiable` | passes | exact, sound and terminating on every graph of up to four blocks; searches and calls of several functions do not disturb each other |
| `outline` | passes | the walk ends with a closed slice, gates are conditional branches, the delegate is whole, it runs in step with the function where its branches follow the function's, and it returns the value when the gates suffice or the slice is straight |
| `outline_joins` | violated | the delegate of a value after a short-circuit condition takes another path than the function |
| `outline_do_while` | violated | the delegate of a value after a do-while loop leaves the loop's branch out |
| `lazyfication` | passes | the driver keeps calls, clones, values and thunks consistent in every order of candidates |
| `wyinstr` | passes | the profile of a plain program has the exact evaluations and one call too many, and selection misses no rarely used argument |
| `wyinstr_any` | passes | with two threads that call one site repeatedly and every feature, no evaluation and no use is lost |
| `wyinstr_ret_use` | violated | an argument used by the return is counted for the caller's activation |
| `pgo_selection` | violated | a call of a function without marks is selected although every call evaluates the argument |

Each violated property states a comment, header, option text or test of the repository; the findings in
`PROJECT.json` quote it.

Bounds.  `LazyCall`: two locations (one shared, one stack slot), two values and two
environments tell every write and every activation from another; `MaxIter = 1` gives two
iterations, enough for a stale value; `MaxEvals = 3` is where the counter of evaluations
saturates.  `MCLazyCall` has one slice per case of `canOutline`, with every combination of
surroundings.  `FindLazyfiable`: four blocks give diamonds, self loops, two-block loops,
critical edges and dead ends; each block has at most two successors and there are at most two
use blocks and one phi edge.  `Outline`: every acyclic graph of four blocks with every set of
updated blocks, of five blocks with three such sets (short-circuit joins and nested ifs need
five), while loops plain, with an if inside and under an if, and do-while loops of one and two
blocks, and one function of eight blocks that may return before a join; conditions on arguments of their own or on the variable, and switches.  `MaxSteps = 12`
lets the smallest loops go round five times and the largest twice; twice is where a stale phi
shows.  `Lazyfication`: three calls, two of them of one function, let one
success rewrite a call of the same and of another callee; two instructions, one in the slice of
the other or not, give shared values and thunk calls in slices; indices 0, 1 and 256 let a
truncated index meet another candidate.  `WyInstr`: `MaxDepth`, `MaxCalls` and `MaxEvals` bound the
stack, the calls per site and, over all sites, the evaluations of each argument and the marks of it by phis
(`MayEvaluate`, `MayPass`).  `wyinstr` has 3 calls of each of two sites, 4 evaluations and 4 frames, and
`wyinstr_any` 2 of each with two threads: recursion, repeated calls and repeated evaluation happen
in both, and in the second also one site called by two threads at once.  The runs `wyinstr_ret_use`
and `pgo_selection` need only one call.  The run `wyinstr` uses arguments 0 and 31, the
lowest bit and the one whose mask is sign-extended over bits 31 to 63.  The threshold is 3/5 there, which one call too many in the
report can cross, and the default 2/5 in `pgo_selection`.

Deadlock is checked except for `WyInstr`, where the process ends.

Fairness.  `Terminates` of `FindLazyfiable` assumes weak fairness of the whole step relation, and
`WalkEnds` of `Outline` weak fairness of the walk: both are loops of one thread that keeps
running.  `WalkEnds` is not obvious because gates are queued without being marked.

## Proofs

`LazyCallProofs`, from `\A p \in Prog : Quiet(p)`.  `UseSeesStrictValue` is not inductive: a
use reads memory, so the proof needs that the delegate *would* still compute the strict value.
`IInv` says so (`SliceIsStable`, over every content of the delegate's own stack slots), ties the
memo flag to the number of evaluations (`EvalsMatchFlag`) and to the value (`ThunkIsCurrent`).
Writes preserve it because accepted, quiet candidates never write what their slice reads; one
lemma collects these facts from `canOutline` and `Quiet`.  Refinement
(`LazyImplementsStrict`) then maps each action to its namesake in `StrictCall`; a lazy use is a
strict use because it observes the strict value and, the slice being without effects, changes no
memory.

`FindLazyfiableProofs`, from the shape of modules only.  Reachability is stated by closed sets,
which needs no induction.  `SearchIsRight` is the loop invariant: visited blocks are in every
closed set, and popped ones were expanded or hold a use.  When the stack is empty the visited
set is itself closed, so an exit outside it is unreachable.  Soundness for executions follows
because every set closed along edges that carry no phi use contains what the search reaches.

`WyInstrProofs`.  Three theorems hold for programs with any number of threads and all features.
`CallsAreCounted` (`OneCallTooMany`) says that a report counts exactly one call more than were made.
`EvaluationsAreCounted` and `UsesAreCounted` compare totals over all sites, since a mark may land in
another site's report than it belongs to.  The totals are cardinalities of sets of pairs (site, number), so that
no sum has to be taken by induction (`Counts`, `CountOne`).  `EvalsInv` adds that the sets are finite:
a mark adds one pair to the counted ones while at most one evaluation is added to the others.  For the
unique counters that is not inductive, since a phi's mark is counted, and its bit set, before the
activation evaluates the argument, and the evaluation is then not counted again.  `UsesInv` counts
what is still owed in this way (`Pending`) on the side of the history; it needs that each
argument has a bit of its own, hence at most 32 of them.  An exception or a lost stack entry
only removes what is owed.  For plain programs `WInv` says
that the shadow stack holds the sites of the open activations in order (`StackMatches`), that
an activation's bitmap is the set it used (`BitsAreRight`, with the sign-extended bit 31), that
reports exist and have room, and how the dump relates to the end of the process.

`ProfileGuidedProofs`, for plain programs and any threshold: the dump equals the profile, whose
unique evaluations are exact and whose calls are one more than the real ones, so a rate below
the threshold stays below it.

`LazyficationProofs`, from the shape of modules only.  That a call's operand still denotes its
original value needs that thunks were made of original instructions (`ThunksArePlain`) and
that an operand lazified now is one; the latter follows because a thunk operand sits only where
the callee expects one, which is nowhere in a call that is not yet a clone, and a thunk call is
rejected by `canOutline`'s test of allocas.  That the test rejects it needs `ThunksAreStored`: the
initialisation has stored to every thunk that exists.  `CacheIsRight` covers the cache whether or not it hits, and
`TodoIsFresh` the `break` of the profile-guided loop.

`ProgramSliceProofs`, from the shape of functions only (`IsFunction`).  `SliceIsClosed` speaks of the end
of the walk; `WalkInv` is what makes it inductive: a value of the slice is still queued, or all
its operands and gates are in the slice or queued, so an empty queue leaves a closed set.
`SliceLeast` adds that the slice is the least closed set with the value in it, hence the same
in every order of the queue.  `GatesConditional` is the assertion in `getGate`
("Inconditional terminator!"): a controller is a block that something it dominates does not
postdominate, and if it had one successor, every path from it would go on through that
successor and the block would postdominate it after all.  The argument needs that no loop is
without exit, an assumption of `IsFunction`; in a function that never returns the assertion is
not covered.

`OutlineProofs`.  `OutlineImplementsWalk` (`Spec => WalkSpec`) carries the results about
the walk over to the composed system.  `DelegateIsWhole` shows that branches of the delegate lead
only to cloned blocks or to the unreachable block, because attractors are chosen from the blocks
of the slice.  The rest of the module is the argument about graphs, `GatesSufficeToFollow`
(`GatesSuffice` implies `BranchesFollow`), from lemmas about paths in `ProgramSliceProofs`:

1. From every block of the slice the value can be reached (`SliceLeads`): the blocks of the values
   from which it cannot are no part of the least closed set.
2. If the gates are complete, only one block of the slice can come first on the way from a block
   (`AheadUnique`), and from all the successors of a block whose branch is not in the slice it is
   the same one (`AheadOfOpen`): a block that comes first on one path is passed on every path to the value
   (`AheadOnTheWay`), and of two blocks that are passed on every path only one is first.
3. That block is the attractor of the branch's target, unless the function may return before it
   (`AttractedAhead`), and it is the one block of the slice that the branching block dominates most closely
   (`DominatedAhead`).
4. The block that comes first from the function's entry has no predecessor in the delegate, and all
   others have one, so `reorderBlocks` finds it (`EntryAhead`).

`StraightSuffices` shows that a straight slice meets `GatesSuffice`: its blocks lie on a chain of
dominators, since every operand's block dominates its user's, so no branch decides anything.

`DelegateProofs`.  `GuidedDelegateComputesValue` speaks of the end of two runs; `RunInv` is what makes
it inductive.  It says of `trail` that each entry follows from the one before
(`TrailLinked`): values of the slice outside the block are unchanged, its instructions were computed
from their operands, its phis from the values at the previous entry.  Both runs are then compared with the
trail rather than with each other: the function, between blocks of the slice, still has the values of
the last entry (`CallerOn`), and the delegate in its n-th block agrees with entry n + 1 on all it has
computed (`DelegateOn`).  Dominance does the work in the step from block to block: an operand was computed in a block that
dominates its user, so a block of the slice that is passed again cannot leave a stale operand behind,
and a block outside the slice computes nothing of it.  Equal values make equal branches, since a
branch repeats its choice.  `GatedDelegateCorrect` and `StraightDelegateCorrect` combine this with
the argument about graphs.  These theorems use `InSSA`, the part of `IsFunction` that LLVM's verifier checks.

All are proved for every value of the constants that satisfies the named assumptions.

Only model-checked: `Terminates` and `WalkEnds` (liveness), and everything the violated runs show.
Every invariant of a passing run is a theorem.

## Not modelled, and the plan

1. A composition of `Outline` with `SliceProgram` and `Lazyfication`, so that `legal` and `slice`
   are computed rather than given, and of `FindLazyfiable`'s results with `Lazyfication`'s
   `sites` and `promising`.
2. In `ProgramSlice`: blocks that end in an invoke (`getGate` then returns an uninitialised
   pointer), several edges between the same two blocks, and loops without an exit.
3. The converse of `GatedDelegateComputesValue` (where the gates do not suffice and the slice has a phi, some path goes wrong)
   holds for all functions of the run; it says that something is possible, which an invariant
   cannot.

Not covered by a property: the pass returns the outcome of its last candidate
(`Lazyfication.cpp:555`), which the model keeps as `changed` and nothing in the repository
contradicts; the eight-bit counter of the profile-guided loop, which does not end for calls of
256 or more arguments; profile rows that are matched after other passes renumbered the
instructions; `main`'s report with room for two arguments only, and the `int8_t` count of
arguments (`wyinstr.cpp:51`, `:62`); the attribute `ReadOnly` on a delegate that writes its thunk
(`ProgramSlice.cpp:934`), whose effect lies in later LLVM passes.

Left out for good: the LLVM passes and analyses used (external), printing and debug output,
the result script, and memory corruption inside LLVM (`removeDummyFunctions` erases users
while it iterates over them).

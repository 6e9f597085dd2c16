---------------------------- MODULE SliceProgram ----------------------------
(***************************************************************************)
(* What the lazification pass sees of one candidate: a caller, the slice   *)
(* that computes one actual argument of a call in it, and the call.  The   *)
(* module has no state: it holds the vocabulary shared by the semantics of *)
(* the original program (StrictCall) and of the lazified one (LazyCall),   *)
(* and the legality test ProgramSlice::canOutline.                         *)
(*                                                                         *)
(* Memory is a set of abstract locations.  Two pointers may alias exactly  *)
(* when they address a common location: the most precise sound alias       *)
(* analysis, so canOutline accepts here at least what it accepts with the  *)
(* alias analyses LLVM provides.                                           *)
(***************************************************************************)
EXTENDS Integers

CONSTANTS Loc,      \* abstract memory locations
          Val,      \* contents of a location
          Env,      \* tuples of values of the caller's formal arguments
          Prog,     \* the candidates examined
          MaxIter   \* iterations of a loop around the call

(***************************************************************************)
(* An instruction of the slice.  addr is the set of locations that its     *)
(* result may address, empty when the result is not a pointer; target is   *)
(* where a call goes: a function with a body, a recognised library         *)
(* function, any other declaration, or an indirect callee.  A load writes  *)
(* nothing and completes.                                                  *)
(***************************************************************************)
AnyInst == [kind : {"alloca", "load", "call", "other"},
            target : {"body", "libfunc", "extern", "indirect"},
            reads : SUBSET Loc, writes : SUBSET Loc, addr : SUBSET Loc,
            throws : BOOLEAN, returns : BOOLEAN]
Inst == {i \in AnyInst : i.kind = "load" => i.writes = {} /\ i.returns}

(***************************************************************************)
(* A candidate.  stores, calls and loads describe the rest of the caller:  *)
(* locations its store instructions write, its other calls may write and   *)
(* its loads read.  args are the locations addressed by the other pointer  *)
(* arguments of the call, calleeWrites those the callee may write.         *)
(* callDepth is the loop depth of the call, sliceDepths the loop depths of *)
(* the slice's blocks, and carried says that the value differs between     *)
(* iterations of the loop around the call.  lcssa says that the slicing    *)
(* criterion is a single-entry phi whose loop's exit branch is not in the  *)
(* slice.                                                                  *)
(***************************************************************************)
ProgType == [slice : SUBSET Inst, initial : Inst, memo : BOOLEAN,
             stores : SUBSET Loc, calls : SUBSET Loc, loads : SUBSET Loc,
             args : SUBSET Loc, calleeWrites : SUBSET Loc,
             callDepth : 0 .. 1, sliceDepths : SUBSET (0 .. 2),
             carried : BOOLEAN, lcssa : BOOLEAN]

ASSUME ProgAssumption == Prog \subseteq ProgType
ASSUME ValAssumption == Val # {}
ASSUME IterAssumption == MaxIter \in Nat

-----------------------------------------------------------------------------
Reads(p) == UNION {i.reads : i \in p.slice}
SliceWrites(p) == UNION {i.writes : i \in p.slice}

\* Locations of the stack slots that the slice itself allocates.
AllocasInSlice(p) ==
    UNION {i.addr : i \in {j \in p.slice : j.kind = "alloca"}}

\* Locations in an alias set that is modified somewhere in the caller.  The
\* candidate's own call is not added to the tracker.
IsMod(p) == p.stores \cup p.calls \cup SliceWrites(p)

MayReadOrWriteMemory(i) == i.reads # {} \/ i.writes # {}

\* An alloca of the slice is written by a store of the caller, or loaded by
\* it while its alias set is modified.
AllocaClobbered(p) ==
    \/ p.stores \cap AllocasInSlice(p) # {}
    \/ p.loads \cap IsMod(p) \cap AllocasInSlice(p) # {}

CallIsKnown(i) == i.kind = "call" => i.target \in {"body", "libfunc"}

\* Faulty variant of MemoryIsSafe: calls that write memory are accepted.
WritingCallsAreSafe(p, i) ==
    IF MayReadOrWriteMemory(i)
    THEN i.kind = "call" \/ (i.kind = "load" /\ i.reads \cap IsMod(p) = {})
    ELSE i.returns

\* No load of the slice is reordered with a write of the caller, and no
\* instruction of the slice has a side effect on memory.
MemoryIsSafe(p, i) ==
    IF MayReadOrWriteMemory(i)
    THEN \/ i.kind = "load" /\ i.reads \cap IsMod(p) = {}
         \/ i.kind = "call" /\ i.writes = {}
    ELSE i.returns

\* Faulty variant of NotPassed: the arguments of the call are not compared.
PassedIsSafe(p, i) == TRUE

\* No pointer computed by the slice is handed to the callee as well.
NotPassed(p, i) == i.addr \cap p.args = {}

\* Faulty variant of LoopIsSafe: the slice may share the call's loop.
SameLoopIsSafe(p) == p.callDepth > 0 => \E d \in p.sliceDepths : d >= p.callDepth

\* A call in a loop needs a slice nested strictly deeper than the call.
LoopIsSafe(p) == p.callDepth > 0 => \A d \in p.sliceDepths : d > p.callDepth

canOutline(p) ==
    /\ ~AllocaClobbered(p)
    /\ \A i \in p.slice : /\ ~i.throws
                          /\ CallIsKnown(i)
                          /\ MemoryIsSafe(p, i)
                          /\ NotPassed(p, i)
    /\ LoopIsSafe(p)
    /\ p.initial.kind # "alloca"
    /\ ~p.lcssa

-----------------------------------------------------------------------------
(***************************************************************************)
(* What canOutline leaves to the rest of the program.  A candidate is      *)
(* quiet when                                                              *)
(*   - the callee reaches a location the slice reads at most through a     *)
(*     pointer argument that the slice computes too (NotPassed covers it); *)
(*   - no write of the caller reaches what the slice's calls read;         *)
(*   - the slice reads none of the stack slots it allocates;               *)
(*   - the slice's calls return;                                           *)
(*   - a slice nested deeper than the call does not vary with the loop     *)
(*     around the call (such a value would reach the call through a phi at *)
(*     the call's own depth, which LoopIsSafe rejects).                    *)
(***************************************************************************)
CallReads(p) == UNION {i.reads : i \in {j \in p.slice : j.kind = "call"}}
Addressed(p) == UNION {i.addr : i \in p.slice}

CalleeIsQuiet(p) == p.calleeWrites \cap Reads(p) \subseteq p.args \cap Addressed(p)
CallsAreQuiet(p) == (p.stores \cup p.calls) \cap CallReads(p) = {}
AllocasAreQuiet(p) == Reads(p) \cap AllocasInSlice(p) = {}
CallsReturn(p) == \A i \in p.slice : i.kind = "call" => i.returns
LoopIsQuiet(p) ==
    p.carried /\ p.callDepth > 0 => \E d \in p.sliceDepths : d <= p.callDepth

Quiet(p) == /\ CalleeIsQuiet(p) /\ CallsAreQuiet(p) /\ AllocasAreQuiet(p)
            /\ CallsReturn(p) /\ LoopIsQuiet(p)

-----------------------------------------------------------------------------
(***************************************************************************)
(* The value of the slice is a free term of what it depends on: the formal *)
(* arguments, the iteration, the memory it reads, and the stack frame when *)
(* the value is the address of a stack slot.                               *)
(***************************************************************************)
Term(p, e, it, frame, m) ==
    [env |-> e, iter |-> it,
     frame |-> IF p.initial.kind = "alloca" THEN frame ELSE "any",
     reads |-> [l \in Reads(p) |-> m[l]]]

\* The iteration whose value the original program passes to the call.
StrictIter(p, it) == IF p.lcssa THEN 1 ELSE IF p.carried THEN it ELSE 0

\* Evaluation where the original program evaluates it.
StrictEval(p, e, it, m) == Term(p, e, StrictIter(p, it), "caller", m)

\* The delegate runs the slice from the start of its own frame, on its own
\* copies of the slice's stack slots, which hold whatever the stack held.
DelegateEval(p, e, m, junk) ==
    Term(p, e, 0, "delegate",
         [l \in Loc |-> IF l \in AllocasInSlice(p) THEN junk[l] ELSE m[l]])

\* The slice's side effects: it overwrites what its instructions write.
Effects(p, m) ==
    {n \in [Loc -> Val] : \A l \in Loc \ SliceWrites(p) : n[l] = m[l]}

\* Evaluating the slice does not complete normally.
Abrupt(p) == \E i \in p.slice : i.throws \/ ~i.returns
=============================================================================

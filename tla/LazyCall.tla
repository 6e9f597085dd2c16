------------------------------ MODULE LazyCall ------------------------------
(***************************************************************************)
(* The lazified program around one call: call by need through a thunk.     *)
(* At the definition of the argument the caller only fills in a thunk on   *)
(* its stack; the call passes the thunk; every use, in the cloned callee   *)
(* or in the caller, calls the delegate function, which runs the slice on  *)
(* the thunk's environment and on the memory of that moment.  A memoised   *)
(* delegate records its result in the thunk and returns it afterwards.     *)
(*                                                                         *)
(* strict is a history variable: the value the original program computes   *)
(* at the definition.  evals counts the runs of the slice since the        *)
(* definition, up to MaxEvals.                                             *)
(***************************************************************************)
EXTENDS SliceProgram

CONSTANT MaxEvals   \* the count of evaluations saturates here

VARIABLES prog, pc, env, iter, mem,
          thunk,    \* the thunk on the caller's stack
          strict,   \* history: the value of the original program
          seen,     \* value observed by the last use since the definition
          evals     \* runs of the slice since the definition

vars == <<prog, pc, env, iter, mem, thunk, strict, seen, evals>>

ASSUME EvalsAssumption == MaxEvals \in Nat /\ MaxEvals > 1

NoVal == [env |-> "none"]

\* Only candidates that pass the legality test are lazified.  The thunk's
\* stack slot starts with arbitrary contents.
Init == /\ prog \in {p \in Prog : canOutline(p)}
        /\ pc = "before" /\ env \in Env /\ iter = 0
        /\ mem \in [Loc -> Val]
        /\ \E f \in BOOLEAN, e \in Env :
              thunk = [fptr |-> "none", val |-> NoVal, flag |-> f, env |-> e]
        /\ strict = NoVal /\ seen = NoVal /\ evals = 0

CallerWrite == /\ pc \in {"before", "defined", "after"}
               /\ \E l \in prog.stores \cup prog.calls, v \in Val :
                     mem' = [mem EXCEPT ![l] = v]
               /\ UNCHANGED <<prog, pc, env, iter, thunk, strict, seen, evals>>

\* Faulty variants of InitialisedThunk: the memo flag keeps what the stack
\* held; the environment overwrites the memo value instead of its own field.
StaleFlagThunk == [thunk EXCEPT !.fptr = "delegate", !.env = env]
MisplacedEnvThunk ==
    [thunk EXCEPT !.fptr = "delegate",
                  !.flag = IF prog.memo THEN FALSE ELSE @,
                  !.val = env]

\* The thunk as the initialisation code leaves it: the function pointer and
\* the environment are stored; the memo flag is cleared in memoised thunks;
\* the memo value is not touched.
InitialisedThunk ==
    [thunk EXCEPT !.fptr = "delegate",
                  !.flag = IF prog.memo THEN FALSE ELSE @,
                  !.env = env]

\* The definition of the argument: only the thunk is initialised.
Def == /\ pc = "before" /\ pc' = "defined"
       /\ thunk' = InitialisedThunk
       /\ strict' = StrictEval(prog, env, iter, mem)
       /\ seen' = NoVal /\ evals' = 0
       /\ UNCHANGED <<prog, env, iter, mem>>

\* The memoised delegate returns the recorded value.
MemoHit == /\ prog.memo /\ thunk.flag
           /\ seen' = thunk.val
           /\ UNCHANGED <<pc, mem, thunk, evals>>

\* Faulty variant of Memoised: the flag is not set with the value.
ValueOnlyMemoised(v) == IF prog.memo THEN [thunk EXCEPT !.val = v] ELSE thunk

\* The thunk after the delegate has computed v.
Memoised(v) == IF prog.memo THEN [thunk EXCEPT !.flag = TRUE, !.val = v] ELSE thunk

\* The delegate runs the slice.
Evaluate == /\ ~(prog.memo /\ thunk.flag)
            /\ \E junk \in [AllocasInSlice(prog) -> Val] :
                  LET v == DelegateEval(prog, thunk.env, mem, junk)
                  IN  seen' = v /\ thunk' = Memoised(v)
            /\ mem' \in Effects(prog, mem)
            /\ evals' = IF evals < MaxEvals THEN evals + 1 ELSE evals
            /\ pc' = IF Abrupt(prog) THEN "stopped" ELSE pc

\* A use in the caller calls the delegate directly, a use in the callee
\* calls it through the function pointer of the thunk.
Use == /\ \/ pc \in {"defined", "after"}
          \/ pc = "callee" /\ thunk.fptr = "delegate"
       /\ MemoHit \/ Evaluate
       /\ UNCHANGED <<prog, env, iter, strict>>

Call == /\ pc = "defined" /\ pc' = "callee"
        /\ UNCHANGED <<prog, env, iter, mem, thunk, strict, seen, evals>>

CalleeWrite == /\ pc = "callee"
               /\ \E l \in prog.calleeWrites, v \in Val :
                     mem' = [mem EXCEPT ![l] = v]
               /\ UNCHANGED <<prog, pc, env, iter, thunk, strict, seen, evals>>

Return == /\ pc = "callee" /\ pc' = "after"
          /\ UNCHANGED <<prog, env, iter, mem, thunk, strict, seen, evals>>

NextIteration == /\ pc = "after" /\ prog.callDepth = 1 /\ iter < MaxIter
                 /\ pc' = IF prog.sliceDepths # {0} THEN "before" ELSE "defined"
                 /\ iter' = iter + 1
                 /\ UNCHANGED <<prog, env, mem, thunk, strict, seen, evals>>

\* The caller returns and is called again; its new frame may reuse the stack
\* slot, so the thunk keeps its stale contents.
Reenter == /\ pc = "after" /\ pc' = "before"
           /\ env' \in Env /\ iter' = 0
           /\ strict' = NoVal /\ seen' = NoVal /\ evals' = 0
           /\ UNCHANGED <<prog, mem, thunk>>

Next == \/ CallerWrite \/ Def \/ Use \/ Call \/ CalleeWrite \/ Return
        \/ NextIteration \/ Reenter

Spec == Init /\ [][Next]_vars

-----------------------------------------------------------------------------
Value(p) == [env : Env, iter : Nat, frame : {"any", "caller", "delegate"},
             reads : [Reads(p) -> Val]]

\* Type correctness: every field of the thunk keeps its type although the
\* memo value is not initialised with the rest of the thunk.
TypeOK ==
    /\ prog \in ProgType
    /\ pc \in {"before", "defined", "callee", "after", "stopped"}
    /\ env \in Env /\ iter \in 0 .. MaxIter /\ mem \in [Loc -> Val]
    /\ thunk \in [fptr : {"none", "delegate"}, val : Value(prog) \cup {NoVal},
                  flag : BOOLEAN, env : Env]
    /\ strict \in Value(prog) \cup {NoVal}
    /\ seen \in Value(prog) \cup {NoVal}
    /\ evals \in 0 .. MaxEvals

\* Lazification preserves the value (ProgramSlice.h: "safely outlined"):
\* whatever the caller and the callee wrote since the definition, a use of
\* the thunk observes the value the original program passed to the call.
UseSeesStrictValue == seen # NoVal => seen = strict

\* Memoisation (addMemoizationCode): within one definition the slice of a
\* memoised thunk runs at most once, however often it is used.
EvaluatedAtMostOnce == prog.memo => evals <= 1

\* A use never meets a thunk of an earlier definition or activation
\* (generateThunkInitializationCode): between the definition and the last
\* use the thunk's environment is this activation's, and a set memo flag
\* guards the value of this definition.
ThunkIsCurrent ==
    pc \in {"defined", "callee", "after"} =>
        /\ thunk.fptr = "delegate" /\ thunk.env = env
        /\ prog.memo /\ thunk.flag => thunk.val = strict

\* The lazified program implements the original one: call by need refines
\* call by value, with the history variable as the argument's value.
Strict == INSTANCE StrictCall WITH val <- strict
ImplementsStrictCall == Strict!Spec

-----------------------------------------------------------------------------
(***************************************************************************)
(* The inductive invariant.  Since the definition, no write has reached    *)
(* what the slice reads, so the delegate would still compute the strict    *)
(* value, and everything cached or observed is that value.                 *)
(***************************************************************************)
Live == pc \in {"defined", "callee", "after"}

SliceIsStable ==
    Live => \A junk \in [AllocasInSlice(prog) -> Val] :
                DelegateEval(prog, env, mem, junk) = strict

EvalsMatchFlag ==
    Live /\ prog.memo => (evals = 0 /\ ~thunk.flag) \/ (evals = 1 /\ thunk.flag)

IInv == /\ TypeOK /\ pc # "stopped" /\ canOutline(prog) /\ Quiet(prog)
        /\ (iter > 0 => prog.callDepth = 1)
        /\ SliceIsStable /\ ThunkIsCurrent
        /\ UseSeesStrictValue /\ EvalsMatchFlag /\ EvaluatedAtMostOnce
=============================================================================

--------------------------- MODULE LazyCallProofs ---------------------------
(***************************************************************************)
(* Proofs about LazyCall, for every set of locations, values, environments *)
(* and candidates whose surroundings are quiet.                            *)
(***************************************************************************)
EXTENDS LazyCall, TLAPS

\* A slice's value depends on memory only through the locations it reads:
\* two memories that agree on them give the same term (get_data_dependences).
LEMMA TermDependsOnReads ==
    ASSUME NEW p, NEW e, NEW it, NEW f, NEW m1, NEW m2,
           \A l \in Reads(p) : m1[l] = m2[l]
    PROVE  Term(p, e, it, f, m1) = Term(p, e, it, f, m2)
BY DEF Term

\* What a quiet candidate that passes canOutline looks like at run time: no
\* write of the caller or of the callee reaches the slice's reads, the slice
\* reads none of its own stack slots, has no side effect and completes.
LEMMA AcceptedIsIsolated ==
    ASSUME NEW p \in ProgType, canOutline(p), Quiet(p)
    PROVE  /\ (p.stores \cup p.calls) \cap Reads(p) = {}
           /\ p.calleeWrites \cap Reads(p) = {}
           /\ Reads(p) \cap AllocasInSlice(p) = {}
           /\ SliceWrites(p) = {}
           /\ ~Abrupt(p)
<1>1. ASSUME NEW i \in p.slice
      PROVE  i \in Inst /\ i.writes = {} /\ i.returns = TRUE /\ i.throws = FALSE
  <2>1. i \in Inst /\ MemoryIsSafe(p, i) /\ ~i.throws
    BY DEF canOutline, ProgType
  <2>2. CASE ~MayReadOrWriteMemory(i)
    BY <2>1, <2>2 DEF MemoryIsSafe, MayReadOrWriteMemory, Inst, AnyInst
  <2>3. CASE i.kind = "call" /\ MayReadOrWriteMemory(i)
    BY <2>1, <2>3 DEF MemoryIsSafe, Quiet, CallsReturn, Inst, AnyInst
  <2>4. CASE i.kind = "load"
    BY <2>1, <2>4 DEF Inst, AnyInst
  <2> QED BY <2>1, <2>2, <2>3, <2>4 DEF MemoryIsSafe
<1>2. SliceWrites(p) = {}
  BY <1>1 DEF SliceWrites
<1>3. ~Abrupt(p)
  BY <1>1 DEF Abrupt
<1>4. Reads(p) \cap AllocasInSlice(p) = {}
  BY DEF Quiet, AllocasAreQuiet
<1>5. ASSUME NEW i \in p.slice, NEW l \in i.reads
      PROVE  l \notin p.stores \cup p.calls
  <2>1. i \in Inst /\ MemoryIsSafe(p, i) /\ MayReadOrWriteMemory(i)
    BY <1>1 DEF canOutline, MayReadOrWriteMemory
  <2>2. CASE i.kind = "load" /\ i.reads \cap IsMod(p) = {}
    BY <2>2 DEF IsMod
  <2>3. CASE i.kind = "call"
    BY <2>3 DEF Quiet, CallsAreQuiet, CallReads
  <2> QED BY <2>1, <2>2, <2>3 DEF MemoryIsSafe
<1>6. (p.stores \cup p.calls) \cap Reads(p) = {}
  BY <1>5 DEF Reads
<1>7. p.calleeWrites \cap Reads(p) = {}
  <2>1. p.args \cap Addressed(p) = {}
    BY DEF canOutline, NotPassed, Addressed
  <2> QED BY <2>1 DEF Quiet, CalleeIsQuiet
<1> QED BY <1>2, <1>3, <1>4, <1>6, <1>7

\* The delegate computes the original value as long as the memory the slice
\* reads is the same: the iteration, the frame and the stack slots do not
\* matter for an accepted candidate.
LEMMA DelegateIsStrict ==
    ASSUME NEW p \in ProgType, canOutline(p), Quiet(p),
           NEW e, NEW it \in Nat, it > 0 => p.callDepth = 1, NEW m, NEW junk
    PROVE  DelegateEval(p, e, m, junk) = StrictEval(p, e, it, m)
<1> DEFINE d == [l \in Loc |-> IF l \in AllocasInSlice(p) THEN junk[l] ELSE m[l]]
<1>1. Reads(p) \subseteq Loc
  BY DEF Reads, ProgType, Inst, AnyInst
<1>2. \A l \in Reads(p) : d[l] = m[l]
  BY <1>1, AcceptedIsIsolated
<1>3. StrictIter(p, it) = 0
  BY DEF canOutline, Quiet, LoopIsQuiet, LoopIsSafe, StrictIter, ProgType
<1> HIDE DEF d
<1>4. Term(p, e, 0, "delegate", d) = Term(p, e, 0, "delegate", m)
  BY <1>2, TermDependsOnReads
<1>5. Term(p, e, 0, "delegate", m) = Term(p, e, 0, "caller", m)
  BY DEF Term, canOutline
<1> QED BY <1>3, <1>4, <1>5 DEF DelegateEval, StrictEval, d

\* The delegate's result depends on memory only through what the slice reads.
LEMMA DelegateDependsOnReads ==
    ASSUME NEW p \in ProgType, NEW e, NEW m, NEW n, NEW junk,
           \A l \in Reads(p) : n[l] = m[l]
    PROVE  DelegateEval(p, e, n, junk) = DelegateEval(p, e, m, junk)
<1> DEFINE d1 == [l \in Loc |-> IF l \in AllocasInSlice(p) THEN junk[l] ELSE n[l]]
           d2 == [l \in Loc |-> IF l \in AllocasInSlice(p) THEN junk[l] ELSE m[l]]
<1>1. Reads(p) \subseteq Loc
  BY DEF Reads, ProgType, Inst, AnyInst
<1>2. \A l \in Reads(p) : d1[l] = d2[l]
  BY <1>1
<1> HIDE DEF d1, d2
<1>3. Term(p, e, 0, "delegate", d1) = Term(p, e, 0, "delegate", d2)
  BY <1>2, TermDependsOnReads
<1> QED BY <1>3 DEF DelegateEval, d1, d2

\* Evaluation, in the caller's frame or in a delegate's, yields a value of
\* the right type.
LEMMA EvalType ==
    ASSUME NEW p \in ProgType, NEW e \in Env, NEW it \in Nat, NEW m \in [Loc -> Val]
    PROVE  StrictEval(p, e, it, m) \in Value(p)
<1>1. Reads(p) \subseteq Loc
  BY DEF Reads, ProgType, Inst, AnyInst
<1>2. StrictIter(p, it) \in Nat
  BY DEF StrictIter
<1> QED BY <1>1, <1>2 DEF StrictEval, Term, Value

-----------------------------------------------------------------------------
\* The inductive invariant of LazyCall holds initially: nothing is defined.
LEMMA InitEstablishes ==
    ASSUME \A p \in Prog : Quiet(p), Init
    PROVE  IInv
<1>1. prog \in ProgType /\ canOutline(prog) /\ Quiet(prog)
  BY ProgAssumption DEF Init
<1>2. TypeOK
  BY <1>1, IterAssumption, EvalsAssumption DEF Init, TypeOK
<1> QED BY <1>1, <1>2, EvalsAssumption
        DEF Init, IInv, Live, SliceIsStable, ThunkIsCurrent,
            UseSeesStrictValue, EvalsMatchFlag, EvaluatedAtMostOnce

\* A write to a location the slice does not read keeps the invariant
\* (stores and calls of the caller, writes of the callee).
LEMMA WriteKeeps ==
    ASSUME IInv, NEW x \in Loc, NEW v \in Val, x \notin Reads(prog),
           mem' = [mem EXCEPT ![x] = v],
           UNCHANGED <<prog, pc, env, iter, thunk, strict, seen, evals>>
    PROVE  IInv'
<1>1. prog \in ProgType
  BY ProgAssumption DEF IInv, TypeOK
<1>2. TypeOK'
  BY DEF IInv, TypeOK, Value
<1>3. SliceIsStable'
  <2> SUFFICES ASSUME Live, NEW junk \in [AllocasInSlice(prog) -> Val]
               PROVE  DelegateEval(prog, env, mem', junk) = strict
    BY DEF SliceIsStable, Live
  <2>1. DelegateEval(prog, env, mem, junk) = strict
    BY DEF IInv, SliceIsStable
  <2>2. \A l \in Reads(prog) : mem'[l] = mem[l]
    BY DEF IInv, TypeOK
  <2>3. DelegateEval(prog, env, mem', junk) = DelegateEval(prog, env, mem, junk)
    BY ONLY <1>1, <2>2, DelegateDependsOnReads
  <2> QED BY <2>1, <2>3
<1> QED BY <1>2, <1>3 DEF IInv, Live, ThunkIsCurrent, UseSeesStrictValue,
                          EvalsMatchFlag, EvaluatedAtMostOnce

\* The definition of the argument establishes the part of the invariant that
\* is about a live thunk (generateThunkInitializationCode).
LEMMA DefKeeps ==
    ASSUME \A p \in Prog : Quiet(p), IInv, Def
    PROVE  IInv'
<1>1. /\ prog \in ProgType /\ canOutline(prog) /\ Quiet(prog)
      /\ iter \in Nat
      /\ iter > 0 => prog.callDepth = 1
      /\ mem \in [Loc -> Val] /\ env \in Env
  BY ProgAssumption, IterAssumption DEF IInv, TypeOK
<1>2. strict' = StrictEval(prog, env, iter, mem) /\ strict' \in Value(prog)
  BY <1>1, EvalType DEF Def
<1>3. /\ thunk'.fptr = "delegate" /\ thunk'.env = env /\ thunk'.val = thunk.val
      /\ prog.memo => thunk'.flag = FALSE
      /\ thunk' \in [fptr : {"none", "delegate"}, val : Value(prog) \cup {NoVal},
                     flag : BOOLEAN, env : Env]
  BY <1>1 DEF Def, InitialisedThunk, IInv, TypeOK
<1>4. TypeOK'
  BY <1>1, <1>2, <1>3, EvalsAssumption DEF Def, IInv, TypeOK, Value
<1>5. SliceIsStable'
  BY <1>1, <1>2, DelegateIsStrict DEF Def, SliceIsStable
<1> QED BY <1>1, <1>3, <1>4, <1>5
        DEF Def, IInv, Live, ThunkIsCurrent, UseSeesStrictValue,
            EvalsMatchFlag, EvaluatedAtMostOnce

\* A use keeps the invariant: it returns the memoised value, or runs the
\* slice, which still computes the strict value (addMemoizationCode).
LEMMA UseKeeps ==
    ASSUME \A p \in Prog : Quiet(p), IInv, Use
    PROVE  IInv'
<1>1. /\ prog \in ProgType /\ canOutline(prog) /\ Quiet(prog) /\ prog.memo \in BOOLEAN
      /\ mem \in [Loc -> Val] /\ evals \in 0 .. MaxEvals
      /\ Live /\ thunk.env = env /\ strict \in Value(prog) \cup {NoVal}
      /\ prog.memo /\ thunk.flag => thunk.val = strict
      /\ UNCHANGED <<prog, env, iter, strict>>
  BY ProgAssumption DEF IInv, TypeOK, ThunkIsCurrent, Live, Use, ProgType
<1>2. CASE MemoHit
  <2>1. seen' = strict /\ UNCHANGED <<pc, mem, thunk, evals>>
    BY <1>1, <1>2 DEF MemoHit
  <2> QED BY <1>1, <2>1 DEF IInv, TypeOK, Value, Live, SliceIsStable, ThunkIsCurrent,
                       UseSeesStrictValue, EvalsMatchFlag, EvaluatedAtMostOnce
<1>3. CASE Evaluate
  <2>1. SliceWrites(prog) = {} /\ ~Abrupt(prog)
    BY <1>1, AcceptedIsIsolated
  <2>2. mem' = mem
    <3>1. mem' \in [Loc -> Val] /\ \A l \in Loc : mem'[l] = mem[l]
      BY <1>3, <2>1 DEF Evaluate, Effects
    <3> QED BY <3>1, <1>1
  <2>3. pc' = pc
    BY <1>3, <2>1 DEF Evaluate
  <2>4. seen' = strict /\ thunk' = Memoised(strict)
    BY <1>1, <1>3 DEF Evaluate, IInv, SliceIsStable
  <2>5. evals' = (IF evals < MaxEvals THEN evals + 1 ELSE evals) /\ ~(prog.memo /\ thunk.flag)
    BY <1>3 DEF Evaluate
  <2>6. /\ thunk'.fptr = thunk.fptr /\ thunk'.env = thunk.env
        /\ prog.memo => thunk'.flag = TRUE /\ thunk'.val = strict
        /\ thunk' \in [fptr : {"none", "delegate"}, val : Value(prog) \cup {NoVal},
                       flag : BOOLEAN, env : Env]
    BY <1>1, <2>4 DEF Memoised, IInv, TypeOK
  <2>7. TypeOK'
    BY <1>1, <2>2, <2>3, <2>4, <2>5, <2>6, EvalsAssumption DEF IInv, TypeOK, Value
  <2>8. SliceIsStable' /\ ThunkIsCurrent' /\ UseSeesStrictValue'
    BY <1>1, <2>2, <2>3, <2>4, <2>6 
    DEF IInv, SliceIsStable, Live, ThunkIsCurrent, UseSeesStrictValue
  <2>9. EvalsMatchFlag' /\ EvaluatedAtMostOnce'
    BY <1>1, <2>3, <2>5, <2>6, EvalsAssumption
    DEF IInv, Live, EvalsMatchFlag, EvaluatedAtMostOnce
  <2> QED BY <1>1, <2>3, <2>7, <2>8, <2>9 DEF IInv
<1> QED BY <1>2, <1>3 DEF Use

\* Every step of the lazified program keeps the inductive invariant.
LEMMA NextKeeps ==
    ASSUME \A p \in Prog : Quiet(p), IInv, [Next]_vars
    PROVE  IInv'
<1> USE DEF IInv, Live
<1>0. prog \in ProgType /\ canOutline(prog) /\ Quiet(prog)
  BY ProgAssumption DEF TypeOK
<1>1. CASE CallerWrite
  <2>1. PICK x \in prog.stores \cup prog.calls, v \in Val : mem' = [mem EXCEPT ![x] = v]
    BY <1>1 DEF CallerWrite
  <2>2. x \in Loc /\ x \notin Reads(prog)
    BY <1>0, AcceptedIsIsolated DEF ProgType
  <2> QED BY <1>1, <2>1, <2>2, WriteKeeps DEF CallerWrite
<1>2. CASE Def
  BY <1>2, DefKeeps
<1>3. CASE Use
  BY <1>3, UseKeeps
<1>4. CASE Call
  BY <1>4 DEF Call, TypeOK, Value, SliceIsStable, ThunkIsCurrent, UseSeesStrictValue,
              EvalsMatchFlag, EvaluatedAtMostOnce
<1>5. CASE CalleeWrite
  <2>1. PICK x \in prog.calleeWrites, v \in Val : mem' = [mem EXCEPT ![x] = v]
    BY <1>5 DEF CalleeWrite
  <2>2. x \in Loc /\ x \notin Reads(prog)
    BY <1>0, AcceptedIsIsolated DEF ProgType
  <2> QED BY <1>5, <2>1, <2>2, WriteKeeps DEF CalleeWrite
<1>6. CASE Return
  BY <1>6 DEF Return, TypeOK, Value, SliceIsStable, ThunkIsCurrent, UseSeesStrictValue,
              EvalsMatchFlag, EvaluatedAtMostOnce
<1>7. CASE NextIteration
  BY <1>7, IterAssumption
  DEF NextIteration, TypeOK, Value, SliceIsStable, ThunkIsCurrent, UseSeesStrictValue,
      EvalsMatchFlag, EvaluatedAtMostOnce
<1>8. CASE Reenter
  BY <1>8, IterAssumption, EvalsAssumption
  DEF Reenter, TypeOK, Value, SliceIsStable, ThunkIsCurrent, UseSeesStrictValue,
      EvalsMatchFlag, EvaluatedAtMostOnce
<1>9. CASE UNCHANGED vars
  BY <1>9 DEF vars, TypeOK, Value, SliceIsStable, ThunkIsCurrent, UseSeesStrictValue,
              EvalsMatchFlag, EvaluatedAtMostOnce
<1> QED BY <1>1, <1>2, <1>3, <1>4, <1>5, <1>6, <1>7, <1>8, <1>9 DEF Next

\* The inductive invariant is an invariant of the lazified program.
THEOREM Invariance ==
    ASSUME \A p \in Prog : Quiet(p)
    PROVE  Spec => []IInv
<1>1. Init => IInv
  BY InitEstablishes
<1>2. IInv /\ [Next]_vars => IInv'
  BY NextKeeps
<1> QED BY <1>1, <1>2, PTL DEF Spec

\* Type correctness of the lazified program (computeStructType and the code
\* that fills the thunk in).
THEOREM TypeCorrect ==
    ASSUME \A p \in Prog : Quiet(p)
    PROVE  Spec => []TypeOK
<1>1. IInv => TypeOK
  BY DEF IInv
<1> QED BY <1>1, Invariance, PTL

\* Lazification preserves values: for every accepted candidate with quiet
\* surroundings, every use observes the value of the original program.
THEOREM LazificationIsSound ==
    ASSUME \A p \in Prog : Quiet(p)
    PROVE  Spec => []UseSeesStrictValue
<1>1. IInv => UseSeesStrictValue
  BY DEF IInv
<1> QED BY <1>1, Invariance, PTL

\* Memoisation: the slice of a memoised thunk runs at most once between two
\* definitions of the thunk (addMemoizationCode).
THEOREM MemoisationIsSound ==
    ASSUME \A p \in Prog : Quiet(p)
    PROVE  Spec => []EvaluatedAtMostOnce
<1>1. IInv => EvaluatedAtMostOnce
  BY DEF IInv
<1> QED BY <1>1, Invariance, PTL

\* What a live thunk holds is up to date: its arguments, and its memo if the
\* flag is set (generateThunkInitializationCode).
THEOREM ThunkStaysCurrent ==
    ASSUME \A p \in Prog : Quiet(p)
    PROVE  Spec => []ThunkIsCurrent
<1>1. IInv => ThunkIsCurrent
  BY DEF IInv
<1> QED BY <1>1, Invariance, PTL

-----------------------------------------------------------------------------
\* Every step of the lazified program is a step of the original program or
\* changes nothing the original program has.
LEMMA StepImplementsStep ==
    ASSUME \A p \in Prog : Quiet(p), IInv, IInv', [Next]_vars
    PROVE  [Strict!Next]_(Strict!vars)
<1> USE DEF Strict!Next, Strict!vars
<1>0. /\ prog \in ProgType /\ canOutline(prog) /\ Quiet(prog)
      /\ mem \in [Loc -> Val] /\ SliceWrites(prog) = {} /\ ~Abrupt(prog)
  BY ProgAssumption, AcceptedIsIsolated DEF IInv, TypeOK
<1>1. CASE CallerWrite
  BY <1>1 DEF CallerWrite, Strict!CallerWrite
<1>2. CASE Def
  <2>1. ~Strict!Abrupt(prog)
    BY <1>0 DEF Abrupt, Strict!Abrupt
  <2>2. strict' = Strict!StrictEval(prog, env, iter, mem)
    BY <1>2 DEF Def, StrictEval, Strict!StrictEval, StrictIter, Strict!StrictIter,
                Term, Strict!Term, Reads, Strict!Reads
  <2>3. mem' \in Strict!Effects(prog, mem)
    BY <1>0, <1>2 DEF Def, Strict!Effects
  <2> QED BY <1>2, <2>1, <2>2, <2>3 DEF Def, Strict!Def, NoVal, Strict!NoVal
<1>3. CASE Use
  <2>1. /\ Live /\ pc' = pc /\ mem' = mem
        /\ UNCHANGED <<prog, env, iter, strict>>
    <3>1. Live /\ UNCHANGED <<prog, env, iter, strict>>
      BY <1>3 DEF Use, Live
    <3>2. CASE MemoHit
      BY <3>1, <3>2 DEF MemoHit
    <3>3. CASE Evaluate
      <4>1. mem' \in [Loc -> Val] /\ \A l \in Loc : mem'[l] = mem[l]
        BY <1>0, <3>3 DEF Evaluate, Effects
      <4> QED BY <1>0, <3>1, <3>3, <4>1 DEF Evaluate
    <3> QED BY <1>3, <3>2, <3>3 DEF Use
  <2>2. seen' = strict
    <3>1. CASE MemoHit
      BY <2>1, <3>1 DEF MemoHit, IInv, ThunkIsCurrent, Live
    <3>2. CASE Evaluate
      BY <2>1, <3>2 DEF Evaluate, IInv, SliceIsStable, ThunkIsCurrent, Live
    <3> QED BY <1>3, <3>1, <3>2 DEF Use
  <2> QED BY <2>1, <2>2 DEF Strict!Use, Live
<1>4. CASE Call
  BY <1>4 DEF Call, Strict!Call
<1>5. CASE CalleeWrite
  BY <1>5 DEF CalleeWrite, Strict!CalleeWrite
<1>6. CASE Return
  BY <1>6 DEF Return, Strict!Return
<1>7. CASE NextIteration
  BY <1>7 DEF NextIteration, Strict!NextIteration
<1>8. CASE Reenter
  BY <1>8 DEF Reenter, Strict!Reenter, NoVal, Strict!NoVal
<1>9. CASE UNCHANGED vars
  BY <1>9 DEF vars
<1> QED BY <1>1, <1>2, <1>3, <1>4, <1>5, <1>6, <1>7, <1>8, <1>9 DEF Next

\* Call by need implements call by value: the lazified program refines the
\* original one for every accepted candidate with quiet surroundings.
THEOREM LazyImplementsStrict ==
    ASSUME \A p \in Prog : Quiet(p)
    PROVE  Spec => ImplementsStrictCall
<1>1. Init => Strict!Init
  BY DEF Init, Strict!Init, NoVal, Strict!NoVal
<1>2. IInv /\ IInv' /\ [Next]_vars => [Strict!Next]_(Strict!vars)
  BY StepImplementsStep
<1> QED BY <1>1, <1>2, Invariance, PTL DEF Spec, ImplementsStrictCall, Strict!Spec
=============================================================================

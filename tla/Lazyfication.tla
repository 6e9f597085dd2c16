---------------------------- MODULE Lazyfication ----------------------------
(***************************************************************************)
(* The lazification pass over a whole module: candidates are tried one     *)
(* after another, and each success rewrites the caller that later          *)
(* candidates are taken from.                                              *)
(*                                                                         *)
(* An operand of a call is an instruction of the caller, a thunk, the      *)
(* result of calling a thunk, or anything else (NoInst).  Values that are  *)
(* not operands of calls matter only as members of slices.  The calls in   *)
(* cloned callees and delegates are no candidates: the analysis ran before *)
(* they existed, and they have no profile.                                 *)
(***************************************************************************)
EXTENDS Naturals

CONSTANTS Fn, Call, Arg, Inst,
          Indirect,  \* callee of an indirect call
          NoInst,    \* operand that is no instruction
          Mods       \* the modules examined

(***************************************************************************)
(* A module: the callee and operands of every call; functions without a    *)
(* body, variadic functions, and the formal arguments with a use; the      *)
(* instructions in the slice of an instruction, itself included; whether   *)
(* canOutline accepts the slice of an operand in the original code; the    *)
(* results of the analysis, sites and promising; and, with pgo, the        *)
(* operands that shouldLazifyCallsitePGO selects.                          *)
(***************************************************************************)
ModType == [callee : [Call -> Fn \cup {Indirect}],
            ops : [Call -> [Arg -> Inst \cup {NoInst}]],
            decl : SUBSET Fn, vararg : SUBSET Fn, used : SUBSET (Fn \X Arg),
            slice : [Inst -> SUBSET Inst], legal : SUBSET (Call \X Arg),
            sites : SUBSET (Call \X Arg), promising : SUBSET (Fn \X Arg),
            pgo : BOOLEAN, selected : SUBSET (Call \X Arg)]

ASSUME ModAssumption == Mods \subseteq ModType
\* Indices are held in eight bits by the driver; the truncated ones exist too.
ASSUME ArgAssumption == Arg \subseteq Nat /\ \A i \in Arg : i % 256 \in Arg
ASSUME NameAssumption == Indirect \notin Fn /\ NoInst \notin Inst

VARIABLES mod,
          todo,            \* candidates still to be tried
          cur,             \* the call of the candidate tried last
          callee, ops,     \* the calls as they are now
          thunks,          \* the thunks made so far
          stored,          \* the thunks whose alloca a store of the caller writes
          clonedCallees,   \* cache of cloned callees
          changed          \* what the pass would return

vars == <<mod, todo, cur, callee, ops, thunks, stored, clonedCallees, changed>>

Type == Call \X Arg      \* every slice has a thunk type of its own

\* Operands.
Plain(v) == [kind |-> "plain", val |-> v]
Thunk(t) == [kind |-> "thunk", val |-> t]
ThunkCall(t) == [kind |-> "thunkcall", val |-> t]

\* A callee: a function of the module, or a clone of it that expects a thunk
\* of a given type at some index.
Original(f) == [fn |-> f, expects |-> {}]

Init == /\ mod \in Mods
        /\ todo = (IF mod.pgo THEN mod.selected ELSE mod.sites)
        /\ cur = {}
        /\ callee = [c \in Call |-> Original(mod.callee[c])]
        /\ ops = [c \in Call |-> [i \in Arg |-> Plain(mod.ops[c][i])]]
        /\ thunks = {} /\ stored = {} /\ clonedCallees = {} /\ changed = FALSE

-----------------------------------------------------------------------------
\* The order of candidates: calls in any order, each call's operands from the
\* lowest index on.
Turn(c, i) ==
    /\ <<c, i>> \in todo
    /\ \A j \in Arg : <<c, j>> \in todo => i <= j
    /\ c \in cur \/ \A d \in cur, j \in Arg : <<d, j>> \notin todo

\* The driver holds the index in eight bits.
argIdx(i) == i % 256

\* The thunks whose calls are in the slice of operand o: the slice of a
\* thunk's result holds that call, and the users of a lazified instruction
\* now use the results of its thunk.
ThunksInSlice(o) ==
    {h.type : h \in {k \in thunks :
                        \/ o = ThunkCall(k.type)
                        \/ /\ o.kind = "plain" /\ o.val \in Inst
                           /\ \E u \in mod.slice[o.val] \ {o.val} : k.of = Plain(u)}}

\* A thunk call has the thunk's alloca as its operand, so that a slice with
\* the call holds the alloca too.
allocasInSlice(o) == ThunksInSlice(o)

\* What the original code decides, and the test that the pass's own stores can
\* change: no alloca of the slice is clobbered by a store of the caller.
canOutline(c, i) ==
    /\ <<c, i>> \in mod.legal
    /\ allocasInSlice(ops[c][i]) \cap stored = {}

\* The early returns of lazifyCallsite.
Lazifiable(c, i) ==
    /\ ops[c][i] # Plain(NoInst)
    /\ canOutline(c, i)
    /\ callee[c].fn \in Fn \ mod.decl
    /\ callee[c].fn \notin mod.vararg
    /\ <<callee[c].fn, i>> \in mod.used

\* Faulty variant of generateThunkInitializationCode: the fields are copied
\* into the thunk, which takes no store.
copyThunkFields(t) == UNCHANGED stored

\* The fields of the new thunk are stored one by one, the pointer to the
\* delegate always.
generateThunkInitializationCode(t) == stored' = stored \cup {t}

cloneCalleeFunction(f, i, t) == [f EXCEPT !.expects = @ \cup {<<i, t>>}]

\* Faulty variant of Cached: the thunk type is not part of the key.
CachedAnyType(f, i, t) == {e \in clonedCallees : e.from = f /\ e.index = i}

Cached(f, i, t) == {e \in clonedCallees : e.from = f /\ e.index = i /\ e.type = t}

NewCallee(f, i, t) ==
    IF Cached(f, i, t) # {} THEN (CHOOSE e \in Cached(f, i, t) : TRUE).clone
    ELSE cloneCalleeFunction(f, i, t)

\* Faulty variants of updateThunkArgUses: only the call's own operand
\* changes; the operands at the same index change, whatever their value.
updateSameIndex(c, i, t) ==
    [d \in Call |-> [j \in Arg |->
        IF d = c /\ j = i THEN Thunk(t)
        ELSE IF j = i THEN ThunkCall(t) ELSE ops[d][j]]]
updateOwnUse(c, i, t) == [ops EXCEPT ![c][i] = Thunk(t)]

\* The call gets the thunk; every other use of the value calls the thunk.
updateThunkArgUses(c, i, t) ==
    [d \in Call |-> [j \in Arg |->
        IF d = c /\ j = i THEN Thunk(t)
        ELSE IF ops[d][j] = ops[c][i] THEN ThunkCall(t) ELSE ops[d][j]]]

lazifyCallsite(c, i) ==
    LET t == <<c, i>>
        n == NewCallee(callee[c], i, t)
    IN  /\ Lazifiable(c, i)
        /\ thunks' = thunks \cup {[type |-> t, of |-> ops[c][i],
                                   calls |-> ThunksInSlice(ops[c][i])]}
        /\ generateThunkInitializationCode(t)
        /\ clonedCallees' = clonedCallees \cup
               {[from |-> callee[c], index |-> i, type |-> t, clone |-> n]}
        /\ callee' = [callee EXCEPT ![c] = n]
        /\ ops' = updateThunkArgUses(c, i, t)
        /\ changed' = TRUE

NotLazified(c, i) == /\ ~Lazifiable(c, i) /\ changed' = FALSE
                     /\ UNCHANGED <<callee, ops, thunks, stored, clonedCallees>>

\* Faulty variant of IsPromising: the callee is the one the analysis saw.
WasPromising(c, i) == <<mod.callee[c], i>> \in mod.promising

\* The analysis knows nothing of clones.
IsPromising(c, i) == callee[c].expects = {} /\ <<callee[c].fn, i>> \in mod.promising

\* One turn of the loop over the analysis' candidates.
StaticTurn(c, i) ==
    /\ ~mod.pgo /\ Turn(c, i)
    /\ todo' = todo \ {<<c, i>>} /\ cur' = {c}
    /\ IF IsPromising(c, argIdx(i))
       THEN lazifyCallsite(c, argIdx(i)) \/ NotLazified(c, argIdx(i))
       ELSE UNCHANGED <<callee, ops, thunks, stored, clonedCallees, changed>>
    /\ UNCHANGED mod

\* Faulty variant of ProfileTurn: the loop over the operands goes on.
ProfileTurnOn(c, i) ==
    /\ mod.pgo /\ Turn(c, i) /\ cur' = {c}
    /\ lazifyCallsite(c, i) \/ NotLazified(c, i)
    /\ todo' = todo \ {<<c, i>>}
    /\ UNCHANGED mod

\* One turn of the loop over the calls with a profile; a success ends the
\* call's operands.
ProfileTurn(c, i) ==
    /\ mod.pgo /\ Turn(c, i) /\ cur' = {c}
    /\ \/ lazifyCallsite(c, i) /\ todo' = todo \ ({c} \X Arg)
       \/ NotLazified(c, i) /\ todo' = todo \ {<<c, i>>}
    /\ UNCHANGED mod

Done == todo = {} /\ UNCHANGED vars

Next == \/ \E c \in Call, i \in Arg : StaticTurn(c, i) \/ ProfileTurn(c, i)
        \/ Done

Spec == Init /\ [][Next]_vars

-----------------------------------------------------------------------------
\* Type correctness of the rewritten calls and of the pass's tables.
Operand == [kind : {"plain"}, val : Inst \cup {NoInst}]
           \cup [kind : {"thunk", "thunkcall"}, val : Type]
Callee == [fn : Fn \cup {Indirect}, expects : SUBSET (Arg \X Type)]
TypeOK == /\ mod \in ModType /\ todo \subseteq Call \X Arg /\ cur \subseteq Call
          /\ callee \in [Call -> Callee] /\ ops \in [Call -> [Arg -> Operand]]
          /\ thunks \subseteq [type : Type, of : Operand, calls : SUBSET Type]
          /\ stored \subseteq Type
          /\ clonedCallees \subseteq [from : Callee, index : Arg, type : Type, clone : Callee]
          /\ changed \in BOOLEAN

\* Callers and clones agree (lazifyCallsite, clonedCallees): a call passes a
\* thunk exactly where its callee expects one of that type, and the callee is
\* still the original one or a clone of it.
CallsMatchClones ==
    \A c \in Call :
        /\ callee[c].fn = mod.callee[c]
        /\ \A i \in Arg, t \in Type :
              ops[c][i] = Thunk(t) <=> <<i, t>> \in callee[c].expects

\* A call is lazified in one operand at most, although all its operands are
\* candidates and a clone has no analysis results (runOnModule).
OneThunkPerCall == \A c \in Call : \A x, y \in callee[c].expects : x = y

\* Every operand still denotes the value of the original program: it is the
\* instruction itself or a thunk made of it (updateThunkArgUses).
Denotes(o, v) == \/ o = Plain(v)
                 \/ \E h \in thunks : h.of = Plain(v) /\ o \in {Thunk(h.type), ThunkCall(h.type)}
ValuesPreserved == \A c \in Call, i \in Arg : Denotes(ops[c][i], mod.ops[c][i])

\* A delegate calls no other thunk, whatever slices the earlier successes have
\* given a thunk call to: it would call it on its own copy of the thunk's stack
\* slot, which nobody initialised.  canOutline does not look for thunk calls;
\* it sees them by the stores of generateThunkInitializationCode.
DelegatesCallNoThunk == \A h \in thunks : h.calls = {}

\* A value has one thunk, shared by all calls that take it, and no call reads
\* it directly any more (updateThunkArgUses: "so that we maximize the amount
\* of potential dead code generation").
OneThunkPerValue ==
    \A h \in thunks :
        /\ \A k \in thunks : k.of = h.of => k = h
        /\ \A c \in Call, i \in Arg : ops[c][i] # h.of

-----------------------------------------------------------------------------
(***************************************************************************)
(* The inductive invariant.                                                *)
(***************************************************************************)
\* Thunks are made of instructions of the original code.
ThunksArePlain == \A h \in thunks : \E v \in Inst : h.of = Plain(v)

\* The alloca of every thunk is stored to, so that its calls are seen.
ThunksAreStored == \A h \in thunks : h.type \in stored

\* A cached clone expects exactly what its key says.
CacheIsRight ==
    \A e \in clonedCallees : e.clone = cloneCalleeFunction(e.from, e.index, e.type)

\* With a profile, a lazified call has no candidate left.
TodoIsFresh ==
    mod.pgo => \A c \in Call, i \in Arg : <<c, i>> \in todo => callee[c].expects = {}

LInv == /\ TypeOK /\ CallsMatchClones /\ OneThunkPerCall /\ ValuesPreserved
        /\ DelegatesCallNoThunk /\ OneThunkPerValue
        /\ ThunksArePlain /\ ThunksAreStored /\ CacheIsRight /\ TodoIsFresh
=============================================================================

------------------------- MODULE LazyficationProofs -------------------------
(***************************************************************************)
(* The lazification pass keeps a module consistent, for modules of any     *)
(* size and every order of candidates.                                     *)
(***************************************************************************)
EXTENDS Lazyfication, TLAPS

\* The three kinds of operands are told apart.
LEMMA OperandKinds ==
    /\ \A v, t : Plain(v) # Thunk(t) /\ Plain(v) # ThunkCall(t)
    /\ \A s, t : Thunk(s) # ThunkCall(t)
    /\ \A s, t : (Thunk(s) = Thunk(t) \/ ThunkCall(s) = ThunkCall(t)) => s = t
    /\ \A u, v : Plain(u) = Plain(v) => u = v
  BY DEF Plain, Thunk, ThunkCall

\* Instructions, thunks and thunk calls are told apart.
LEMMA OperandTypes ==
    /\ \A v \in Inst \cup {NoInst} : Plain(v) \in Operand
    /\ \A t \in Type : Thunk(t) \in Operand /\ ThunkCall(t) \in Operand
    /\ \A o \in Operand : \/ \E v \in Inst \cup {NoInst} : o = Plain(v)
                          \/ \E t \in Type : o = Thunk(t) \/ o = ThunkCall(t)
  BY DEF Plain, Thunk, ThunkCall, Operand

\* The invariant holds of the original module ...
LEMMA InitLInv == Init => LInv
<1> SUFFICES ASSUME Init PROVE LInv
  OBVIOUS
<1> mod \in ModType
  BY ModAssumption DEF Init
<1>1. \A c \in Call : /\ callee[c] = Original(mod.callee[c])
                      /\ callee[c] \in Callee /\ callee[c].expects = {}
                      /\ callee[c].fn = mod.callee[c]
  BY DEF Init, Original, Callee, ModType
<1>2. \A c \in Call, i \in Arg : /\ ops[c][i] = Plain(mod.ops[c][i])
                                 /\ mod.ops[c][i] \in Inst \cup {NoInst}
                                 /\ ops[c][i] \in Operand
  BY OperandTypes DEF Init, ModType
<1>3. TypeOK
  <2>1. callee \in [Call -> Callee]
    BY <1>1 DEF Init
  <2>2. ops \in [Call -> [Arg -> Operand]]
    BY <1>2 DEF Init
  <2>3. todo \subseteq Call \X Arg
    BY DEF Init, ModType
  <2> QED BY <2>1, <2>2, <2>3 DEF Init, TypeOK
<1>4. CallsMatchClones
  BY <1>1, <1>2, OperandKinds DEF CallsMatchClones
<1>5. OneThunkPerCall
  BY <1>1 DEF OneThunkPerCall
<1>6. ValuesPreserved
  BY <1>2 DEF ValuesPreserved, Denotes
<1>7. /\ DelegatesCallNoThunk /\ OneThunkPerValue /\ ThunksArePlain /\ ThunksAreStored
      /\ CacheIsRight
  BY DEF Init, DelegatesCallNoThunk, OneThunkPerValue, ThunksArePlain, ThunksAreStored, CacheIsRight
<1>8. TodoIsFresh
  BY <1>1 DEF TodoIsFresh
<1> QED BY <1>3, <1>4, <1>5, <1>6, <1>7, <1>8 DEF LInv

\* The clobber test sees every thunk call: the allocas of all thunks are stored
\* to, and a slice with the call holds the alloca.
LEMMA ThunkCallsAreSeen ==
    ASSUME LInv, NEW c \in Call, NEW i \in Arg, canOutline(c, i)
    PROVE  ThunksInSlice(ops[c][i]) = {}
<1>1. \A t \in ThunksInSlice(ops[c][i]) : t \in stored
  BY DEF LInv, ThunksAreStored, ThunksInSlice
<1>2. ThunksInSlice(ops[c][i]) \cap stored = {}
  BY DEF canOutline, allocasInSlice
<1> QED BY <1>1, <1>2

\* What is lazified is an instruction of the original code.
LEMMA LazifiedIsPlain ==
    ASSUME LInv, NEW c \in Call, NEW i \in Arg,
           callee[c].expects = {}, Lazifiable(c, i)
    PROVE  /\ mod.ops[c][i] \in Inst /\ ops[c][i] = Plain(mod.ops[c][i])
           /\ ThunksInSlice(ops[c][i]) = {}
<1>1. ops[c][i] # Plain(NoInst) /\ ThunksInSlice(ops[c][i]) = {}
  BY ThunkCallsAreSeen DEF Lazifiable
<1>2. Denotes(ops[c][i], mod.ops[c][i])
  BY DEF LInv, ValuesPreserved
<1>3. ASSUME NEW h \in thunks PROVE ops[c][i] # Thunk(h.type)
  <2>1. h.type \in Type
    BY DEF LInv, TypeOK
  <2>2. \A s \in Type : ops[c][i] = Thunk(s) <=> <<i, s>> \in callee[c].expects
    BY DEF LInv, CallsMatchClones
  <2>3. \A s \in Type : ops[c][i] # Thunk(s)
    BY <2>2
  <2> QED BY <2>1, <2>3
<1>4. ASSUME NEW h \in thunks PROVE ops[c][i] # ThunkCall(h.type)
  <2>1. ASSUME ops[c][i] = ThunkCall(h.type) PROVE h.type \in ThunksInSlice(ops[c][i])
    BY <2>1 DEF ThunksInSlice
  <2> QED BY <1>1, <2>1
<1>5. ops[c][i] = Plain(mod.ops[c][i])
  BY <1>2, <1>3, <1>4 DEF Denotes
<1>6. mod.ops[c][i] \in Inst \cup {NoInst}
  BY DEF LInv, TypeOK, ModType
<1> QED BY <1>1, <1>5, <1>6

\* The callee that a lazified call gets expects the new thunk and nothing else.
LEMMA NewCalleeIsRight ==
    ASSUME LInv, NEW c \in Call, NEW i \in Arg, callee[c].expects = {}
    PROVE  /\ NewCallee(callee[c], i, <<c, i>>) \in Callee
           /\ NewCallee(callee[c], i, <<c, i>>).fn = callee[c].fn
           /\ NewCallee(callee[c], i, <<c, i>>).expects = {<<i, <<c, i>>>>}
           /\ NewCallee(callee[c], i, <<c, i>>) = cloneCalleeFunction(callee[c], i, <<c, i>>)
<1> DEFINE t == <<c, i>>
           n == NewCallee(callee[c], i, t)
<1>1. t \in Type /\ callee[c] \in Callee
  BY DEF LInv, TypeOK, Type
<1>2. n = cloneCalleeFunction(callee[c], i, t)
  <2>1. ASSUME NEW e \in Cached(callee[c], i, t)
        PROVE  e.clone = cloneCalleeFunction(callee[c], i, t)
    BY DEF LInv, CacheIsRight, Cached
  <2> QED BY <2>1 DEF NewCallee
<1>3. n \in Callee /\ n.fn = callee[c].fn /\ n.expects = {<<i, t>>}
  BY <1>1, <1>2 DEF cloneCalleeFunction, Callee
<1> QED BY <1>2, <1>3

\* A success keeps every part of the invariant but TodoIsFresh, which
\* depends on how the driver goes on.
LEMMA LazifyStep ==
    ASSUME LInv, NEW c \in Call, NEW i \in Arg, callee[c].expects = {},
           lazifyCallsite(c, i), mod' = mod, todo' \subseteq todo, cur' = {c}
    PROVE  /\ TypeOK' /\ CallsMatchClones' /\ OneThunkPerCall' /\ ValuesPreserved'
           /\ DelegatesCallNoThunk' /\ OneThunkPerValue' /\ ThunksArePlain'
           /\ ThunksAreStored' /\ CacheIsRight'
           /\ \A d \in Call : d # c => callee'[d] = callee[d]
<1> DEFINE t == <<c, i>>
           v == mod.ops[c][i]
           n == NewCallee(callee[c], i, t)
           new == [type |-> t, of |-> Plain(v), calls |-> {}]
<1> t \in Type
  BY DEF Type
<1>1. v \in Inst /\ ops[c][i] = Plain(v) /\ ThunksInSlice(ops[c][i]) = {}
  BY LazifiedIsPlain DEF lazifyCallsite
<1>2. /\ n \in Callee /\ n.fn = callee[c].fn /\ n.expects = {<<i, t>>}
      /\ n = cloneCalleeFunction(callee[c], i, t)
  BY NewCalleeIsRight
<1>3. /\ thunks' = thunks \cup {new}
      /\ callee' = [callee EXCEPT ![c] = n]
      /\ clonedCallees' = clonedCallees \cup
            {[from |-> callee[c], index |-> i, type |-> t, clone |-> n]}
      /\ changed' = TRUE
      /\ stored' = stored \cup {t}
  BY <1>1 DEF lazifyCallsite, generateThunkInitializationCode
<1>4. \A d \in Call, j \in Arg :
          ops'[d][j] = IF d = c /\ j = i THEN Thunk(t)
                       ELSE IF ops[d][j] = Plain(v) THEN ThunkCall(t) ELSE ops[d][j]
  BY <1>1 DEF lazifyCallsite, updateThunkArgUses
<1>5. /\ callee \in [Call -> Callee] /\ callee'[c] = n
      /\ \A d \in Call : d # c => callee'[d] = callee[d]
  BY <1>3 DEF LInv, TypeOK
<1> HIDE DEF n
<1>6. TypeOK'
  <2>1. ops' \in [Call -> [Arg -> Operand]]
    <3>1. \A d \in Call, j \in Arg : ops'[d][j] \in Operand
      BY <1>4, OperandTypes DEF LInv, TypeOK
    <3> QED BY <3>1 DEF lazifyCallsite, updateThunkArgUses
  <2>2. callee' \in [Call -> Callee]
    BY <1>2, <1>3, <1>5
  <2>3. thunks' \subseteq [type : Type, of : Operand, calls : SUBSET Type]
    <3>1. Plain(v) \in Operand
      BY <1>1, OperandTypes
    <3>2. new \in [type : Type, of : Operand, calls : SUBSET Type]
      BY <3>1
    <3> HIDE DEF new
    <3> QED BY <1>3, <3>2 DEF LInv, TypeOK
  <2>4. clonedCallees' \subseteq [from : Callee, index : Arg, type : Type, clone : Callee]
    <3> DEFINE entry == [from |-> callee[c], index |-> i, type |-> t, clone |-> n]
    <3>1. callee[c] \in Callee /\ n \in Callee
      BY <1>2, <1>5
    <3> HIDE DEF t
    <3>2. entry \in [from : Callee, index : Arg, type : Type, clone : Callee]
      BY <3>1
    <3>3. clonedCallees' = clonedCallees \cup {entry}
      BY <1>3
    <3> HIDE DEF entry
    <3> QED BY <3>2, <3>3 DEF LInv, TypeOK
  <2>5. stored' \subseteq Type /\ mod' \in ModType /\ todo' \subseteq Call \X Arg /\ cur' \subseteq Call /\ changed' \in BOOLEAN
    BY <1>3 DEF LInv, TypeOK
  <2> QED BY <2>1, <2>2, <2>3, <2>4, <2>5 DEF TypeOK
<1>7. CallsMatchClones'
  <2> SUFFICES ASSUME NEW d \in Call
               PROVE  /\ callee'[d].fn = mod.callee[d]
                      /\ \A j \in Arg, s \in Type :
                            ops'[d][j] = Thunk(s) <=> <<j, s>> \in callee'[d].expects
    BY DEF CallsMatchClones
  <2>1. callee[d].fn = mod.callee[d]
    BY DEF LInv, CallsMatchClones
  <2>2. \A j \in Arg, s \in Type : ops[d][j] = Thunk(s) <=> <<j, s>> \in callee[d].expects
    BY DEF LInv, CallsMatchClones
  <2>3. CASE d = c
    <3>1. \A j \in Arg, s \in Type : ops'[c][j] = Thunk(s) <=> j = i /\ s = t
      <4>1. \A j \in Arg, s \in Type : ops[c][j] # Thunk(s)
        BY <2>2, <2>3
      <4> SUFFICES ASSUME NEW j \in Arg, NEW s \in Type
                   PROVE  ops'[c][j] = Thunk(s) <=> j = i /\ s = t
        OBVIOUS
      <4> HIDE DEF t, v
      <4>2. CASE j = i
        BY <1>4, <4>2, OperandKinds
      <4>3. CASE j # i
        BY <1>4, <4>1, <4>3, OperandKinds
      <4> QED BY <4>2, <4>3
    <3>2. \A j \in Arg, s \in Type : <<j, s>> \in callee'[c].expects <=> j = i /\ s = t
      <4>1. callee'[c].expects = {<<i, t>>}
        BY <1>2, <1>5
      <4> HIDE DEF t
      <4> QED BY <4>1
    <3>3. callee'[c].fn = callee[c].fn
      BY <1>2, <1>5
    <3> HIDE DEF t
    <3> QED BY <2>1, <2>3, <3>1, <3>2, <3>3
  <2>4. CASE d # c
    <3>1. \A j \in Arg, s \in Type : ops'[d][j] = Thunk(s) <=> ops[d][j] = Thunk(s)
      BY <1>4, <2>4, OperandKinds
    <3> QED BY <1>5, <2>1, <2>2, <2>4, <3>1
  <2> QED BY <2>3, <2>4
<1>8. OneThunkPerCall'
  BY <1>2, <1>5 DEF LInv, OneThunkPerCall
<1>9. ValuesPreserved'
  <2> SUFFICES ASSUME NEW d \in Call, NEW j \in Arg
               PROVE  Denotes(ops[d][j], mod.ops[d][j])'
    BY DEF ValuesPreserved
  <2>1. Denotes(ops[d][j], mod.ops[d][j])
    BY DEF LInv, ValuesPreserved
  <2>2. new \in thunks' /\ new.of = Plain(v) /\ new.type = t
    BY <1>3
  <2>3. CASE d = c /\ j = i
    BY <1>4, <2>2, <2>3 DEF Denotes
  <2>4. CASE ~(d = c /\ j = i) /\ ops[d][j] = Plain(v)
    <3>1. ops'[d][j] = ThunkCall(t)
      BY <1>4, <2>4
    <3>2. mod.ops[d][j] = v
      BY <2>1, <2>4, OperandKinds DEF Denotes
    <3> QED BY <2>2, <3>1, <3>2 DEF Denotes
  <2>5. CASE ~(d = c /\ j = i) /\ ops[d][j] # Plain(v)
    <3>1. ops'[d][j] = ops[d][j]
      BY <1>4, <2>5
    <3> QED BY <1>3, <2>1, <3>1 DEF Denotes
  <2> QED BY <2>3, <2>4, <2>5
<1>10. DelegatesCallNoThunk'
  BY <1>3 DEF LInv, DelegatesCallNoThunk
<1>11. ThunksArePlain'
  BY <1>1, <1>3 DEF LInv, ThunksArePlain
<1>12. OneThunkPerValue'
  <2>1. \A h \in thunks : h.of # Plain(v)
    BY <1>1 DEF LInv, OneThunkPerValue
  <2>2. ASSUME NEW h \in thunks', NEW k \in thunks', k.of = h.of PROVE k = h
    <3>1. new.of = Plain(v)
      OBVIOUS
    <3> HIDE DEF new
    <3>2. (h \in thunks \/ h = new) /\ (k \in thunks \/ k = new)
      BY <1>3
    <3> QED BY <2>1, <2>2, <3>1, <3>2 DEF LInv, OneThunkPerValue
  <2>3. ASSUME NEW h \in thunks', NEW d \in Call, NEW j \in Arg
        PROVE  ops'[d][j] # h.of
    <3>1. PICK u \in Inst : h.of = Plain(u)
      BY <1>11 DEF ThunksArePlain
    <3>2. h \in thunks => ops[d][j] # h.of
      BY DEF LInv, OneThunkPerValue
    <3>3. h \notin thunks => h.of = Plain(v)
      BY <1>3
    <3> QED BY <1>4, <3>1, <3>2, <3>3, OperandKinds
  <2> QED BY <2>2, <2>3 DEF OneThunkPerValue
<1>13. CacheIsRight'
  <2> DEFINE entry == [from |-> callee[c], index |-> i, type |-> t, clone |-> n]
  <2>1. /\ entry.clone = n /\ entry.from = callee[c]
        /\ entry.index = i /\ entry.type = t
    OBVIOUS
  <2>2. clonedCallees' = clonedCallees \cup {entry}
    BY <1>3
  <2> HIDE DEF entry, t
  <2>3. entry.clone = cloneCalleeFunction(entry.from, entry.index, entry.type)
    BY <1>2, <2>1
  <2> QED BY <2>2, <2>3 DEF LInv, CacheIsRight, cloneCalleeFunction
<1>14. ThunksAreStored'
  <2>1. new.type = t
    OBVIOUS
  <2> HIDE DEF new, t
  <2> QED BY <1>3, <2>1 DEF LInv, ThunksAreStored
<1> QED BY <1>5, <1>6, <1>7, <1>8, <1>9, <1>10, <1>11, <1>12, <1>13, <1>14

\* A candidate that is passed over changes no call.
LEMMA PassedOver ==
    ASSUME LInv, mod' = mod, todo' \subseteq todo, cur' \subseteq Call,
           changed' \in BOOLEAN, UNCHANGED <<callee, ops, thunks, stored, clonedCallees>>
    PROVE  LInv'
<1>1. TypeOK'
  BY DEF LInv, TypeOK
<1>2. CallsMatchClones' /\ OneThunkPerCall' /\ ValuesPreserved'
  BY DEF LInv, CallsMatchClones, OneThunkPerCall, ValuesPreserved, Denotes
<1>3. /\ DelegatesCallNoThunk' /\ OneThunkPerValue' /\ ThunksArePlain' /\ ThunksAreStored'
      /\ CacheIsRight'
  BY DEF LInv, DelegatesCallNoThunk, OneThunkPerValue, ThunksArePlain, ThunksAreStored, CacheIsRight
<1>4. TodoIsFresh'
  BY DEF LInv, TodoIsFresh
<1> QED BY <1>1, <1>2, <1>3, <1>4 DEF LInv

\* ... and every turn of the driver keeps it.
LEMMA NextLInv == LInv /\ [Next]_vars => LInv'
<1> SUFFICES ASSUME LInv, [Next]_vars PROVE LInv'
  OBVIOUS
<1>1. ASSUME NEW c \in Call, NEW i \in Arg, StaticTurn(c, i) PROVE LInv'
  <2>1. argIdx(i) \in Arg
    BY ArgAssumption DEF argIdx
  <2>2. mod' = mod /\ ~mod.pgo /\ todo' \subseteq todo /\ cur' = {c}
    BY <1>1 DEF StaticTurn
  <2>3. CASE IsPromising(c, argIdx(i)) /\ lazifyCallsite(c, argIdx(i))
    <3>1. callee[c].expects = {}
      BY <2>3 DEF IsPromising
    <3>2. TodoIsFresh'
      BY <2>2 DEF TodoIsFresh
    <3> QED BY <2>1, <2>2, <2>3, <3>1, <3>2, LazifyStep DEF LInv
  <2>4. CASE IsPromising(c, argIdx(i)) /\ NotLazified(c, argIdx(i))
    BY <2>2, <2>4, PassedOver DEF NotLazified
  <2>5. CASE ~IsPromising(c, argIdx(i))
    <3>1. UNCHANGED <<callee, ops, thunks, stored, clonedCallees, changed>>
      BY <1>1, <2>5 DEF StaticTurn
    <3>2. changed' \in BOOLEAN
      BY <3>1 DEF LInv, TypeOK
    <3> QED BY <2>2, <3>1, <3>2, PassedOver
  <2> QED BY <1>1, <2>3, <2>4, <2>5 DEF StaticTurn
<1>2. ASSUME NEW c \in Call, NEW i \in Arg, ProfileTurn(c, i) PROVE LInv'
  <2>1. mod' = mod /\ mod.pgo /\ cur' = {c} /\ <<c, i>> \in todo
    BY <1>2 DEF ProfileTurn, Turn
  <2>2. CASE lazifyCallsite(c, i) /\ todo' = todo \ ({c} \X Arg)
    <3>1. callee[c].expects = {}
      BY <2>1 DEF LInv, TodoIsFresh
    <3>2. todo' \subseteq todo
      BY <2>2
    <3>3. \A d \in Call : d # c => callee'[d] = callee[d]
      BY <2>1, <2>2, <3>1, <3>2, LazifyStep
    <3>4. TodoIsFresh'
      BY <2>1, <2>2, <3>3 DEF LInv, TodoIsFresh
    <3> QED BY <2>1, <2>2, <3>1, <3>2, <3>4, LazifyStep DEF LInv
  <2>3. CASE NotLazified(c, i) /\ todo' = todo \ {<<c, i>>}
    BY <2>1, <2>3, PassedOver DEF NotLazified
  <2> QED BY <1>2, <2>2, <2>3 DEF ProfileTurn
<1>3. ASSUME UNCHANGED vars PROVE LInv'
  <2>1. cur' \subseteq Call /\ changed' \in BOOLEAN
    BY <1>3 DEF vars, LInv, TypeOK
  <2> QED BY <1>3, <2>1, PassedOver DEF vars
<1> QED BY <1>1, <1>2, <1>3 DEF Next, Done

\* The inductive invariant of the driver (runOnModule, lazifyCallsite).
THEOREM Invariance == Spec => []LInv
  BY InitLInv, NextLInv, PTL DEF Spec

\* A call passes a thunk exactly where its callee, an original function or a
\* clone, expects one of that type (lazifyCallsite, clonedCallees).
THEOREM CallsAndClonesAgree == Spec => []CallsMatchClones
<1>1. LInv => CallsMatchClones
  BY DEF LInv
<1> QED BY <1>1, Invariance, PTL

\* A call is lazified in at most one operand (runOnModule).
THEOREM LazifiedOnce == Spec => []OneThunkPerCall
<1>1. LInv => OneThunkPerCall
  BY DEF LInv
<1> QED BY <1>1, Invariance, PTL

\* Rewriting the uses of one value changes what no operand stands for
\* (updateThunkArgUses).
THEOREM OperandsKeepTheirValue == Spec => []ValuesPreserved
<1>1. LInv => ValuesPreserved
  BY DEF LInv
<1> QED BY <1>1, Invariance, PTL

\* No delegate calls another thunk: a slice that has come to hold a thunk call
\* holds an alloca that generateThunkInitializationCode stores to, which
\* canOutline rejects as clobbered.
THEOREM ThunksAreIndependent == Spec => []DelegatesCallNoThunk
<1>1. LInv => DelegatesCallNoThunk
  BY DEF LInv
<1> QED BY <1>1, Invariance, PTL

\* No value gets a second thunk (updateThunkArgUses).
THEOREM ValuesHaveOneThunk == Spec => []OneThunkPerValue
<1>1. LInv => OneThunkPerValue
  BY DEF LInv
<1> QED BY <1>1, Invariance, PTL
=============================================================================

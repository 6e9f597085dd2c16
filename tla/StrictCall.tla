----------------------------- MODULE StrictCall -----------------------------
(***************************************************************************)
(* The original program around one call with an argument computed by a     *)
(* slice: call by value.  The argument is evaluated once, at its           *)
(* definition, before the call; every later use, in the caller or in the   *)
(* callee, sees that value.  This is what the lazified program has to      *)
(* implement.                                                              *)
(***************************************************************************)
EXTENDS SliceProgram

VARIABLES prog,   \* the candidate
          pc,     \* where control is
          env,    \* formal arguments of this activation of the caller
          iter,   \* iteration of the loop around the call
          mem,    \* memory
          val,    \* value of the argument, NoVal before its definition
          seen    \* value observed by the last use, NoVal if there is none

vars == <<prog, pc, env, iter, mem, val, seen>>

NoVal == [env |-> "none"]

Init == /\ prog \in Prog
        /\ pc = "before" /\ env \in Env /\ iter = 0
        /\ mem \in [Loc -> Val]
        /\ val = NoVal /\ seen = NoVal

\* A store or a call of the caller, anywhere around the definition and the call.
CallerWrite == /\ pc \in {"before", "defined", "after"}
               /\ \E l \in prog.stores \cup prog.calls, v \in Val :
                     mem' = [mem EXCEPT ![l] = v]
               /\ UNCHANGED <<prog, pc, env, iter, val, seen>>

\* The argument is evaluated; an evaluation that throws or does not return
\* stops the program here.
Def == /\ pc = "before"
       /\ pc' = IF Abrupt(prog) THEN "stopped" ELSE "defined"
       /\ val' = StrictEval(prog, env, iter, mem)
       /\ mem' \in Effects(prog, mem)
       /\ seen' = NoVal
       /\ UNCHANGED <<prog, env, iter>>

Use == /\ pc \in {"defined", "callee", "after"}
       /\ seen' = val
       /\ UNCHANGED <<prog, pc, env, iter, mem, val>>

Call == /\ pc = "defined" /\ pc' = "callee"
        /\ UNCHANGED <<prog, env, iter, mem, val, seen>>

CalleeWrite == /\ pc = "callee"
               /\ \E l \in prog.calleeWrites, v \in Val :
                     mem' = [mem EXCEPT ![l] = v]
               /\ UNCHANGED <<prog, pc, env, iter, val, seen>>

Return == /\ pc = "callee" /\ pc' = "after"
          /\ UNCHANGED <<prog, env, iter, mem, val, seen>>

\* The loop around the call runs again; the definition is part of the loop
\* when the slice is.
NextIteration == /\ pc = "after" /\ prog.callDepth = 1 /\ iter < MaxIter
                 /\ pc' = IF prog.sliceDepths # {0} THEN "before" ELSE "defined"
                 /\ iter' = iter + 1
                 /\ UNCHANGED <<prog, env, mem, val, seen>>

\* The caller returns and is called again with other arguments.
Reenter == /\ pc = "after" /\ pc' = "before"
           /\ env' \in Env /\ iter' = 0
           /\ val' = NoVal /\ seen' = NoVal
           /\ UNCHANGED <<prog, mem>>

Next == \/ CallerWrite \/ Def \/ Use \/ Call \/ CalleeWrite \/ Return
        \/ NextIteration \/ Reenter

Spec == Init /\ [][Next]_vars
=============================================================================

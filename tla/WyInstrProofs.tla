--------------------------- MODULE WyInstrProofs ----------------------------
(***************************************************************************)
(* Proofs about WyInstr, for any number of call sites, arguments, calls    *)
(* and frames.  For plain programs (one thread, none of the features, at   *)
(* most 32 arguments) the shadow stack mirrors the real stack and the      *)
(* evaluations in the profile are exact.  In every program a report counts *)
(* one call too many, and no evaluation is lost.                           *)
(***************************************************************************)
EXTENDS WyInstr, SequenceTheorems, FiniteSetTheorems, TLAPS

-----------------------------------------------------------------------------
\* A missing report is told from a present one.
LEMMA ReportIsNotMissing == \A r \in Report : r # NoReport
<1> SUFFICES ASSUME NEW r \in Report, r = NoReport PROVE FALSE
  OBVIOUS
<1>1. "num_calls" \in DOMAIN r
  BY DEF Report
<1>2. DOMAIN r = {"num_args"}
  BY DEF NoReport
<1> QED BY <1>1, <1>2

\* A new report, and a report after one more call or evaluation, is a report.
LEMMA ReportTypes ==
    /\ \A n \in Nat : prof_report(n) \in Report
    /\ \A r \in Report : [r EXCEPT !.num_calls = @ + 1] \in Report
    /\ \A r \in Report, a \in Arg : \A b : Counted(r, a, b) \in Report
<1>1. \A n \in Nat : prof_report(n) \in Report
  BY DEF prof_report, Report, Counter
<1>2. \A r \in Report : [r EXCEPT !.num_calls = @ + 1] \in Report
  BY DEF Report
<1>3. ASSUME NEW r \in Report, NEW a \in Arg, NEW b
      PROVE  Counted(r, a, b) \in Report
  <2> DEFINE u == IF b \cap Shifted(a) = {} THEN r.unique_arg_evals[a] + 1
                  ELSE r.unique_arg_evals[a]
  <2>1. u \in Nat /\ r.arg_evals[a] + 1 \in Nat
    BY DEF Report, Counter
  <2>2. Counted(r, a, b) = [r EXCEPT !.unique_arg_evals = [@ EXCEPT ![a] = u],
                                     !.arg_evals = [@ EXCEPT ![a] = r.arg_evals[a] + 1]]
    BY DEF Counted, Report, Counter
  <2>3. /\ [r.unique_arg_evals EXCEPT ![a] = u] \in Counter
        /\ [r.arg_evals EXCEPT ![a] = r.arg_evals[a] + 1] \in Counter
    BY <2>1 DEF Report, Counter
  <2> HIDE DEF u
  <2> QED BY <2>2, <2>3 DEF Report
<1> QED BY <1>1, <1>2, <1>3

\* Below 32 the shifted bit finds exactly the argument's own bit.
LEMMA ShiftIsExact ==
    ASSUME NEW a \in 0 .. 31
    PROVE  /\ \A c \in 0 .. 31 : c \in Shifted(a) <=> c = a
           /\ Shifted(a) \subseteq 0 .. 63
           /\ Shifted(a) \cap (31 .. 63) # {} => 31 \in Shifted(a)
           /\ \A b : (b \cap (31 .. 63) # {} => 31 \in b) =>
                     (b \cap Shifted(a) = {} <=> a \notin b)
<1>1. a % 32 = a
  OBVIOUS
<1>2. CASE a = 31
  BY <1>1, <1>2 DEF Shifted
<1>3. CASE a # 31
  BY <1>1, <1>3 DEF Shifted
<1> QED BY <1>2, <1>3

\* Stacks: pushing, popping and replacing the top.
LEMMA PushFacts ==
    ASSUME NEW T, NEW s \in Seq(T), NEW x \in T
    PROVE  /\ Append(s, x) \in Seq(T) /\ Len(Append(s, x)) = Len(s) + 1
           /\ \A i \in 1 .. Len(s) : Append(s, x)[i] = s[i]
           /\ Append(s, x)[Len(s) + 1] = x /\ Append(s, x) # <<>>
OBVIOUS

\* A stack without its top.
LEMMA PopFacts ==
    ASSUME NEW T, NEW s \in Seq(T), s # <<>>
    PROVE  /\ Pop(s) \in Seq(T) /\ Len(Pop(s)) = Len(s) - 1 /\ Len(s) \in Nat \ {0}
           /\ \A i \in 1 .. Len(s) - 1 : Pop(s)[i] = s[i]
           /\ Top(s) \in T /\ Top(s) = s[Len(s)]
           /\ Len(s) = 1 => Pop(s) = <<>>
<1>1. Len(s) \in Nat \ {0}
  OBVIOUS
<1>2. /\ Pop(s) \in Seq(T) /\ Len(Pop(s)) = Len(s) - 1
      /\ \A i \in 1 .. Len(s) - 1 : Pop(s)[i] = s[i]
  <2> DEFINE n == Len(s) - 1
  <2>1. n \in Nat /\ \A i \in 1 .. n : s[i] \in T
    BY <1>1
  <2> HIDE DEF n
  <2>2. /\ SubSeq(s, 1, n) \in Seq(T)
        /\ Len(SubSeq(s, 1, n)) = IF 1 <= n THEN n - 1 + 1 ELSE 0
        /\ \A i \in 1 .. n - 1 + 1 : SubSeq(s, 1, n)[i] = s[1 + i - 1]
    BY <2>1, SubSeqProperties
  <2>3. /\ Len(SubSeq(s, 1, n)) = n
        /\ \A i \in 1 .. n : SubSeq(s, 1, n)[i] = s[i]
    BY <2>1, <2>2
  <2> QED BY <2>2, <2>3 DEF Pop, n
<1>3. Top(s) \in T /\ Top(s) = s[Len(s)]
  BY <1>1 DEF Top
<1>4. Len(s) = 1 => Pop(s) = <<>>
  BY SubSeqEmpty DEF Pop
<1> QED BY <1>1, <1>2, <1>3, <1>4

\* A stack whose top is replaced.
LEMMA ReplaceFacts ==
    ASSUME NEW T, NEW s \in Seq(T), s # <<>>, NEW x \in T
    PROVE  /\ Append(Pop(s), x) \in Seq(T) /\ Len(Append(Pop(s), x)) = Len(s)
           /\ Append(Pop(s), x) # <<>>
           /\ \A i \in 1 .. Len(s) - 1 : Append(Pop(s), x)[i] = s[i]
           /\ Append(Pop(s), x)[Len(s)] = x
<1>1. Pop(s) \in Seq(T) /\ Len(Pop(s)) = Len(s) - 1 /\ Len(s) \in Nat \ {0}
      /\ \A i \in 1 .. Len(s) - 1 : Pop(s)[i] = s[i]
  BY PopFacts
<1>2. /\ Append(Pop(s), x) \in Seq(T) /\ Len(Append(Pop(s), x)) = Len(Pop(s)) + 1
      /\ \A i \in 1 .. Len(Pop(s)) : Append(Pop(s), x)[i] = Pop(s)[i]
      /\ Append(Pop(s), x)[Len(Pop(s)) + 1] = x /\ Append(Pop(s), x) # <<>>
  BY <1>1, PushFacts
<1> QED BY <1>1, <1>2

-----------------------------------------------------------------------------
(***************************************************************************)
(* Every program, whatever its threads, callbacks and exceptions do.       *)
(***************************************************************************)
RuntimeInv ==
    /\ profile_info \in ProfileType /\ call_stack \in Seq(Id) /\ calls \in [Site -> Nat]
    /\ initialized \in BOOLEAN
    /\ OneCallTooMany
    /\ ~initialized => profile_info = [s \in Id |-> NoReport]

\* One more call of site s: init_call creates the report or counts in it.
LEMMA InitCallCounts ==
    ASSUME RuntimeInv, NEW s \in Site, init_call(s),
           calls' = IF initialized THEN [calls EXCEPT ![s] = @ + 1] ELSE calls
    PROVE  RuntimeInv'
<1> USE DEF RuntimeInv
<1>0. s \in Id /\ s # First /\ nargs[s] \in Nat
  BY IdAssumption, NargsAssumption DEF Id, Target
<1>1. CASE ~initialized
  BY <1>1 DEF init_call, runtime, OneCallTooMany
<1>2. CASE initialized
  <2> DEFINE old == ReportOf(s)
             new == [old EXCEPT !.num_calls = @ + 1]
  <2>1. /\ initialized' = initialized /\ call_stack' = Append(call_stack, s)
        /\ profile_info' = [profile_info EXCEPT ![s] = new]
        /\ calls' = [calls EXCEPT ![s] = calls[s] + 1]
    BY <1>0, <1>2 DEF init_call, ProfileType
  <2>2. old \in Report /\ new \in Report /\ old.num_calls = calls[s] + 1
    <3>1. CASE profile_info[s] = NoReport
      <4>1. prof_report(nargs[s]) \in Report
        BY <1>0, ReportTypes
      <4>2. prof_report(nargs[s]).num_calls = 1 /\ calls[s] = 0
        BY <3>1 DEF prof_report, OneCallTooMany
      <4> QED BY <3>1, <4>1, <4>2, ReportTypes DEF ReportOf
    <3>2. CASE profile_info[s] # NoReport
      BY <1>0, <3>2, ReportTypes DEF ProfileType, OneCallTooMany, ReportOf
    <3> QED BY <3>1, <3>2
  <2>3. new.num_calls = calls[s] + 2 /\ new # NoReport
    BY <2>2, ReportIsNotMissing DEF Report
  <2> HIDE DEF old, new
  <2>4. profile_info' \in ProfileType /\ calls' \in [Site -> Nat]
    BY <1>0, <2>1, <2>2 DEF ProfileType
  <2>5. OneCallTooMany'
    <3> SUFFICES ASSUME NEW c \in Site
                 PROVE  IF profile_info'[c] = NoReport THEN calls'[c] = 0
                        ELSE profile_info'[c].num_calls = calls'[c] + 1
      BY DEF OneCallTooMany
    <3>1. CASE c = s
      BY <1>0, <2>1, <2>3, <3>1 DEF ProfileType
    <3>2. CASE c # s
      BY <2>1, <3>2 DEF OneCallTooMany, ProfileType, Id
    <3> QED BY <3>1, <3>2
  <2> QED BY <1>0, <1>2, <2>1, <2>4, <2>5
<1> QED BY <1>1, <1>2

\* Marking an evaluation leaves the counts of calls alone.
LEMMA MarkCounts ==
    ASSUME RuntimeInv, NEW a \in Arg, NEW b, mark_eval(a, b),
           UNCHANGED <<initialized, call_stack, calls>>
    PROVE  RuntimeInv'
<1> USE DEF RuntimeInv
<1>1. CASE UNCHANGED profile_info
  BY <1>1 DEF OneCallTooMany
<1>2. CASE profile_info' # profile_info
  <2> DEFINE s == Top(call_stack)
  <2>1. /\ initialized /\ call_stack # <<>> /\ ~(profile_info[s].num_args <= a)
        /\ profile_info' = [profile_info EXCEPT ![s] = Counted(profile_info[s], a, b)]
    BY <1>2 DEF mark_eval, MarkFaults
  <2>2. s \in Id
    BY <2>1, PopFacts
  <2>3. profile_info[s] # NoReport
    BY <2>1, ArgAssumption DEF NoReport
  <2>4. profile_info[s] \in Report
    BY <2>2, <2>3 DEF ProfileType
  <2> HIDE DEF s
  <2>5. /\ Counted(profile_info[s], a, b) \in Report
        /\ Counted(profile_info[s], a, b).num_calls = profile_info[s].num_calls
    BY <2>4, ReportTypes DEF Counted, Report
  <2>6. profile_info' \in ProfileType
    BY <2>1, <2>2, <2>5 DEF ProfileType
  <2>7. OneCallTooMany'
    BY <2>1, <2>2, <2>3, <2>5, ReportIsNotMissing DEF OneCallTooMany, ProfileType, Id
  <2> QED BY <2>1, <2>6, <2>7
<1> QED BY <1>1, <1>2

\* Every step keeps the invariant of the runtime ...
LEMMA RuntimeKeeps == RuntimeInv /\ [Next]_vars => RuntimeInv'
<1> SUFFICES ASSUME RuntimeInv, [Next]_vars PROVE RuntimeInv'
  OBVIOUS
<1>1. CASE StartMain
  <2>1. /\ initialized' = TRUE /\ call_stack' = Append(call_stack, First) /\ calls' = calls
        /\ profile_info' = [profile_info EXCEPT ![First] = prof_report(2)]
    BY <1>1 DEF StartMain, init_prof, history, RuntimeInv, Id
  <2>2. prof_report(2) \in Report
    BY ReportTypes
  <2> HIDE DEF prof_report
  <2>3. profile_info' \in ProfileType /\ call_stack' \in Seq(Id)
    BY <2>1, <2>2 DEF RuntimeInv, ProfileType, Id
  <2>4. OneCallTooMany'
    BY <2>1, IdAssumption DEF RuntimeInv, OneCallTooMany, ProfileType, Id
  <2> QED BY <2>1, <2>3, <2>4 DEF RuntimeInv
<1>2. CASE \E t \in Thread, s \in Site : InitCall(t, s) \/ ExternCall(t, s)
  BY <1>2, InitCallCounts DEF InitCall, ExternCall
<1>3. CASE \E t \in Thread, a \in Arg : Evaluate(t, a)
  <2> PICK t \in Thread, a \in Arg : Evaluate(t, a)
    BY <1>3
  <2>1. UNCHANGED <<initialized, call_stack, calls>>
    BY DEF Evaluate
  <2>2. mark_eval(a, Frame(t).bits) \/ UNCHANGED profile_info
    BY DEF Evaluate
  <2>3. CASE UNCHANGED profile_info
    BY <2>1, <2>3 DEF RuntimeInv, OneCallTooMany
  <2> QED BY <2>1, <2>2, <2>3, MarkCounts
<1>4. CASE \E t \in Thread, a \in Arg : PassPhi(t, a)
  BY <1>4, MarkCounts DEF PassPhi, history
<1>5. CASE \E t \in Thread : EndCall(t)
  <2>1. /\ UNCHANGED <<initialized, profile_info, calls>>
        /\ call_stack' = call_stack \/ (call_stack # <<>> /\ call_stack' = Pop(call_stack))
    BY <1>5 DEF EndCall, end_call, history
  <2>2. call_stack' \in Seq(Id)
    BY <2>1, PopFacts DEF RuntimeInv
  <2> QED BY <2>1, <2>2 DEF RuntimeInv, OneCallTooMany
<1>6. CASE \/ DumpAtReturn \/ UNCHANGED vars
           \/ \E t \in Thread : Callback(t) \/ Ret(t) \/ Unwind(t) \/ Exit(t)
  <2>1. UNCHANGED <<initialized, profile_info, call_stack, calls>>
    BY <1>6 DEF DumpAtReturn, vars, Callback, Ret, Unwind, Exit, runtime, history
  <2> QED BY <2>1 DEF RuntimeInv, OneCallTooMany
<1> QED BY <1>1, <1>2, <1>3, <1>4, <1>5, <1>6 DEF Next

\* ... which therefore holds of every program.
LEMMA RuntimeInvariance == Spec => []RuntimeInv
<1>1. Init => RuntimeInv
  <2> SUFFICES ASSUME Init PROVE RuntimeInv
    OBVIOUS
  <2>1. profile_info \in ProfileType /\ call_stack \in Seq(Id) /\ calls \in [Site -> Nat]
    BY DEF Init, ProfileType
  <2>2. OneCallTooMany
    BY DEF Init, OneCallTooMany, Id
  <2> QED BY <2>1, <2>2 DEF Init, RuntimeInv
<1> QED BY <1>1, RuntimeKeeps, PTL DEF Spec

\* In every program, with any number of threads and any control flow between
\* them, a report counts exactly one call more than were made: no call is lost
\* (init_call), and the first one is counted twice (prof_report).
THEOREM CallsAreCounted == Spec => []OneCallTooMany
<1>1. RuntimeInv => OneCallTooMany
  BY DEF RuntimeInv
<1> QED BY <1>1, RuntimeInvariance, PTL

-----------------------------------------------------------------------------
\* What is counted, as pairs of a key and a number.
LEMMA CountsAre ==
    ASSUME NEW n
    PROVE  /\ \A s, i : <<s, i>> \in Counts(n) <=> s \in DOMAIN n /\ i \in 1 .. n[s]
           /\ \A x \in Counts(n) : x = <<x[1], x[2]>>
BY DEF Counts

\* One more under some key is one more pair.
OneMore(n, s) == [n EXCEPT ![s] = @ + 1]
LEMMA CountOne ==
    ASSUME NEW S, NEW n \in [S -> Nat], NEW s \in S
    PROVE  \E x : x \notin Counts(n) /\ Counts(OneMore(n, s)) = Counts(n) \cup {x}
<1> DEFINE m == OneMore(n, s)
           x == <<s, n[s] + 1>>
<1>1. /\ m \in [S -> Nat] /\ m[s] = n[s] + 1 /\ n[s] \in Nat
      /\ \A r \in S \ {s} : m[r] = n[r]
  BY DEF OneMore
<1> HIDE DEF m
<1>2. x \notin Counts(n)
  BY <1>1, CountsAre
<1>3. \A r, i : <<r, i>> \in Counts(m) <=> <<r, i>> \in Counts(n) \/ <<r, i>> = x
  <2> TAKE r, i
  <2>1. /\ <<r, i>> \in Counts(m) <=> r \in S /\ i \in 1 .. m[r]
        /\ <<r, i>> \in Counts(n) <=> r \in S /\ i \in 1 .. n[r]
    BY <1>1, CountsAre
  <2>2. CASE r = s
    <3>1. i \in 1 .. n[s] + 1 <=> i \in 1 .. n[s] \/ i = n[s] + 1
      BY <1>1
    <3> QED BY <1>1, <2>1, <2>2, <3>1
  <2>3. CASE r # s
    BY <1>1, <2>1, <2>3
  <2> QED BY <2>2, <2>3
<1>4. /\ \A y \in Counts(m) : y = <<y[1], y[2]>>
      /\ \A y \in Counts(n) : y = <<y[1], y[2]>>
  BY CountsAre
<1> HIDE DEF x
<1>5. Counts(m) = Counts(n) \cup {x}
  <2>1. x = <<s, n[s] + 1>>
    BY DEF x
  <2> QED BY <1>3, <1>4, <2>1
<1> QED BY <1>1, <1>2, <1>5 DEF m

\* The counters of the reports, and those of the history in marked functions.
LEMMA CounterTypes ==
    ASSUME RuntimeInv, NEW a \in Arg
    PROVE  TotalEvals(a) \in [Id -> Nat] /\ UniqueEvals(a) \in [Id -> Nat]
<1>1. \A s \in Id : profile_info[s] # NoReport =>
          profile_info[s].arg_evals[a] \in Nat /\ profile_info[s].unique_arg_evals[a] \in Nat
  BY DEF RuntimeInv, ProfileType, Report, Counter
<1> QED BY <1>1 DEF TotalEvals, UniqueEvals

\* A mark counts one evaluation in the report on top of the shadow stack, and
\* one unique evaluation if the activation's bit was clear.
LEMMA MarkAdds ==
    ASSUME RuntimeInv, NEW a \in Arg, NEW b, mark_eval(a, b), initialized, ~fault'
    PROVE  \E s \in Id :
              /\ TotalEvals(a)' = OneMore(TotalEvals(a), s)
              /\ UniqueEvals(a)' = IF b \cap Shifted(a) = {}
                                   THEN OneMore(UniqueEvals(a), s) ELSE UniqueEvals(a)
              /\ \A c \in Arg \ {a} : /\ TotalEvals(c)' = TotalEvals(c)
                                      /\ UniqueEvals(c)' = UniqueEvals(c)
<1> DEFINE s == Top(call_stack)
           new == Counted(profile_info[s], a, b)
<1>1. /\ call_stack # <<>> /\ ~(profile_info[s].num_args <= a)
      /\ profile_info' = [profile_info EXCEPT ![s] = new]
  BY DEF mark_eval, MarkFaults
<1>2. s \in Id
  BY <1>1, PopFacts DEF RuntimeInv
<1>3. profile_info[s] # NoReport
  BY <1>1, ArgAssumption DEF NoReport
<1>4. profile_info[s] \in Report
  BY <1>2, <1>3 DEF RuntimeInv, ProfileType
<1> HIDE DEF s
<1>5. /\ new # NoReport
      /\ new.arg_evals[a] = profile_info[s].arg_evals[a] + 1
      /\ new.unique_arg_evals[a] = IF b \cap Shifted(a) = {}
                                   THEN profile_info[s].unique_arg_evals[a] + 1
                                   ELSE profile_info[s].unique_arg_evals[a]
      /\ \A c \in Arg \ {a} : /\ new.arg_evals[c] = profile_info[s].arg_evals[c]
                              /\ new.unique_arg_evals[c] = profile_info[s].unique_arg_evals[c]
  <2>1. /\ new.arg_evals = [profile_info[s].arg_evals EXCEPT ![a] = @ + 1]
        /\ new.unique_arg_evals = [profile_info[s].unique_arg_evals EXCEPT
                                      ![a] = IF b \cap Shifted(a) = {} THEN @ + 1 ELSE @]
    BY <1>4 DEF Counted, Report
  <2> QED BY <1>4, <2>1, ReportTypes, ReportIsNotMissing DEF Report, Counter
<1> HIDE DEF new
<1>6. profile_info'[s] = new /\ \A r \in Id \ {s} : profile_info'[r] = profile_info[r]
  BY <1>1, <1>2 DEF RuntimeInv, ProfileType
<1>7. TotalEvals(a)' = OneMore(TotalEvals(a), s)
  BY <1>2, <1>3, <1>5, <1>6 DEF TotalEvals, OneMore
<1>8. UniqueEvals(a)' = IF b \cap Shifted(a) = {}
                        THEN OneMore(UniqueEvals(a), s) ELSE UniqueEvals(a)
  BY <1>2, <1>3, <1>5, <1>6 DEF UniqueEvals, OneMore
<1>9. \A c \in Arg \ {a} : TotalEvals(c)' = TotalEvals(c) /\ UniqueEvals(c)' = UniqueEvals(c)
  BY <1>3, <1>5, <1>6 DEF TotalEvals, UniqueEvals
<1> QED BY <1>2, <1>7, <1>8, <1>9

\* A call counts no evaluation: a new report has counted nothing.
LEMMA CallAddsNone ==
    ASSUME RuntimeInv, NEW s \in Id, NEW n \in Nat, NEW k \in Nat,
           profile_info' = [profile_info EXCEPT ![s] =
               [(IF profile_info[s] = NoReport THEN prof_report(n) ELSE profile_info[s])
                   EXCEPT !.num_calls = k]]
    PROVE  \A a \in Arg : TotalEvals(a)' = TotalEvals(a) /\ UniqueEvals(a)' = UniqueEvals(a)
<1> DEFINE old == IF profile_info[s] = NoReport THEN prof_report(n) ELSE profile_info[s]
           new == [old EXCEPT !.num_calls = k]
<1>1. old \in Report
  BY ReportTypes DEF RuntimeInv, ProfileType
<1>2. /\ new \in Report /\ new.arg_evals = old.arg_evals
      /\ new.unique_arg_evals = old.unique_arg_evals
  BY <1>1 DEF Report
<1>3. profile_info[s] = NoReport =>
          \A a \in Arg : old.arg_evals[a] = 0 /\ old.unique_arg_evals[a] = 0
  BY DEF prof_report
<1>4. profile_info[s] # NoReport => old = profile_info[s]
  OBVIOUS
<1> HIDE DEF old, new
<1>5. /\ profile_info'[s] = new /\ new # NoReport
      /\ \A r \in Id \ {s} : profile_info'[r] = profile_info[r]
  BY <1>2, ReportIsNotMissing DEF RuntimeInv, ProfileType, old, new
<1>6. ASSUME NEW a \in Arg
      PROVE  TotalEvals(a)' = TotalEvals(a) /\ UniqueEvals(a)' = UniqueEvals(a)
  <2>1. profile_info[s] = NoReport => new.arg_evals[a] = 0 /\ new.unique_arg_evals[a] = 0
    BY <1>2, <1>3
  <2>2. profile_info[s] # NoReport =>
            /\ new.arg_evals[a] = profile_info[s].arg_evals[a]
            /\ new.unique_arg_evals[a] = profile_info[s].unique_arg_evals[a]
    BY <1>2, <1>4
  <2>3. ASSUME NEW r \in Id
        PROVE  /\ TotalEvals(a)'[r] = TotalEvals(a)[r]
               /\ UniqueEvals(a)'[r] = UniqueEvals(a)[r]
    <3>1. CASE r = s
      BY <1>5, <2>1, <2>2, <3>1 DEF TotalEvals, UniqueEvals
    <3>2. CASE r # s
      BY <1>5, <3>2 DEF TotalEvals, UniqueEvals
    <3> QED BY <3>1, <3>2
  <2> QED BY <2>3 DEF TotalEvals, UniqueEvals
<1> QED BY <1>6

\* One more in the history is one more in the marked functions, if its
\* function is one of them.
OneMoreOf(h, s, a) == [h EXCEPT ![s][a] = @ + 1]
LEMMA HistoryAdds ==
    ASSUME NEW h \in [Target -> Counter], NEW s \in Target, NEW a \in Arg
    PROVE  /\ OneMoreOf(h, s, a) \in [Target -> Counter] /\ InMarked(h, a) \in [Target -> Nat]
           /\ InMarked(OneMoreOf(h, s, a), a) =
                  IF IsMarked(s) THEN OneMore(InMarked(h, a), s) ELSE InMarked(h, a)
           /\ \A c \in Arg \ {a} : InMarked(OneMoreOf(h, s, a), c) = InMarked(h, c)
<1> DEFINE g == OneMoreOf(h, s, a)
<1>1. /\ g \in [Target -> Counter] /\ g[s][a] = h[s][a] + 1
      /\ \A c \in Arg \ {a} : g[s][c] = h[s][c]
      /\ \A r \in Target \ {s} : g[r] = h[r]
  BY DEF Counter, OneMoreOf
<1> HIDE DEF g
<1>2. InMarked(g, a) = IF IsMarked(s) THEN OneMore(InMarked(h, a), s) ELSE InMarked(h, a)
  BY <1>1 DEF InMarked, OneMore
<1>3. \A c \in Arg \ {a} : InMarked(g, c) = InMarked(h, c)
  BY <1>1 DEF InMarked
<1>4. InMarked(h, a) \in [Target -> Nat]
  BY DEF InMarked, Counter
<1> QED BY <1>1, <1>2, <1>3, <1>4 DEF g

\* Steps that run no mark count no evaluation.
LEMMA OtherCounts ==
    ASSUME RuntimeInv, [Next]_vars,
           \A t \in Thread, a \in Arg : ~Evaluate(t, a) /\ ~PassPhi(t, a)
    PROVE  /\ evals' = evals /\ uniq' = uniq
           /\ \A a \in Arg : TotalEvals(a)' = TotalEvals(a) /\ UniqueEvals(a)' = UniqueEvals(a)
<1>0. profile_info' = profile_info =>
          \A a \in Arg : TotalEvals(a)' = TotalEvals(a) /\ UniqueEvals(a)' = UniqueEvals(a)
  BY DEF TotalEvals, UniqueEvals
<1>1. CASE StartMain
  <2>1. /\ profile_info' = [profile_info EXCEPT
                              ![First] = IF @ = NoReport THEN prof_report(2) ELSE @]
        /\ evals' = evals /\ uniq' = uniq /\ profile_info[First] = NoReport
    BY <1>1 DEF StartMain, init_prof, history, RuntimeInv, Id
  <2>2. [prof_report(2) EXCEPT !.num_calls = 1] = prof_report(2)
    BY DEF prof_report
  <2>3. profile_info' = [profile_info EXCEPT ![First] =
            [(IF profile_info[First] = NoReport THEN prof_report(2) ELSE profile_info[First])
                EXCEPT !.num_calls = 1]]
    BY <2>1, <2>2
  <2> QED BY <2>1, <2>3, CallAddsNone DEF Id
<1>2. ASSUME NEW t \in Thread, NEW s \in Site, InitCall(t, s) \/ ExternCall(t, s)
      PROVE  /\ evals' = evals /\ uniq' = uniq
             /\ \A a \in Arg : TotalEvals(a)' = TotalEvals(a) /\ UniqueEvals(a)' = UniqueEvals(a)
  <2>1. init_call(s) /\ evals' = evals /\ uniq' = uniq
    BY <1>2 DEF InitCall, ExternCall
  <2>2. CASE ~initialized
    BY <1>0, <2>1, <2>2 DEF init_call, runtime
  <2>3. CASE initialized
    <3> DEFINE k == ReportOf(s).num_calls + 1
    <3>1. s \in Id /\ nargs[s] \in Nat
      BY NargsAssumption DEF Id, Target
    <3>2. ReportOf(s) \in Report
      BY <3>1, ReportTypes DEF ReportOf, RuntimeInv, ProfileType
    <3>3. k \in Nat
      BY <3>2 DEF Report
    <3>4. profile_info' = [profile_info EXCEPT ![s] = [ReportOf(s) EXCEPT !.num_calls = k]]
      BY <2>1, <2>3 DEF init_call
    <3> HIDE DEF k
    <3>5. \A a \in Arg : TotalEvals(a)' = TotalEvals(a) /\ UniqueEvals(a)' = UniqueEvals(a)
      BY <3>1, <3>3, <3>4, CallAddsNone DEF ReportOf
    <3> QED BY <2>1, <3>5
  <2> QED BY <2>2, <2>3
<1>3. CASE \/ DumpAtReturn \/ UNCHANGED vars
           \/ \E t \in Thread : Callback(t) \/ EndCall(t) \/ Ret(t) \/ Unwind(t) \/ Exit(t)
  <2>1. UNCHANGED <<profile_info, evals, uniq>>
    BY <1>3 DEF DumpAtReturn, vars, Callback, EndCall, Ret, Unwind, Exit, runtime, history
  <2> QED BY <1>0, <2>1
<1> QED BY <1>1, <1>2, <1>3 DEF Next

-----------------------------------------------------------------------------
(***************************************************************************)
(* A mark sets the activation's bit, and a later evaluation finds it set:  *)
(* what a phi's mark has counted is still owed to the activation.          *)
(***************************************************************************)
IsPending(f, a) == IsMarked(f.site) /\ f.bits \cap Shifted(a) # {} /\ a \notin f.used
Pending(a) ==
    {x \in Thread \X Nat : /\ x[2] \in 1 .. Len(frames[x[1]])
                           /\ IsPending(frames[x[1]][x[2]], a)}

\* There are at least as many in n as in h and in P together.
Covers(n, h, P) ==
    /\ IsFiniteSet(Counts(n)) /\ IsFiniteSet(Counts(h)) /\ IsFiniteSet(P)
    /\ Cardinality(Counts(n)) >= Cardinality(Counts(h)) + Cardinality(P)

\* A pushed activation, or fewer activations, owe nothing new.
LEMMA StackPending ==
    ASSUME frames \in [Thread -> Seq(FrameType)], NEW t \in Thread, NEW G \in Seq(FrameType),
           frames' = [frames EXCEPT ![t] = G],
           \A i \in 1 .. Len(G) : G[i].bits = {} \/ (i <= Len(frames[t]) /\ G[i] = frames[t][i])
    PROVE  /\ frames' \in [Thread -> Seq(FrameType)]
           /\ \A a \in Arg : Pending(a)' \subseteq Pending(a)
<1>1. frames' \in [Thread -> Seq(FrameType)] /\ frames'[t] = G
      /\ \A u \in Thread \ {t} : frames'[u] = frames[u]
  OBVIOUS
<1>2. ASSUME NEW a \in Arg, NEW u \in Thread, NEW i \in 1 .. Len(frames'[u]),
             IsPending(frames'[u][i], a)
      PROVE  i \in 1 .. Len(frames[u]) /\ IsPending(frames[u][i], a)
  <2>1. CASE u = t
    <3>1. G[i].bits # {}
      BY <1>1, <1>2, <2>1 DEF IsPending
    <3>2. i <= Len(frames[t]) /\ G[i] = frames[t][i] /\ Len(frames[t]) \in Nat /\ Len(G) \in Nat
      BY <1>1, <2>1, <3>1
    <3> QED BY <1>1, <1>2, <2>1, <3>2
  <2>2. CASE u # t
    BY <1>1, <1>2, <2>2
  <2> QED BY <2>1, <2>2
<1>3. ASSUME NEW a \in Arg, NEW x \in Pending(a)' PROVE x \in Pending(a)
  <2>1. /\ x \in Thread \X Nat /\ x[1] \in Thread
        /\ x[2] \in 1 .. Len(frames'[x[1]]) /\ IsPending(frames'[x[1]][x[2]], a)
    BY DEF Pending, IsPending, IsMarked
  <2>2. x[2] \in 1 .. Len(frames[x[1]]) /\ IsPending(frames[x[1]][x[2]], a)
    BY <1>2, <2>1
  <2> QED BY <2>1, <2>2 DEF Pending
<1> QED BY <1>1, <1>3

\* Steps that run no mark leave nothing more to be owed.
LEMMA OtherFrames ==
    ASSUME frames \in [Thread -> Seq(FrameType)], [Next]_vars,
           \A t \in Thread, a \in Arg : ~Evaluate(t, a) /\ ~PassPhi(t, a)
    PROVE  /\ frames' \in [Thread -> Seq(FrameType)]
           /\ \A a \in Arg : Pending(a)' \subseteq Pending(a)
<1>0. frames' = frames => \A a \in Arg : Pending(a)' \subseteq Pending(a)
  BY DEF Pending, IsPending
<1>n. \A s \in Target : NewFrame(s) \in FrameType /\ NewFrame(s).bits = {}
  BY DEF NewFrame, FrameType
<1>1. CASE StartMain
  <2> DEFINE G == <<NewFrame(First)>>
  <2>1. frames' = [frames EXCEPT ![Main] = G] /\ Main \in Thread
    BY <1>1, ThreadAssumption DEF StartMain
  <2>2. G \in Seq(FrameType) /\ \A i \in 1 .. Len(G) : G[i].bits = {}
    <3>1. NewFrame(First) \in FrameType /\ NewFrame(First).bits = {}
      BY <1>n DEF Target, Id
    <3> QED BY <3>1
  <2> HIDE DEF G
  <2> QED BY <2>1, <2>2, StackPending
<1>2. ASSUME NEW t \in Thread, NEW s \in Target,
             frames' = [frames EXCEPT ![t] = Append(@, NewFrame(s))]
      PROVE  /\ frames' \in [Thread -> Seq(FrameType)]
             /\ \A a \in Arg : Pending(a)' \subseteq Pending(a)
  <2> DEFINE F == frames[t]
             G == Append(F, NewFrame(s))
  <2>1. F \in Seq(FrameType) /\ Len(F) \in Nat
    OBVIOUS
  <2>2. /\ G \in Seq(FrameType) /\ Len(G) = Len(F) + 1
        /\ \A i \in 1 .. Len(F) : G[i] = F[i]
        /\ G[Len(F) + 1] = NewFrame(s)
    BY <1>n, <2>1, PushFacts
  <2>3. frames' = [frames EXCEPT ![t] = G]
    BY <1>2
  <2> HIDE DEF G
  <2>4. \A i \in 1 .. Len(G) : G[i].bits = {} \/ (i <= Len(F) /\ G[i] = F[i])
    <3>1. \A i \in 1 .. Len(G) : i \in 1 .. Len(F) \/ i = Len(F) + 1
      BY <2>1, <2>2
    <3> QED BY <1>n, <2>1, <2>2, <3>1
  <2> QED BY <2>2, <2>3, <2>4, StackPending
<1>3. ASSUME NEW t \in Thread, NEW d \in 0 .. Len(frames[t]),
             frames' = [frames EXCEPT ![t] = SubSeq(@, 1, d)]
      PROVE  /\ frames' \in [Thread -> Seq(FrameType)]
             /\ \A a \in Arg : Pending(a)' \subseteq Pending(a)
  <2> DEFINE F == frames[t]
             G == SubSeq(F, 1, d)
  <2>1. F \in Seq(FrameType) /\ Len(F) \in Nat /\ d \in Nat /\ \A i \in 1 .. d : F[i] \in FrameType
    OBVIOUS
  <2>2. /\ G \in Seq(FrameType) /\ Len(G) = d
        /\ \A i \in 1 .. d : G[i] = F[i]
    <3> HIDE DEF F
    <3>1. /\ SubSeq(F, 1, d) \in Seq(FrameType)
          /\ Len(SubSeq(F, 1, d)) = IF 1 <= d THEN d - 1 + 1 ELSE 0
          /\ \A i \in 1 .. d - 1 + 1 : SubSeq(F, 1, d)[i] = F[1 + i - 1]
      BY <2>1, SubSeqProperties
    <3> QED BY <2>1, <3>1
  <2>3. frames' = [frames EXCEPT ![t] = G]
    BY <1>3
  <2> HIDE DEF G
  <2>4. \A i \in 1 .. Len(G) : i <= Len(F) /\ G[i] = F[i]
    BY <2>1, <2>2
  <2> QED BY <2>2, <2>3, <2>4, StackPending
<1>4. ASSUME NEW t \in Thread, NEW s \in Site, InitCall(t, s)
      PROVE  frames' \in [Thread -> Seq(FrameType)] /\ \A a \in Arg : Pending(a)' \subseteq Pending(a)
  BY <1>2, <1>4 DEF InitCall, Target, Id
<1>5. ASSUME NEW t \in Thread, Callback(t)
      PROVE  frames' \in [Thread -> Seq(FrameType)] /\ \A a \in Arg : Pending(a)' \subseteq Pending(a)
  BY <1>2, <1>5 DEF Callback, Target
<1>6. ASSUME NEW t \in Thread, Ret(t) \/ Unwind(t)
      PROVE  frames' \in [Thread -> Seq(FrameType)] /\ \A a \in Arg : Pending(a)' \subseteq Pending(a)
  <2>1. CASE Ret(t)
    <3>1. frames[t] # <<>> /\ frames' = [frames EXCEPT ![t] = SubSeq(@, 1, Len(@) - 1)]
      BY <2>1 DEF Ret, Running, Pop
    <3>2. Len(frames[t]) - 1 \in 0 .. Len(frames[t])
      BY <3>1, PopFacts
    <3> QED BY <1>3, <3>1, <3>2
  <2>2. CASE Unwind(t)
    <3>1. PICK d \in 1 .. Len(frames[t]) : frames' = [frames EXCEPT ![t] = SubSeq(@, 1, d)]
      BY <2>2 DEF Unwind
    <3>2. d \in 0 .. Len(frames[t])
      BY <3>1
    <3> QED BY <1>3, <3>1, <3>2
  <2> QED BY <1>6, <2>1, <2>2
<1>7. CASE \/ DumpAtReturn \/ UNCHANGED vars
           \/ \E t \in Thread : EndCall(t) \/ Exit(t) \/ \E s \in Site : ExternCall(t, s)
  <2>1. frames' = frames
    BY <1>7 DEF DumpAtReturn, vars, EndCall, Exit, ExternCall
  <2> QED BY <1>0, <2>1
<1> QED BY <1>1, <1>4, <1>5, <1>6, <1>7 DEF Next

\* An activation is changed in place: it alone may owe more or less.
LEMMA ReplacePending ==
    ASSUME frames \in [Thread -> Seq(FrameType)], NEW t \in Thread, frames[t] # <<>>,
           NEW g \in FrameType, frames' = WithFrame(t, g)
    PROVE  /\ frames' \in [Thread -> Seq(FrameType)]
           /\ \E z : \A c \in Arg :
                 /\ z \in Pending(c) <=> IsPending(Frame(t), c)
                 /\ Pending(c)' = (Pending(c) \ {z}) \cup IF IsPending(g, c) THEN {z} ELSE {}
<1> DEFINE F == frames[t]
           G == Append(Pop(F), g)
           z == <<t, Len(F)>>
<1>1. F \in Seq(FrameType) /\ F # <<>> /\ Len(F) \in Nat \ {0} /\ Frame(t) = F[Len(F)]
  BY PopFacts DEF Frame
<1>2. /\ G \in Seq(FrameType) /\ Len(G) = Len(F) /\ G[Len(F)] = g
      /\ \A i \in 1 .. Len(F) - 1 : G[i] = F[i]
  BY <1>1, ReplaceFacts
<1>3. frames' = [frames EXCEPT ![t] = G]
  BY DEF WithFrame
<1> HIDE DEF G
<1>4. /\ frames' \in [Thread -> Seq(FrameType)] /\ frames'[t] = G
      /\ \A u \in Thread \ {t} : frames'[u] = frames[u]
  BY <1>2, <1>3
<1>5. ASSUME NEW u \in Thread, NEW i, <<u, i>> # z
      PROVE  i \in 1 .. Len(frames'[u]) <=> i \in 1 .. Len(frames[u])
  BY <1>2, <1>4
<1>6. ASSUME NEW u \in Thread, NEW i \in 1 .. Len(frames[u]), <<u, i>> # z
      PROVE  frames'[u][i] = frames[u][i]
  <2>1. CASE u = t
    <3>1. i # Len(F) /\ i \in 1 .. Len(F)
      BY <1>6, <2>1
    <3>2. i \in 1 .. Len(F) - 1
      BY <1>1, <3>1
    <3> QED BY <1>2, <1>4, <2>1, <3>2
  <2>2. CASE u # t
    BY <1>4, <2>2
  <2> QED BY <2>1, <2>2
<1>7. ASSUME NEW c \in Arg
      PROVE  /\ z \in Pending(c) <=> IsPending(Frame(t), c)
             /\ z \in Pending(c)' <=> IsPending(g, c)
  <2>1. z \in Thread \X Nat /\ z[1] = t /\ z[2] = Len(F) /\ Len(F) \in 1 .. Len(F)
    BY <1>1
  <2>2. z \in Pending(c) <=> IsPending(F[Len(F)], c)
    BY <2>1 DEF Pending
  <2>3. z \in Pending(c)' <=> Len(F) \in 1 .. Len(frames'[t]) /\ IsPending(frames'[t][Len(F)], c)
    BY <2>1 DEF Pending, IsPending, IsMarked
  <2> QED BY <1>1, <1>2, <1>4, <2>1, <2>2, <2>3
<1>8. ASSUME NEW c \in Arg, NEW x, x # z
      PROVE  x \in Pending(c)' <=> x \in Pending(c)
  <2>1. CASE x \in Thread \X Nat
    <3>1. x = <<x[1], x[2]>> /\ x[1] \in Thread
      BY <2>1
    <3>2. /\ x \in Pending(c) <=> x[2] \in 1 .. Len(frames[x[1]]) /\ IsPending(frames[x[1]][x[2]], c)
          /\ x \in Pending(c)' <=> x[2] \in 1 .. Len(frames'[x[1]]) /\ IsPending(frames'[x[1]][x[2]], c)
      BY <2>1 DEF Pending, IsPending, IsMarked
    <3> QED BY <1>5, <1>6, <1>8, <3>1, <3>2
  <2>2. CASE x \notin Thread \X Nat
    BY <2>2 DEF Pending
  <2> QED BY <2>1, <2>2
<1> HIDE DEF z
<1>9. ASSUME NEW c \in Arg
      PROVE  /\ z \in Pending(c) <=> IsPending(Frame(t), c)
             /\ Pending(c)' = (Pending(c) \ {z}) \cup IF IsPending(g, c) THEN {z} ELSE {}
  BY <1>7, <1>8
<1> QED BY <1>4, <1>9

\* How the balance is kept: nothing new is owed; one is counted and at most
\* one, in the history or owed, is new; what was owed enters the history.
LEMMA Balance ==
    ASSUME NEW n, NEW h, NEW P, Covers(n, h, P), NEW n2, NEW h2, NEW P2,
           \/ /\ Counts(n2) = Counts(n) /\ Counts(h2) = Counts(h) /\ P2 \subseteq P
           \/ /\ \E x : x \notin Counts(n) /\ Counts(n2) = Counts(n) \cup {x}
              /\ \/ P2 \subseteq P /\ \E y : Counts(h2) \subseteq Counts(h) \cup {y}
                 \/ Counts(h2) = Counts(h) /\ \E z : P2 \subseteq P \cup {z}
           \/ /\ Counts(n2) = Counts(n)
              /\ \E y : Counts(h2) = Counts(h) \cup {y}
              /\ \E z \in P : P2 \subseteq P \ {z}
    PROVE  Covers(n2, h2, P2)
<1> DEFINE N == Counts(n)
           H == Counts(h)
           N2 == Counts(n2)
           H2 == Counts(h2)
<1>0. /\ IsFiniteSet(N) /\ IsFiniteSet(H) /\ IsFiniteSet(P)
      /\ Cardinality(N) \in Nat /\ Cardinality(H) \in Nat /\ Cardinality(P) \in Nat
      /\ Cardinality(N) >= Cardinality(H) + Cardinality(P)
  BY FS_CardinalityType DEF Covers
<1> HIDE DEF N, H, N2, H2
<1>1. ASSUME NEW A, NEW B, IsFiniteSet(B), A \subseteq B
      PROVE  IsFiniteSet(A) /\ Cardinality(A) <= Cardinality(B)
             /\ Cardinality(A) \in Nat /\ Cardinality(B) \in Nat
  BY <1>1, FS_Subset, FS_CardinalityType
<1>2. ASSUME NEW A, NEW B, NEW x, IsFiniteSet(B), A \subseteq B \cup {x}
      PROVE  IsFiniteSet(A) /\ Cardinality(A) <= Cardinality(B) + 1
             /\ Cardinality(A) \in Nat /\ Cardinality(B) \in Nat
  <2>0. Cardinality(B) \in Nat /\ IsFiniteSet(B)
    BY <1>2, FS_CardinalityType
  <2>1. IsFiniteSet(B \cup {x}) /\ Cardinality(B \cup {x}) <= Cardinality(B) + 1
    BY <2>0, FS_AddElement
  <2> QED BY <1>1, <1>2, <2>1
<1>3. CASE N2 = N /\ H2 = H /\ P2 \subseteq P
  <2>1. IsFiniteSet(P2) /\ Cardinality(P2) <= Cardinality(P) /\ Cardinality(P2) \in Nat
    BY <1>0, <1>1, <1>3
  <2> QED BY <1>0, <1>3, <2>1 DEF Covers, N, H, N2, H2
<1>4. ASSUME NEW x, x \notin N, N2 = N \cup {x},
             \/ P2 \subseteq P /\ \E y : H2 \subseteq H \cup {y}
             \/ H2 = H /\ \E z : P2 \subseteq P \cup {z}
      PROVE  Covers(n2, h2, P2)
  <2>1. IsFiniteSet(N2) /\ Cardinality(N2) = Cardinality(N) + 1
    BY <1>0, <1>4, FS_AddElement
  <2>2. /\ IsFiniteSet(H2) /\ IsFiniteSet(P2) /\ Cardinality(H2) \in Nat /\ Cardinality(P2) \in Nat
        /\ Cardinality(H2) + Cardinality(P2) <= Cardinality(H) + Cardinality(P) + 1
    <3>1. CASE P2 \subseteq P /\ \E y : H2 \subseteq H \cup {y}
      <4>1. IsFiniteSet(P2) /\ Cardinality(P2) <= Cardinality(P) /\ Cardinality(P2) \in Nat
        BY <1>0, <1>1, <3>1
      <4>2. IsFiniteSet(H2) /\ Cardinality(H2) <= Cardinality(H) + 1 /\ Cardinality(H2) \in Nat
        BY <1>0, <1>2, <3>1
      <4> QED BY <1>0, <4>1, <4>2
    <3>2. CASE H2 = H /\ \E z : P2 \subseteq P \cup {z}
      <4>1. IsFiniteSet(P2) /\ Cardinality(P2) <= Cardinality(P) + 1 /\ Cardinality(P2) \in Nat
        BY <1>0, <1>2, <3>2
      <4> QED BY <1>0, <3>2, <4>1
    <3> QED BY <1>4, <3>1, <3>2
  <2> QED BY <1>0, <2>1, <2>2 DEF Covers, N2, H2
<1>5. ASSUME NEW y, NEW z \in P, N2 = N, H2 = H \cup {y}, P2 \subseteq P \ {z}
      PROVE  Covers(n2, h2, P2)
  <2>1. IsFiniteSet(H2) /\ Cardinality(H2) <= Cardinality(H) + 1 /\ Cardinality(H2) \in Nat
    BY <1>0, <1>2, <1>5
  <2>2. IsFiniteSet(P \ {z}) /\ Cardinality(P \ {z}) = Cardinality(P) - 1
    BY <1>0, FS_RemoveElement
  <2>3. /\ IsFiniteSet(P2) /\ Cardinality(P2) <= Cardinality(P \ {z})
        /\ Cardinality(P2) \in Nat
    BY <1>1, <1>5, <2>2
  <2> QED BY <1>0, <1>5, <2>1, <2>2, <2>3 DEF Covers, N, N2, H2
<1> QED BY <1>3, <1>4, <1>5 DEF N, H, N2, H2

\* Shifted bits stay in the word, and below 32 those of two arguments differ.
LEMMA ShiftsDiffer ==
    /\ \A a \in Nat : Shifted(a) \subseteq 0 .. 63
    /\ \A a, c \in 0 .. 31 : a # c => Shifted(a) \cap Shifted(c) = {}
<1>1. ASSUME NEW a \in Nat PROVE Shifted(a) \subseteq 0 .. 63
  <2>1. a % 32 \in 0 .. 31
    OBVIOUS
  <2> QED BY <2>1 DEF Shifted
<1>2. ASSUME NEW a \in 0 .. 31, NEW c \in 0 .. 31, a # c
      PROVE  Shifted(a) \cap Shifted(c) = {}
  <2>1. a % 32 = a /\ c % 32 = c
    OBVIOUS
  <2> QED BY <1>2, <2>1 DEF Shifted
<1> QED BY <1>1, <1>2

\* What an evaluation and a phi's mark do to the activation.
LEMMA MarkedFrame ==
    ASSUME frames \in [Thread -> Seq(FrameType)], NEW t \in Thread, NEW a \in Arg
    PROVE  /\ Evaluate(t, a) =>
                  /\ frames[t] # <<>> /\ Frame(t) \in FrameType
                  /\ \E g \in FrameType :
                        /\ frames' = WithFrame(t, g) /\ g.site = Frame(t).site
                        /\ g.bits = IF IsMarked(Frame(t).site) THEN MarkedBits(a, Frame(t).bits)
                                    ELSE Frame(t).bits
                        /\ g.used = IF initialized THEN Frame(t).used \cup {a} ELSE Frame(t).used
           /\ PassPhi(t, a) =>
                  /\ frames[t] # <<>> /\ Frame(t) \in FrameType
                  /\ \E g \in FrameType :
                        /\ frames' = WithFrame(t, g) /\ g.site = Frame(t).site
                        /\ g.bits = MarkedBits(a, Frame(t).bits)
                        /\ g.used = Frame(t).used
<1> DEFINE f == Frame(t)
<1>1. frames[t] # <<>> => f \in FrameType
  BY PopFacts DEF Frame
<1>2. \A b \in SUBSET (0 .. 63) : MarkedBits(a, b) \in SUBSET (0 .. 63)
  BY ShiftsDiffer, ArgAssumption DEF MarkedBits
<1>3. ASSUME Evaluate(t, a)
      PROVE  /\ frames[t] # <<>> /\ f \in FrameType
             /\ \E g \in FrameType :
                   /\ frames' = WithFrame(t, g) /\ g.site = f.site
                   /\ g.bits = IF IsMarked(f.site) THEN MarkedBits(a, f.bits) ELSE f.bits
                   /\ g.used = IF initialized THEN f.used \cup {a} ELSE f.used
  <2> DEFINE B == IF IsMarked(f.site) THEN MarkedBits(a, f.bits) ELSE f.bits
             U == IF initialized THEN f.used \cup {a} ELSE f.used
             g == [f EXCEPT !.bits = B, !.used = U]
  <2>1. frames[t] # <<>> /\ f \in FrameType
    BY <1>1, <1>3 DEF Evaluate, Running
  <2>2. f.bits \in SUBSET (0 .. 63) /\ f.used \in SUBSET Arg /\ f.site \in Target
    BY <2>1 DEF FrameType
  <2>3. B \in SUBSET (0 .. 63) /\ U \in SUBSET Arg
    BY <1>2, <2>2
  <2>4. frames' = WithFrame(t, [f EXCEPT !.bits = IF IsMarked(f.site) THEN MarkedBits(a, @) ELSE @,
                                         !.used = IF initialized THEN @ \cup {a} ELSE @])
    BY <1>3 DEF Evaluate
  <2>5. frames' = WithFrame(t, g)
    BY <2>4
  <2> HIDE DEF B, U, f
  <2>6. g \in FrameType /\ g.site = f.site /\ g.bits = B /\ g.used = U
    BY <2>1, <2>3 DEF FrameType
  <2> QED BY <2>1, <2>5, <2>6 DEF B, U
<1>4. ASSUME PassPhi(t, a)
      PROVE  /\ frames[t] # <<>> /\ f \in FrameType
             /\ \E g \in FrameType :
                   /\ frames' = WithFrame(t, g) /\ g.site = f.site
                   /\ g.bits = MarkedBits(a, f.bits) /\ g.used = f.used
  <2> DEFINE B == MarkedBits(a, f.bits)
             g == [f EXCEPT !.bits = B]
  <2>1. frames[t] # <<>> /\ f \in FrameType
    BY <1>1, <1>4 DEF PassPhi, Running
  <2>2. frames' = WithFrame(t, g)
    BY <1>4 DEF PassPhi
  <2>3. B \in SUBSET (0 .. 63)
    BY <1>2, <2>1 DEF FrameType
  <2> HIDE DEF B, f
  <2>4. g \in FrameType /\ g.site = f.site /\ g.bits = B /\ g.used = f.used
    BY <2>1, <2>3 DEF FrameType
  <2> QED BY <2>1, <2>2, <2>4 DEF B
<1> QED BY <1>3, <1>4

\* No step touches foreign memory and goes on.
LEMMA FaultEnds == [Next]_vars /\ fault => UNCHANGED fault
<1> SUFFICES ASSUME [Next]_vars, fault PROVE UNCHANGED fault
  OBVIOUS
<1>1. ~StartMain /\ ~DumpAtReturn
  BY DEF StartMain, DumpAtReturn, Running
<1>2. ASSUME NEW t \in Thread, NEW s \in Site PROVE ~InitCall(t, s) /\ ~ExternCall(t, s)
  BY DEF InitCall, ExternCall, Running
<1>3. ASSUME NEW t \in Thread, NEW a \in Arg PROVE ~Evaluate(t, a) /\ ~PassPhi(t, a)
  BY DEF Evaluate, PassPhi, Running
<1>4. ASSUME NEW t \in Thread
      PROVE  ~Callback(t) /\ ~EndCall(t) /\ ~Ret(t) /\ ~Unwind(t) /\ ~Exit(t)
  BY DEF Callback, EndCall, Ret, Unwind, Exit, Running
<1> QED BY <1>1, <1>2, <1>3, <1>4 DEF Next, vars

\* A step that evaluates nothing and marks nothing keeps the history.
LEMMA HistoryKept ==
    ASSUME evals' = evals, uniq' = uniq
    PROVE  \A a \in Arg : InMarked(evals, a)' = InMarked(evals, a)
                          /\ InMarked(uniq, a)' = InMarked(uniq, a)
BY DEF InMarked, IsMarked

-----------------------------------------------------------------------------
\* The reports together count at least the evaluations of marked functions.
EvalsInv ==
    /\ frames \in [Thread -> Seq(FrameType)] /\ evals \in [Target -> Counter]
    /\ ~fault => \A a \in Arg : Covers(TotalEvals(a), InMarked(evals, a), {})

\* In terms of what is counted: a mark adds one, ...
LEMMA MarkCounted ==
    ASSUME RuntimeInv, NEW a \in Arg, NEW b, mark_eval(a, b), ~fault'
    PROVE  /\ ~initialized => \A c \in Arg : /\ TotalEvals(c)' = TotalEvals(c)
                                             /\ UniqueEvals(c)' = UniqueEvals(c)
           /\ \A c \in Arg \ {a} : /\ TotalEvals(c)' = TotalEvals(c)
                                   /\ UniqueEvals(c)' = UniqueEvals(c)
           /\ initialized =>
                 /\ \E x : /\ x \notin Counts(TotalEvals(a))
                           /\ Counts(TotalEvals(a)') = Counts(TotalEvals(a)) \cup {x}
                 /\ IF b \cap Shifted(a) = {}
                    THEN \E x : /\ x \notin Counts(UniqueEvals(a))
                                /\ Counts(UniqueEvals(a)') = Counts(UniqueEvals(a)) \cup {x}
                    ELSE UniqueEvals(a)' = UniqueEvals(a)
<1>1. CASE ~initialized
  BY <1>1 DEF mark_eval, TotalEvals, UniqueEvals
<1>2. CASE initialized
  <2>1. PICK s \in Id :
           /\ TotalEvals(a)' = OneMore(TotalEvals(a), s)
           /\ UniqueEvals(a)' = IF b \cap Shifted(a) = {}
                                THEN OneMore(UniqueEvals(a), s) ELSE UniqueEvals(a)
           /\ \A c \in Arg \ {a} : /\ TotalEvals(c)' = TotalEvals(c)
                                   /\ UniqueEvals(c)' = UniqueEvals(c)
    BY <1>2, MarkAdds
  <2>2. TotalEvals(a) \in [Id -> Nat] /\ UniqueEvals(a) \in [Id -> Nat]
    BY CounterTypes
  <2>3. \E x : /\ x \notin Counts(TotalEvals(a))
               /\ Counts(OneMore(TotalEvals(a), s)) = Counts(TotalEvals(a)) \cup {x}
    BY <2>2, CountOne
  <2>4. \E x : /\ x \notin Counts(UniqueEvals(a))
               /\ Counts(OneMore(UniqueEvals(a), s)) = Counts(UniqueEvals(a)) \cup {x}
    BY <2>2, CountOne
  <2> QED BY <1>2, <2>1, <2>3, <2>4
<1> QED BY <1>1, <1>2

\* ... and one more in the history is one more if its function is marked.
LEMMA HistoryCounted ==
    ASSUME NEW h \in [Target -> Counter], NEW s \in Target, NEW a \in Arg
    PROVE  IF IsMarked(s)
           THEN \E y : Counts(InMarked(OneMoreOf(h, s, a), a)) = Counts(InMarked(h, a)) \cup {y}
           ELSE InMarked(OneMoreOf(h, s, a), a) = InMarked(h, a)
<1>1. /\ InMarked(h, a) \in [Target -> Nat]
      /\ InMarked(OneMoreOf(h, s, a), a) =
             IF IsMarked(s) THEN OneMore(InMarked(h, a), s) ELSE InMarked(h, a)
  BY HistoryAdds
<1> DEFINE n == InMarked(h, a)
<1>2. n \in [Target -> Nat]
  BY <1>1
<1> HIDE DEF n
<1>3. PICK x : x \notin Counts(n) /\ Counts(OneMore(n, s)) = Counts(n) \cup {x}
  BY <1>2, CountOne
<1> QED BY <1>1, <1>3 DEF n

\* A mark counts what the instruction evaluates.
LEMMA EvaluateCounts ==
    ASSUME RuntimeInv, EvalsInv, NEW t \in Thread, NEW a \in Arg, Evaluate(t, a)
    PROVE  EvalsInv'
<1> DEFINE f == Frame(t)
<1>1. /\ f.site \in Target /\ frames' \in [Thread -> Seq(FrameType)] /\ ~fault
      /\ evals \in [Target -> Counter]
  <2>1. frames \in [Thread -> Seq(FrameType)] /\ evals \in [Target -> Counter]
    BY DEF EvalsInv
  <2>2. frames[t] # <<>> /\ f \in FrameType /\ \E g \in FrameType : frames' = WithFrame(t, g)
    BY <2>1, MarkedFrame
  <2>3. frames' \in [Thread -> Seq(FrameType)]
    BY <2>1, <2>2, ReplacePending
  <2> QED BY <2>1, <2>2, <2>3 DEF Evaluate, Running, FrameType
<1>2. /\ IF IsMarked(f.site) THEN mark_eval(a, f.bits) ELSE UNCHANGED profile_info
      /\ IF initialized THEN evals' = OneMoreOf(evals, f.site, a) ELSE evals' = evals
  BY DEF Evaluate, OneMoreOf
<1> HIDE DEF f
<1>3. /\ evals' \in [Target -> Counter]
      /\ \A c \in Arg \ {a} : InMarked(evals', c) = InMarked(evals, c)
      /\ IF IsMarked(f.site) /\ initialized
         THEN \E y : Counts(InMarked(evals', a)) = Counts(InMarked(evals, a)) \cup {y}
         ELSE InMarked(evals', a) = InMarked(evals, a)
  <2>1. CASE initialized
    <3>1. evals' = OneMoreOf(evals, f.site, a)
      BY <1>2, <2>1
    <3>2. /\ OneMoreOf(evals, f.site, a) \in [Target -> Counter]
          /\ \A c \in Arg \ {a} : InMarked(OneMoreOf(evals, f.site, a), c) = InMarked(evals, c)
      BY <1>1, HistoryAdds
    <3>3. IF IsMarked(f.site)
          THEN \E y : Counts(InMarked(OneMoreOf(evals, f.site, a), a))
                          = Counts(InMarked(evals, a)) \cup {y}
          ELSE InMarked(OneMoreOf(evals, f.site, a), a) = InMarked(evals, a)
      BY <1>1, HistoryCounted
    <3> QED BY <2>1, <3>1, <3>2, <3>3
  <2>2. CASE ~initialized
    BY <1>1, <1>2, <2>2
  <2> QED BY <2>1, <2>2
<1>4. ASSUME ~fault', NEW c \in Arg
      PROVE  Covers(TotalEvals(c)', InMarked(evals', c), {})
  <2>0. Covers(TotalEvals(c), InMarked(evals, c), {})
    BY <1>1 DEF EvalsInv
  <2>1. CASE ~IsMarked(f.site) \/ ~initialized \/ c # a
    <3>1. TotalEvals(c)' = TotalEvals(c)
      <4>1. CASE ~IsMarked(f.site)
        BY <1>2, <4>1 DEF TotalEvals
      <4>2. CASE IsMarked(f.site)
        BY <1>2, <1>4, <2>1, <4>2, MarkCounted
      <4> QED BY <4>1, <4>2
    <3>2. InMarked(evals', c) = InMarked(evals, c)
      BY <1>3, <2>1
    <3> QED BY <2>0, <3>1, <3>2
  <2>2. CASE IsMarked(f.site) /\ initialized /\ c = a
    <3>1. \E x : /\ x \notin Counts(TotalEvals(a))
                 /\ Counts(TotalEvals(a)') = Counts(TotalEvals(a)) \cup {x}
      BY <1>2, <1>4, <2>2, MarkCounted
    <3>2. \E y : Counts(InMarked(evals', a)) = Counts(InMarked(evals, a)) \cup {y}
      BY <1>3, <2>2
    <3> QED BY <2>0, <2>2, <3>1, <3>2, Balance
  <2> QED BY <2>1, <2>2
<1>5. ~fault' => \A c \in Arg : Covers(TotalEvals(c)', InMarked(evals', c), {})
  BY <1>4
<1> QED BY <1>1, <1>3, <1>5 DEF EvalsInv, InMarked, IsMarked

\* A phi's mark counts too much, never too little.
LEMMA PassPhiCounts ==
    ASSUME RuntimeInv, EvalsInv, NEW t \in Thread, NEW a \in Arg, PassPhi(t, a)
    PROVE  EvalsInv'
<1>1. /\ frames' \in [Thread -> Seq(FrameType)] /\ ~fault /\ evals' = evals /\ uniq' = uniq
      /\ evals \in [Target -> Counter] /\ mark_eval(a, Frame(t).bits)
  <2>1. frames \in [Thread -> Seq(FrameType)] /\ evals \in [Target -> Counter]
    BY DEF EvalsInv
  <2>2. frames[t] # <<>> /\ \E g \in FrameType : frames' = WithFrame(t, g)
    BY <2>1, MarkedFrame
  <2>3. frames' \in [Thread -> Seq(FrameType)]
    BY <2>1, <2>2, ReplacePending
  <2> QED BY <2>1, <2>2, <2>3 DEF PassPhi, Running, history
<1>2. ASSUME ~fault', NEW c \in Arg
      PROVE  Covers(TotalEvals(c)', InMarked(evals, c), {})
  <2>0. Covers(TotalEvals(c), InMarked(evals, c), {})
    BY <1>1 DEF EvalsInv
  <2>1. CASE ~initialized \/ c # a
    <3>1. TotalEvals(c)' = TotalEvals(c)
      BY <1>1, <1>2, <2>1, MarkCounted
    <3> QED BY <2>0, <3>1
  <2>2. CASE initialized /\ c = a
    <3>1. \E x : /\ x \notin Counts(TotalEvals(a))
                 /\ Counts(TotalEvals(a)') = Counts(TotalEvals(a)) \cup {x}
      BY <1>1, <1>2, <2>2, MarkCounted
    <3> QED BY <2>0, <2>2, <3>1, Balance
  <2> QED BY <2>1, <2>2
<1>3. ~fault' => \A c \in Arg : Covers(TotalEvals(c)', InMarked(evals', c), {})
  BY <1>1, <1>2
<1> QED BY <1>1, <1>3 DEF EvalsInv, InMarked, IsMarked

\* Whatever a program does, no evaluation is lost: its mark is counted, in
\* some report, unless it touches foreign memory (mark_eval).
THEOREM EvaluationsAreCounted == Spec => []NoEvaluationLost
<1>1. Init => EvalsInv
  <2> SUFFICES ASSUME Init PROVE EvalsInv
    OBVIOUS
  <2>1. frames \in [Thread -> Seq(FrameType)] /\ evals \in [Target -> Counter]
    BY DEF Init, Counter
  <2>2. ASSUME NEW a \in Arg PROVE Covers(TotalEvals(a), InMarked(evals, a), {})
    <3>1. TotalEvals(a) = [s \in Id |-> 0] /\ InMarked(evals, a) = [s \in Target |-> 0]
      BY DEF Init, TotalEvals, InMarked
    <3>2. \A S : Counts([s \in S |-> 0]) = {}
      BY DEF Counts
    <3> QED BY <3>1, <3>2, FS_EmptySet DEF Covers
  <2> QED BY <2>1, <2>2 DEF EvalsInv
<1>2. RuntimeInv /\ EvalsInv /\ [Next]_vars => EvalsInv'
  <2> SUFFICES ASSUME RuntimeInv, EvalsInv, [Next]_vars PROVE EvalsInv'
    OBVIOUS
  <2>1. CASE \A t \in Thread, a \in Arg : ~Evaluate(t, a) /\ ~PassPhi(t, a)
    <3>1. /\ evals' = evals /\ uniq' = uniq
          /\ \A a \in Arg : TotalEvals(a)' = TotalEvals(a)
      BY <2>1, OtherCounts
    <3>2. frames' \in [Thread -> Seq(FrameType)]
      BY <2>1, OtherFrames DEF EvalsInv
    <3>3. \A a \in Arg : InMarked(evals, a)' = InMarked(evals, a)
      BY <3>1, HistoryKept
    <3>4. ~fault' => ~fault
      BY FaultEnds
    <3> QED BY <3>1, <3>2, <3>3, <3>4 DEF EvalsInv
  <2> QED BY <2>1, EvaluateCounts, PassPhiCounts
<1>3. EvalsInv => NoEvaluationLost
  <2> SUFFICES ASSUME EvalsInv, ~fault, NEW a \in Arg
               PROVE  Cardinality(Counts(TotalEvals(a)))
                          >= Cardinality(Counts(InMarked(evals, a)))
    BY DEF NoEvaluationLost
  <2>1. Covers(TotalEvals(a), InMarked(evals, a), {})
    BY DEF EvalsInv
  <2>2. /\ Cardinality(Counts(TotalEvals(a))) \in Nat
        /\ Cardinality(Counts(InMarked(evals, a))) \in Nat
    BY <2>1, FS_CardinalityType DEF Covers
  <2> QED BY <2>1, <2>2, FS_EmptySet DEF Covers
<1> QED BY <1>1, <1>2, <1>3, RuntimeInvariance, PTL DEF Spec

-----------------------------------------------------------------------------
\* In the unique counters, the reports together count at least the activations
\* that evaluated the argument and those that a phi's mark was counted for.
UsesInv ==
    /\ frames \in [Thread -> Seq(FrameType)] /\ uniq \in [Target -> Counter]
    /\ ~fault => \A a \in Arg : Covers(UniqueEvals(a), InMarked(uniq, a), Pending(a))

\* After a mark of argument a, the activation owes no more of the others.
LEMMA OthersKeep ==
    ASSUME Arg \subseteq 0 .. 31, NEW f \in FrameType, NEW g \in FrameType,
           NEW a \in Arg, NEW c \in Arg \ {a}, g.site = f.site,
           g.bits \subseteq f.bits \cup Shifted(a), f.used \subseteq g.used
    PROVE  IsPending(g, c) => IsPending(f, c)
<1>1. Shifted(a) \cap Shifted(c) = {}
  BY ShiftsDiffer
<1> QED BY <1>1 DEF IsPending

\* A mark counts the first evaluation of an activation, or was counted before
\* for a phi.
LEMMA EvaluateUses ==
    ASSUME Arg \subseteq 0 .. 31, RuntimeInv, UsesInv,
           NEW t \in Thread, NEW a \in Arg, Evaluate(t, a)
    PROVE  UsesInv'
<1> DEFINE f == Frame(t)
<1>0. /\ frames \in [Thread -> Seq(FrameType)] /\ uniq \in [Target -> Counter] /\ ~fault
      /\ \A c \in Arg : Covers(UniqueEvals(c), InMarked(uniq, c), Pending(c))
  BY DEF UsesInv, Evaluate, Running
<1>1. frames[t] # <<>> /\ f \in FrameType /\ f.site \in Target
  BY <1>0, MarkedFrame DEF FrameType
<1>2. PICK g \in FrameType :
         /\ frames' = WithFrame(t, g) /\ g.site = f.site
         /\ g.bits = IF IsMarked(f.site) THEN MarkedBits(a, f.bits) ELSE f.bits
         /\ g.used = IF initialized THEN f.used \cup {a} ELSE f.used
  BY <1>0, MarkedFrame
<1>3. /\ frames' \in [Thread -> Seq(FrameType)]
      /\ \E z : \A c \in Arg :
            /\ z \in Pending(c) <=> IsPending(f, c)
            /\ Pending(c)' = (Pending(c) \ {z}) \cup IF IsPending(g, c) THEN {z} ELSE {}
  BY <1>0, <1>1, <1>2, ReplacePending
<1>4. /\ IF IsMarked(f.site) THEN mark_eval(a, f.bits) ELSE UNCHANGED profile_info
      /\ uniq' = IF initialized THEN [uniq EXCEPT ![f.site][a] =
                                          IF a \in f.used THEN @ ELSE @ + 1] ELSE uniq
  BY DEF Evaluate
<1>5. uniq' = IF initialized /\ a \notin f.used THEN OneMoreOf(uniq, f.site, a) ELSE uniq
  <2>1. CASE initialized /\ a \in f.used
    <3>1. uniq' = [uniq EXCEPT ![f.site][a] = uniq[f.site][a]]
      BY <1>4, <2>1
    <3> QED BY <1>0, <1>1, <2>1, <3>1 DEF Counter
  <2> QED BY <1>4, <2>1 DEF OneMoreOf
<1> HIDE DEF f
<1>6. PICK z : \A c \in Arg :
         /\ z \in Pending(c) <=> IsPending(f, c)
         /\ Pending(c)' = (Pending(c) \ {z}) \cup IF IsPending(g, c) THEN {z} ELSE {}
  BY <1>3
<1>7. /\ uniq' \in [Target -> Counter]
      /\ \A c \in Arg \ {a} : InMarked(uniq', c) = InMarked(uniq, c)
      /\ IF IsMarked(f.site) /\ initialized /\ a \notin f.used
         THEN \E y : Counts(InMarked(uniq', a)) = Counts(InMarked(uniq, a)) \cup {y}
         ELSE InMarked(uniq', a) = InMarked(uniq, a)
  <2>1. CASE initialized /\ a \notin f.used
    <3>1. uniq' = OneMoreOf(uniq, f.site, a)
      BY <1>5, <2>1
    <3>2. /\ OneMoreOf(uniq, f.site, a) \in [Target -> Counter]
          /\ \A c \in Arg \ {a} : InMarked(OneMoreOf(uniq, f.site, a), c) = InMarked(uniq, c)
      BY <1>0, <1>1, HistoryAdds
    <3>3. IF IsMarked(f.site)
          THEN \E y : Counts(InMarked(OneMoreOf(uniq, f.site, a), a))
                          = Counts(InMarked(uniq, a)) \cup {y}
          ELSE InMarked(OneMoreOf(uniq, f.site, a), a) = InMarked(uniq, a)
      BY <1>0, <1>1, HistoryCounted
    <3> QED BY <2>1, <3>1, <3>2, <3>3
  <2>2. CASE ~initialized \/ a \in f.used
    BY <1>0, <1>5, <2>2
  <2> QED BY <2>1, <2>2
<1>8. g.bits \subseteq f.bits \cup Shifted(a) /\ f.used \subseteq g.used
  BY <1>2 DEF MarkedBits
<1>9. ASSUME ~fault', NEW c \in Arg
      PROVE  Covers(UniqueEvals(c)', InMarked(uniq', c), Pending(c)')
  <2>0. /\ Pending(c)' \subseteq Pending(c) \cup {z}
        /\ (IsPending(g, c) => IsPending(f, c)) => Pending(c)' \subseteq Pending(c)
        /\ ~IsPending(g, c) => Pending(c)' \subseteq Pending(c) \ {z}
    BY <1>6
  <2>1. CASE c # a
    <3>1. IsPending(g, c) => IsPending(f, c)
      BY <1>1, <1>2, <1>8, <2>1, OthersKeep
    <3>2. UniqueEvals(c)' = UniqueEvals(c)
      <4>1. CASE IsMarked(f.site)
        BY <1>4, <1>9, <2>1, <4>1, MarkCounted
      <4>2. CASE ~IsMarked(f.site)
        BY <1>4, <4>2 DEF UniqueEvals
      <4> QED BY <4>1, <4>2
    <3>3. InMarked(uniq', c) = InMarked(uniq, c)
      BY <1>7, <2>1
    <3> QED BY <1>0, <2>0, <3>1, <3>2, <3>3, Balance
  <2>2. CASE c = a /\ (~IsMarked(f.site) \/ ~initialized)
    <3>1. IsPending(g, a) => IsPending(f, a)
      BY <1>2, <2>2 DEF IsPending, MarkedBits
    <3>2. UniqueEvals(a)' = UniqueEvals(a)
      <4>1. CASE IsMarked(f.site)
        BY <1>4, <1>9, <2>2, <4>1, MarkCounted
      <4>2. CASE ~IsMarked(f.site)
        BY <1>4, <4>2 DEF UniqueEvals
      <4> QED BY <4>1, <4>2
    <3>3. InMarked(uniq', a) = InMarked(uniq, a)
      BY <1>7, <2>2
    <3> QED BY <1>0, <2>0, <2>2, <3>1, <3>2, <3>3, Balance
  <2>3. CASE c = a /\ IsMarked(f.site) /\ initialized
    <3>1. ~IsPending(g, a)
      BY <1>2, <2>3 DEF IsPending
    <3>2. Pending(a)' \subseteq Pending(a) \ {z} /\ Pending(a)' \subseteq Pending(a)
      BY <2>0, <2>3, <3>1
    <3>3. IF f.bits \cap Shifted(a) = {}
          THEN \E x : /\ x \notin Counts(UniqueEvals(a))
                      /\ Counts(UniqueEvals(a)') = Counts(UniqueEvals(a)) \cup {x}
          ELSE UniqueEvals(a)' = UniqueEvals(a)
      BY <1>4, <1>9, <2>3, MarkCounted
    <3>4. CASE f.bits \cap Shifted(a) = {}
      <4>1. \E y : Counts(InMarked(uniq', a)) \subseteq Counts(InMarked(uniq, a)) \cup {y}
        BY <1>7, <2>3
      <4>2. Covers(UniqueEvals(a), InMarked(uniq, a), Pending(a))
        BY <1>0
      <4>3. \E x : /\ x \notin Counts(UniqueEvals(a))
                   /\ Counts(UniqueEvals(a)') = Counts(UniqueEvals(a)) \cup {x}
        BY <3>3, <3>4
      <4> QED BY <2>3, <3>2, <4>1, <4>2, <4>3, Balance
    <3>5. CASE f.bits \cap Shifted(a) # {} /\ a \in f.used
      <4>1. InMarked(uniq', a) = InMarked(uniq, a)
        BY <1>7, <3>5
      <4> QED BY <1>0, <2>3, <3>2, <3>3, <3>5, <4>1, Balance
    <3>6. CASE f.bits \cap Shifted(a) # {} /\ a \notin f.used
      <4>1. z \in Pending(a)
        BY <1>6, <2>3, <3>6 DEF IsPending
      <4>2. \E y : Counts(InMarked(uniq', a)) = Counts(InMarked(uniq, a)) \cup {y}
        BY <1>7, <2>3, <3>6
      <4>3. UniqueEvals(a)' = UniqueEvals(a)
        BY <3>3, <3>6
      <4>4. Covers(UniqueEvals(a), InMarked(uniq, a), Pending(a))
        BY <1>0
      <4>5. \E w \in Pending(a) : Pending(a)' \subseteq Pending(a) \ {w}
        BY <3>2, <4>1
      <4>6. Covers(UniqueEvals(a)', InMarked(uniq', a), Pending(a)')
        BY <4>2, <4>3, <4>4, <4>5, Balance
      <4> QED BY <2>3, <4>6
    <3> QED BY <3>4, <3>5, <3>6
  <2> QED BY <2>1, <2>2, <2>3
<1>10. ~fault' => \A c \in Arg : Covers(UniqueEvals(c)', InMarked(uniq', c), Pending(c)')
  BY <1>9
<1> QED BY <1>3, <1>7, <1>10 DEF UsesInv, InMarked, IsMarked

\* A phi's mark is owed to the activation until it evaluates the argument.
LEMMA PassPhiUses ==
    ASSUME Arg \subseteq 0 .. 31, RuntimeInv, UsesInv,
           NEW t \in Thread, NEW a \in Arg, PassPhi(t, a)
    PROVE  UsesInv'
<1> DEFINE f == Frame(t)
<1>0. /\ frames \in [Thread -> Seq(FrameType)] /\ uniq \in [Target -> Counter] /\ ~fault
      /\ \A c \in Arg : Covers(UniqueEvals(c), InMarked(uniq, c), Pending(c))
      /\ mark_eval(a, f.bits) /\ uniq' = uniq
  BY DEF UsesInv, PassPhi, Running, history
<1>1. frames[t] # <<>> /\ f \in FrameType
  BY <1>0, MarkedFrame
<1>2. PICK g \in FrameType :
         /\ frames' = WithFrame(t, g) /\ g.site = f.site
         /\ g.bits = MarkedBits(a, f.bits) /\ g.used = f.used
  BY <1>0, MarkedFrame
<1>3. /\ frames' \in [Thread -> Seq(FrameType)]
      /\ \E z : \A c \in Arg :
            /\ z \in Pending(c) <=> IsPending(f, c)
            /\ Pending(c)' = (Pending(c) \ {z}) \cup IF IsPending(g, c) THEN {z} ELSE {}
  BY <1>0, <1>1, <1>2, ReplacePending
<1> HIDE DEF f
<1>4. PICK z : \A c \in Arg :
         /\ z \in Pending(c) <=> IsPending(f, c)
         /\ Pending(c)' = (Pending(c) \ {z}) \cup IF IsPending(g, c) THEN {z} ELSE {}
  BY <1>3
<1>5. g.bits \subseteq f.bits \cup Shifted(a) /\ f.used \subseteq g.used
  BY <1>2 DEF MarkedBits
<1>6. ASSUME ~fault', NEW c \in Arg
      PROVE  Covers(UniqueEvals(c)', InMarked(uniq, c), Pending(c)')
  <2>0. /\ Pending(c)' \subseteq Pending(c) \cup {z}
        /\ (IsPending(g, c) => IsPending(f, c)) => Pending(c)' \subseteq Pending(c)
    BY <1>4
  <2>1. CASE c = a /\ initialized /\ f.bits \cap Shifted(a) = {}
    <3>1. \E x : /\ x \notin Counts(UniqueEvals(a))
                 /\ Counts(UniqueEvals(a)') = Counts(UniqueEvals(a)) \cup {x}
      BY <1>0, <1>6, <2>1, MarkCounted
    <3>2. Covers(UniqueEvals(a), InMarked(uniq, a), Pending(a))
      BY <1>0
    <3> QED BY <2>0, <2>1, <3>1, <3>2, Balance
  <2>2. CASE c # a \/ ~initialized \/ f.bits \cap Shifted(a) # {}
    <3>1. UniqueEvals(c)' = UniqueEvals(c)
      BY <1>0, <1>6, <2>2, MarkCounted
    <3>2. IsPending(g, c) => IsPending(f, c)
      <4>1. CASE c # a
        BY <1>1, <1>2, <1>5, <4>1, OthersKeep
      <4>2. CASE c = a
        BY <1>2, <2>2, <4>2 DEF IsPending, MarkedBits
      <4> QED BY <4>1, <4>2
    <3> QED BY <1>0, <2>0, <3>1, <3>2, Balance
  <2> QED BY <2>1, <2>2
<1>7. ~fault' => \A c \in Arg : Covers(UniqueEvals(c)', InMarked(uniq', c), Pending(c)')
  BY <1>0, <1>6
<1> QED BY <1>0, <1>3, <1>7 DEF UsesInv, InMarked, IsMarked

\* Nor is the use of an argument by an activation: with at most 32 arguments
\* the bitmap, whose bits survive whatever the shadow stack suffers, charges
\* every activation that evaluates the argument to some report (mark_eval).
THEOREM UsesAreCounted == ASSUME Arg \subseteq 0 .. 31 PROVE Spec => []NoUseLost
<1>1. Init => UsesInv
  <2> SUFFICES ASSUME Init PROVE UsesInv
    OBVIOUS
  <2>1. frames \in [Thread -> Seq(FrameType)] /\ uniq \in [Target -> Counter]
    BY DEF Init, Counter
  <2>2. ASSUME NEW a \in Arg PROVE Covers(UniqueEvals(a), InMarked(uniq, a), Pending(a))
    <3>1. UniqueEvals(a) = [s \in Id |-> 0] /\ InMarked(uniq, a) = [s \in Target |-> 0]
      BY DEF Init, UniqueEvals, InMarked
    <3>2. \A S : Counts([s \in S |-> 0]) = {}
      BY DEF Counts
    <3>3. Pending(a) = {}
      BY DEF Init, Pending
    <3> QED BY <3>1, <3>2, <3>3, FS_EmptySet DEF Covers
  <2> QED BY <2>1, <2>2 DEF UsesInv
<1>2. RuntimeInv /\ UsesInv /\ [Next]_vars => UsesInv'
  <2> SUFFICES ASSUME RuntimeInv, UsesInv, [Next]_vars PROVE UsesInv'
    OBVIOUS
  <2>1. CASE \A t \in Thread, a \in Arg : ~Evaluate(t, a) /\ ~PassPhi(t, a)
    <3>1. /\ evals' = evals /\ uniq' = uniq
          /\ \A a \in Arg : UniqueEvals(a)' = UniqueEvals(a)
      BY <2>1, OtherCounts
    <3>2. /\ frames' \in [Thread -> Seq(FrameType)]
          /\ \A a \in Arg : Pending(a)' \subseteq Pending(a)
      BY <2>1, OtherFrames DEF UsesInv
    <3>3. ASSUME ~fault', NEW a \in Arg
          PROVE  Covers(UniqueEvals(a)', InMarked(uniq', a), Pending(a)')
      <4>1. Covers(UniqueEvals(a), InMarked(uniq, a), Pending(a))
        BY <3>3, FaultEnds DEF UsesInv
      <4> QED BY <3>1, <3>2, <4>1, Balance
    <3>4. ~fault' => \A a \in Arg : Covers(UniqueEvals(a)', InMarked(uniq', a), Pending(a)')
      BY <3>3
    <3> QED BY <3>1, <3>2, <3>4 DEF UsesInv, InMarked, IsMarked
  <2> QED BY <2>1, EvaluateUses, PassPhiUses
<1>3. UsesInv => NoUseLost
  <2> SUFFICES ASSUME UsesInv, ~fault, NEW a \in Arg
               PROVE  Cardinality(Counts(UniqueEvals(a)))
                          >= Cardinality(Counts(InMarked(uniq, a)))
    BY DEF NoUseLost
  <2>1. Covers(UniqueEvals(a), InMarked(uniq, a), Pending(a))
    BY DEF UsesInv
  <2>2. /\ Cardinality(Counts(UniqueEvals(a))) \in Nat
        /\ Cardinality(Counts(InMarked(uniq, a))) \in Nat /\ Cardinality(Pending(a)) \in Nat
    BY <2>1, FS_CardinalityType DEF Covers
  <2> QED BY <2>1, <2>2 DEF Covers
<1> QED BY <1>1, <1>2, <1>3, RuntimeInvariance, PTL DEF Spec

-----------------------------------------------------------------------------
(***************************************************************************)
(* Plain programs.                                                         *)
(***************************************************************************)
\* Before anything runs, nothing is counted and both stacks are empty.
LEMMA InitPlain == Plain /\ Init => WInv
<1> SUFFICES ASSUME Plain, Init PROVE WInv
  OBVIOUS
<1>1. frames[Main] = <<>> /\ pc[Main] = "run" /\ Len(frames[Main]) = 0
  BY ThreadAssumption DEF Init
<1>2. TypeOK
  <2>1. profile_info \in ProfileType /\ frames \in [Thread -> Seq(FrameType)]
    BY DEF Init, ProfileType
  <2>2. evals \in [Target -> Counter] /\ uniq \in [Target -> Counter]
    BY DEF Init, Counter
  <2>3. call_stack \in Seq(Id) /\ pc \in [Thread -> {"run", "ended", "dumped"}]
    BY DEF Init
  <2>4. calls \in [Site -> Nat] /\ csv \in ProfileType \cup {NoFile}
    BY DEF Init
  <2>5. initialized \in BOOLEAN /\ fault \in BOOLEAN /\ exited \in BOOLEAN
    BY DEF Init
  <2> QED BY <2>1, <2>2, <2>3, <2>4, <2>5 DEF TypeOK
<1>3. StackMatches /\ BitsAreRight /\ ReportsExist /\ RoomIsRight
  BY <1>1 DEF Init, StackMatches, BitsAreRight, ReportsExist, RoomIsRight
<1>4. ControlIsRight
  BY <1>1 DEF Init, ControlIsRight
<1>5. ProfileIsExact /\ OneCallTooMany
  BY FeatureAssumption DEF Init, ProfileIsExact, ReportIsExact, OneCallTooMany, Id, Target
<1> QED BY <1>2, <1>3, <1>4, <1>5 DEF Init, WInv, NoFault

\* The shape of the state in a plain program.
LEMMA PlainShape ==
    ASSUME Plain, WInv
    PROVE  /\ frames \in [{Main} -> Seq(FrameType)] /\ frames[Main] \in Seq(FrameType)
           /\ Len(frames[Main]) \in Nat /\ pc \in [{Main} -> {"run", "ended", "dumped"}]
           /\ call_stack \in Seq(Id) /\ Len(call_stack) \in Nat
           /\ profile_info \in ProfileType /\ ~fault /\ initialized \in BOOLEAN
           /\ (frames[Main] = <<>> <=> Len(frames[Main]) = 0)
BY DEF Plain, WInv, TypeOK, NoFault

\* WInv keeps RuntimeInv, which RuntimeKeeps then carries over the step.
LEMMA PlainRuntime == WInv => RuntimeInv
BY DEF WInv, TypeOK, RuntimeInv, ControlIsRight

\* main starts: its report and its entry on the shadow stack are created.
LEMMA StartMainKeeps == Plain /\ WInv /\ StartMain => WInv'
<1> SUFFICES ASSUME Plain, WInv, StartMain PROVE WInv'
  OBVIOUS
<1>0. /\ frames[Main] = <<>> /\ pc[Main] = "run" /\ ~initialized /\ call_stack = <<>>
      /\ profile_info = [s \in Id |-> NoReport] /\ csv = NoFile
      /\ Len(frames[Main]) = 0
  BY PlainShape DEF WInv, StartMain, ControlIsRight, StackMatches
<1>1. /\ initialized' = TRUE /\ call_stack' = <<First>>
      /\ frames' = [frames EXCEPT ![Main] = <<NewFrame(First)>>]
      /\ profile_info' = [profile_info EXCEPT ![First] = prof_report(2)]
      /\ UNCHANGED <<csv, fault, pc, exited, calls, evals, uniq>>
  BY <1>0 DEF StartMain, init_prof, history, Id
<1>2. frames'[Main] = <<NewFrame(First)>>
  BY <1>1, PlainShape
<1>3. NewFrame(First) \in FrameType /\ NewFrame(First).site = First
      /\ NewFrame(First).bits = {} /\ NewFrame(First).used = {}
  BY DEF NewFrame, FrameType, Id, Target
<1>4. prof_report(2) \in Report /\ prof_report(2).num_args = 2
      /\ prof_report(2).unique_arg_evals = [a \in Arg |-> 0]
      /\ prof_report(2).arg_evals = [a \in Arg |-> 0]
  BY ReportTypes DEF prof_report
<1>5. profile_info'[First] = prof_report(2) /\ First \in Id
      /\ \A s \in Id \ {First} : profile_info'[s] = NoReport
  BY <1>0, <1>1 DEF Id
<1> HIDE DEF NewFrame, prof_report
<1>6. Len(frames'[Main]) = 1 /\ frames'[Main][1] = NewFrame(First) /\ frames'[Main] # <<>>
  BY <1>2
<1>7. RuntimeInv'
  BY RuntimeKeeps, PlainRuntime DEF Next
<1>8. TypeOK'
  <2>1. frames' \in [Thread -> Seq(FrameType)]
    BY <1>1, <1>3, PlainShape DEF Plain
  <2> QED BY <1>1, <1>7, <2>1 DEF WInv, TypeOK, RuntimeInv
<1>9. StackMatches'
  BY <1>0, <1>1, <1>3, <1>5, <1>6 DEF StackMatches, Open
<1>10. BitsAreRight' /\ ReportsExist' /\ RoomIsRight'
  <2>1. BitsAreRight'
    BY <1>1, <1>3, <1>6 DEF BitsAreRight, BitsOfFrame
  <2>2. ReportsExist'
    BY <1>3, <1>4, <1>5, <1>6, ReportIsNotMissing DEF ReportsExist
  <2>3. RoomIsRight'
    BY <1>4, <1>5, NargsAssumption DEF RoomIsRight
  <2> QED BY <2>1, <2>2, <2>3
<1>11. ControlIsRight'
  BY <1>0, <1>1, <1>6 DEF ControlIsRight
<1>12. ProfileIsExact'
  <2> SUFFICES ASSUME NEW s \in Marked PROVE ReportIsExact(profile_info, s)'
    BY DEF ProfileIsExact
  <2>1. s \in Id /\ \A a \in Arg : evals[s][a] = 0 /\ uniq[s][a] = 0
    BY <1>0, FeatureAssumption DEF WInv, ProfileIsExact, ReportIsExact
  <2>2. evals[s] \in [Arg -> Nat] /\ uniq[s] \in [Arg -> Nat]
    BY <2>1 DEF WInv, TypeOK, Counter, Target
  <2>3. evals[s] = [a \in Arg |-> 0] /\ uniq[s] = [a \in Arg |-> 0]
    BY <2>1, <2>2
  <2>4. CASE s = First
    BY <1>1, <1>4, <1>5, <2>3, <2>4, ReportIsNotMissing DEF ReportIsExact
  <2>5. CASE s # First
    BY <1>1, <1>5, <2>1, <2>5 DEF ReportIsExact
  <2> QED BY <2>4, <2>5
<1> QED BY <1>1, <1>7, <1>8, <1>9, <1>10, <1>11, <1>12 DEF WInv, NoFault, RuntimeInv

\* A step that leaves the runtime and the history alone keeps the profile
\* exact.
LEMMA ProfileUntouched ==
    ASSUME WInv, UNCHANGED <<profile_info, evals, uniq>>
    PROVE  ProfileIsExact'
BY DEF WInv, ProfileIsExact, ReportIsExact

\* A new frame on top of the real stack, whose call init_call pushed when the
\* runtime is initialised (InitCall), or which is a static constructor's
\* (Callback).
LEMMA PushKeeps ==
    ASSUME Plain, WInv, NEW s \in Target, s # First,
           pc[Main] = "run", csv = NoFile, csv' = csv, pc' = pc,
           frames' = [frames EXCEPT ![Main] = Append(@, NewFrame(s))],
           initialized' = initialized,
           IF initialized THEN s \in Id /\ call_stack' = Append(call_stack, s)
                          ELSE UNCHANGED call_stack
    PROVE  /\ frames' \in [Thread -> Seq(FrameType)]
           /\ StackMatches' /\ BitsAreRight'
           /\ frames'[Main] # <<>>
           /\ \A i \in 2 .. Len(frames'[Main]) : frames'[Main][i].site # First
           /\ \A i \in 1 .. Len(frames'[Main]) :
                 \/ i <= Len(frames[Main]) /\ frames'[Main][i] = frames[Main][i]
                 \/ i > Len(frames[Main]) /\ frames'[Main][i].site = s
<1> DEFINE F == frames[Main]
           G == Append(F, NewFrame(s))
           n == Len(F)
<1>0. F \in Seq(FrameType) /\ n \in Nat
  BY PlainShape
<1>1. NewFrame(s) \in FrameType /\ NewFrame(s).site = s
      /\ NewFrame(s).bits = {} /\ NewFrame(s).used = {}
  BY DEF NewFrame, FrameType
<1>2. frames'[Main] = G /\ frames' \in [Thread -> Seq(FrameType)]
  BY <1>0, <1>1, PlainShape DEF Plain
<1> HIDE DEF NewFrame
<1>3. /\ Len(G) = n + 1 /\ G[n + 1] = NewFrame(s) /\ G # <<>>
      /\ \A i \in 1 .. n : G[i] = F[i]
  BY <1>0, <1>1
<1>4. \A i \in 1 .. n + 1 : i \in 1 .. n \/ i = n + 1
  BY <1>0
<1>5. StackMatches'
  <2> HIDE DEF G
  <2>1. CASE initialized
    <3>1. Len(call_stack) = n /\ call_stack \in Seq(Id)
          /\ \A i \in 1 .. n : F[i].site \in Id /\ call_stack[i] = F[i].site
      <4>1. Open = n
        BY DEF Open
      <4>2. StackMatches
        BY DEF WInv
      <4>3. Len(call_stack) = n
            /\ \A i \in 1 .. n : F[i].site \in Id /\ (i <= n => call_stack[i] = F[i].site)
        BY <2>1, <4>1, <4>2 DEF StackMatches
      <4> QED BY <1>0, <4>3, PlainShape
    <3> DEFINE H == Append(call_stack, s)
    <3>2. Len(H) = n + 1 /\ H[n + 1] = s /\ \A i \in 1 .. n : H[i] = call_stack[i]
      BY <2>1, <3>1, <1>0
    <3>3. s \in Id /\ call_stack' = H
      BY <2>1
    <3> HIDE DEF H, F, n
    <3>4. \A i \in 1 .. n + 1 : G[i].site \in Id /\ H[i] = G[i].site
      BY <1>1, <1>3, <1>4, <3>1, <3>2, <3>3
    <3> QED BY <1>2, <1>3, <2>1, <3>2, <3>3, <3>4 DEF StackMatches, Open
  <2>2. CASE ~initialized
    <3>1. call_stack = <<>>
          /\ \A i \in 1 .. n : F[i].site # First /\ F[i].bits = {} /\ F[i].used = {}
      BY <2>2 DEF WInv, StackMatches
    <3> HIDE DEF F, n
    <3>2. \A i \in 1 .. n + 1 : G[i].site # First /\ G[i].bits = {} /\ G[i].used = {}
      BY <1>1, <1>3, <1>4, <3>1
    <3> QED BY <1>2, <1>3, <2>2, <3>1, <3>2 DEF StackMatches
  <2> QED BY <2>1, <2>2
<1>6. BitsAreRight'
  <2>1. \A i \in 1 .. n : BitsOfFrame(F[i])
    BY DEF WInv, BitsAreRight
  <2>2. BitsOfFrame(NewFrame(s))
    BY <1>1 DEF BitsOfFrame
  <2> HIDE DEF F, G, n
  <2> QED BY <1>2, <1>3, <1>4, <2>1, <2>2 DEF BitsAreRight
<1>7. \A i \in 2 .. n + 1 : G[i].site # First
  <2>1. \A i \in 2 .. n : F[i].site # First
    BY DEF WInv, ControlIsRight
  <2> HIDE DEF F, G
  <2> QED BY <1>0, <1>1, <1>3, <2>1
<1> HIDE DEF F, G, n
<1>8. \A i \in 1 .. n + 1 : (i <= n /\ G[i] = F[i]) \/ (i > n /\ G[i].site = s)
  BY <1>0, <1>1, <1>3
<1>9. /\ G # <<>> /\ \A i \in 2 .. Len(G) : G[i].site # First
      /\ \A i \in 1 .. Len(G) :
            (i <= Len(F) /\ G[i] = F[i]) \/ (i > Len(F) /\ G[i].site = s)
  BY <1>3, <1>7, <1>8 DEF n
<1> QED BY <1>2, <1>5, <1>6, <1>9 DEF F

\* While frames exist and main has not ended, the report file is unwritten.
LEMMA NotYetDumped ==
    ASSUME Plain, WInv, Running(Main), pc[Main] # "dumped"
    PROVE  csv = NoFile
BY DEF WInv, ControlIsRight, Running

\* A call of a function with a body.
LEMMA InitCallKeeps ==
    ASSUME Plain, WInv, NEW s \in Site, InitCall(Main, s)
    PROVE  WInv'
<1>0. /\ pc[Main] = "run" /\ csv = NoFile /\ s \in Id /\ s \in Target /\ s # First
      /\ init_call(s) /\ initialized' = initialized
      /\ frames' = [frames EXCEPT ![Main] = Append(@, NewFrame(s))]
      /\ UNCHANGED <<csv, fault, pc, exited, evals, uniq>>
  BY NotYetDumped, IdAssumption DEF InitCall, Id, Target, init_call, runtime
<1>1. RuntimeInv'
  <2>1. Next
    BY ThreadAssumption DEF Next
  <2> QED BY <2>1, RuntimeKeeps, PlainRuntime
<1>2. IF initialized THEN s \in Id /\ call_stack' = Append(call_stack, s)
                     ELSE UNCHANGED call_stack
  BY <1>0 DEF init_call, runtime
<1>3. /\ frames' \in [Thread -> Seq(FrameType)]
      /\ StackMatches' /\ BitsAreRight'
      /\ frames'[Main] # <<>>
      /\ \A i \in 2 .. Len(frames'[Main]) : frames'[Main][i].site # First
      /\ \A i \in 1 .. Len(frames'[Main]) :
            \/ i <= Len(frames[Main]) /\ frames'[Main][i] = frames[Main][i]
            \/ i > Len(frames[Main]) /\ frames'[Main][i].site = s
  BY <1>0, <1>2, PushKeeps
<1>4. TypeOK'
  BY <1>0, <1>1, <1>3 DEF WInv, TypeOK, RuntimeInv
<1>5. initialized =>
          /\ profile_info' = [profile_info EXCEPT ![s] = [ReportOf(s) EXCEPT !.num_calls = @ + 1]]
          /\ ReportOf(s) \in Report
  <2>1. profile_info[s] \in Report \cup {NoReport} /\ nargs[s] \in Nat
    BY <1>0, PlainShape, NargsAssumption DEF ProfileType
  <2>2. ReportOf(s) \in Report
    BY <2>1, ReportTypes DEF ReportOf
  <2> QED BY <1>0, <2>2 DEF init_call
<1>6. initialized => /\ profile_info'[s] \in Report
                     /\ profile_info'[s].num_args = ReportOf(s).num_args
                     /\ profile_info'[s].unique_arg_evals = ReportOf(s).unique_arg_evals
                     /\ profile_info'[s].arg_evals = ReportOf(s).arg_evals
                     /\ \A c \in Id \ {s} : profile_info'[c] = profile_info[c]
  <2> SUFFICES ASSUME initialized
               PROVE  /\ profile_info'[s] \in Report
                      /\ profile_info'[s].num_args = ReportOf(s).num_args
                      /\ profile_info'[s].unique_arg_evals = ReportOf(s).unique_arg_evals
                      /\ profile_info'[s].arg_evals = ReportOf(s).arg_evals
                      /\ \A c \in Id \ {s} : profile_info'[c] = profile_info[c]
    OBVIOUS
  <2> DEFINE r == ReportOf(s)
  <2>1. r \in Report
    BY <1>5
  <2> HIDE DEF r
  <2>2. profile_info'[s] = [r EXCEPT !.num_calls = @ + 1]
        /\ \A c \in Id \ {s} : profile_info'[c] = profile_info[c]
    BY <1>0, <1>5, PlainShape DEF ProfileType, r
  <2>3. [r EXCEPT !.num_calls = @ + 1] \in Report
    BY <2>1, ReportTypes
  <2> QED BY <2>1, <2>2, <2>3 DEF Report, r
<1>7. ~initialized => profile_info' = profile_info
  BY <1>0 DEF init_call, runtime
<1>8. ReportsExist'
  <2> SUFFICES ASSUME initialized, NEW i \in 1 .. Len(frames'[Main])
               PROVE  profile_info'[frames'[Main][i].site] # NoReport
    BY <1>0 DEF ReportsExist
  <2>2. CASE frames'[Main][i].site = s
    BY <1>6, <2>2, ReportIsNotMissing
  <2>3. CASE i <= Len(frames[Main]) /\ frames'[Main][i] = frames[Main][i] /\ frames'[Main][i].site # s
    <3>1. i \in 1 .. Len(frames[Main])
      BY <2>3, PlainShape
    <3>2. frames[Main][i].site \in Id /\ profile_info[frames[Main][i].site] # NoReport
      BY <3>1 DEF WInv, StackMatches, ReportsExist
    <3> QED BY <1>6, <2>3, <3>2
  <2> QED BY <1>3, <2>2, <2>3
<1>9. RoomIsRight'
  <2>1. CASE ~initialized
    BY <1>7, <2>1 DEF WInv, RoomIsRight
  <2>2. CASE initialized
    BY <1>0, <1>6, <2>2, ReportIsNotMissing, NargsAssumption
    DEF WInv, RoomIsRight, ReportOf, prof_report, Target
  <2> QED BY <2>1, <2>2
<1>10. ControlIsRight'
  BY <1>0, <1>1, <1>3 DEF ControlIsRight, RuntimeInv
<1>11. ProfileIsExact'
  <2>1. CASE ~initialized
    BY <1>0, <1>7, <2>1, ProfileUntouched
  <2>2. CASE initialized
    <3> SUFFICES ASSUME NEW c \in Marked PROVE ReportIsExact(profile_info, c)'
      BY DEF ProfileIsExact
    <3>1. c \in Id /\ ReportIsExact(profile_info, c)
      BY FeatureAssumption DEF WInv, ProfileIsExact
    <3>2. CASE c # s
      BY <1>0, <1>6, <2>2, <3>1, <3>2 DEF ReportIsExact
    <3>3. CASE c = s /\ profile_info[s] # NoReport
      BY <1>0, <1>6, <2>2, <3>1, <3>3, ReportIsNotMissing DEF ReportIsExact, ReportOf
    <3>4. CASE c = s /\ profile_info[s] = NoReport
      <4>1. evals[s] \in [Arg -> Nat] /\ uniq[s] \in [Arg -> Nat]
        BY <1>0 DEF WInv, TypeOK, Counter
      <4>2. \A a \in Arg : evals[s][a] = 0 /\ uniq[s][a] = 0
        BY <3>1, <3>4 DEF ReportIsExact
      <4>3. evals[s] = [a \in Arg |-> 0] /\ uniq[s] = [a \in Arg |-> 0]
        BY <4>1, <4>2
      <4> QED BY <1>0, <1>6, <2>2, <3>4, <4>3, ReportIsNotMissing
              DEF ReportIsExact, ReportOf, prof_report
    <3> QED BY <3>2, <3>3, <3>4
  <2> QED BY <2>1, <2>2
<1> QED BY <1>0, <1>1, <1>3, <1>4, <1>8, <1>9, <1>10, <1>11
        DEF WInv, NoFault, RuntimeInv

\* A static constructor starts; nothing of it reaches the runtime.
LEMMA CallbackKeeps ==
    ASSUME Plain, WInv, Callback(Main)
    PROVE  WInv'
<1>0. /\ pc[Main] = "run" /\ ~initialized /\ ~exited
      /\ frames' = [frames EXCEPT ![Main] = Append(@, NewFrame(NoSite))]
      /\ UNCHANGED <<initialized, profile_info, call_stack, csv, fault, pc, exited,
                     calls, evals, uniq>>
  BY DEF Callback, Plain, runtime, history
<1>1. csv = NoFile /\ NoSite \in Target /\ NoSite # First
  BY <1>0, IdAssumption DEF WInv, ControlIsRight, Id, Target
<1>2. RuntimeInv'
  <2>1. Next
    BY ThreadAssumption DEF Next
  <2> QED BY <2>1, RuntimeKeeps, PlainRuntime
<1>3. /\ frames' \in [Thread -> Seq(FrameType)]
      /\ StackMatches' /\ BitsAreRight' /\ frames'[Main] # <<>>
      /\ \A i \in 2 .. Len(frames'[Main]) : frames'[Main][i].site # First
  BY <1>0, <1>1, PushKeeps
<1>4. TypeOK'
  BY <1>0, <1>2, <1>3 DEF WInv, TypeOK, RuntimeInv
<1>5. ControlIsRight'
  BY <1>0, <1>1, <1>2, <1>3 DEF ControlIsRight, RuntimeInv
<1>6. ReportsExist' /\ RoomIsRight'
  BY <1>0 DEF WInv, ReportsExist, RoomIsRight
<1>7. ProfileIsExact'
  BY <1>0, ProfileUntouched
<1> QED BY <1>0, <1>2, <1>3, <1>4, <1>5, <1>6, <1>7 DEF WInv, NoFault, RuntimeInv

\* Only the file, or only the way out, changes.
LEMMA DumpKeeps ==
    ASSUME Plain, WInv, DumpAtReturn \/ Exit(Main)
    PROVE  WInv'
<1>0. /\ csv' = profile_info /\ frames[Main] # <<>> /\ ~exited
      /\ UNCHANGED <<initialized, profile_info, call_stack, fault, frames, calls, evals, uniq>>
      /\ \/ /\ pc[Main] = "ended" /\ pc' = [pc EXCEPT ![Main] = "dumped"]
            /\ Frame(Main).site = First /\ exited' = exited
         \/ pc' = pc /\ exited' = TRUE
  BY DEF DumpAtReturn, Exit, Running, dump, runtime, history
<1>1. \/ pc'[Main] = "dumped" /\ pc[Main] = "ended" /\ Frame(Main).site = First
      \/ pc'[Main] = pc[Main] /\ exited' = TRUE
  BY <1>0, PlainShape
<1>2. TypeOK'
  <2>1. pc' \in [Thread -> {"run", "ended", "dumped"}] /\ exited' \in BOOLEAN
    BY <1>0, PlainShape DEF Plain, WInv, TypeOK
  <2> QED BY <1>0, <2>1 DEF WInv, TypeOK
<1>3. StackMatches'
  <2>1. Open' = Open
    BY <1>0, <1>1 DEF Open
  <2> QED BY <1>0, <2>1 DEF WInv, StackMatches
<1>4. BitsAreRight' /\ ReportsExist' /\ RoomIsRight'
  BY <1>0 DEF WInv, BitsAreRight, BitsOfFrame, ReportsExist, RoomIsRight
<1>5. ControlIsRight'
  <2>1. pc'[Main] = "dumped" /\ ~exited' => initialized
    <3> SUFFICES ASSUME pc'[Main] = "dumped", ~exited', ~initialized PROVE FALSE
      OBVIOUS
    <3>1. Frame(Main).site = First
      BY <1>1
    <3>2. Frame(Main) = frames[Main][Len(frames[Main])]
          /\ Len(frames[Main]) \in 1 .. Len(frames[Main])
      BY <1>0, PlainShape DEF Frame, Top
    <3> QED BY <3>1, <3>2 DEF WInv, StackMatches
  <2> QED BY <1>0, <1>1, <2>1 DEF WInv, ControlIsRight, Frame
<1>6. ProfileIsExact' /\ OneCallTooMany'
  BY <1>0, ProfileUntouched DEF WInv, OneCallTooMany
<1> QED BY <1>0, <1>2, <1>3, <1>4, <1>5, <1>6 DEF WInv, NoFault

\* The end_call of the top frame finds that frame's call on the shadow stack.
LEMMA EndCallFindsOwn ==
    ASSUME Plain, WInv, Running(Main), pc[Main] = "run", initialized
    PROVE  /\ call_stack # <<>> /\ Len(call_stack) = Len(frames[Main])
           /\ Top(call_stack) = Frame(Main).site /\ Frame(Main).site \in Id
           /\ Frame(Main) = frames[Main][Len(frames[Main])]
           /\ Len(frames[Main]) \in 1 .. Len(frames[Main])
<1>1. Open = Len(frames[Main]) /\ StackMatches
  BY DEF Open, WInv
<1>2. Len(frames[Main]) \in 1 .. Len(frames[Main])
  BY PlainShape DEF Running
<1>3. Len(call_stack) = Len(frames[Main])
      /\ call_stack[Len(frames[Main])] = frames[Main][Len(frames[Main])].site
      /\ frames[Main][Len(frames[Main])].site \in Id
  BY <1>1, <1>2 DEF StackMatches
<1> QED BY <1>2, <1>3, PlainShape DEF Top, Frame

\* Returning keeps the stacks in agreement.
LEMMA EndCallKeeps ==
    ASSUME Plain, WInv, EndCall(Main)
    PROVE  WInv'
<1>0. /\ pc[Main] = "run" /\ pc' = [pc EXCEPT ![Main] = "ended"] /\ Running(Main)
      /\ UNCHANGED <<initialized, profile_info, csv, frames, exited, calls, evals, uniq>>
      /\ end_call /\ frames[Main] # <<>>
  BY DEF EndCall, history, Running
<1>1. pc'[Main] = "ended" /\ pc' \in [Thread -> {"run", "ended", "dumped"}]
  BY <1>0, PlainShape DEF Plain
<1>2. RuntimeInv'
  <2>1. Next
    BY ThreadAssumption DEF Next
  <2> QED BY <2>1, RuntimeKeeps, PlainRuntime
<1>3. StackMatches' /\ fault' = fault
  <2> DEFINE n == Len(frames[Main])
  <2>0. n \in Nat /\ Open' = n - 1 /\ Open = n /\ StackMatches
    BY <1>0, <1>1, PlainShape DEF Open, WInv
  <2>1. CASE initialized
    <3>1. call_stack # <<>> /\ Len(call_stack) = n /\ n \in 1 .. n
      BY <1>0, <2>1, EndCallFindsOwn
    <3>2. call_stack' = Pop(call_stack) /\ fault' = fault
      BY <1>0, <2>1, <3>1, PlainShape DEF end_call
    <3>3. Len(call_stack') = n - 1 /\ \A i \in 1 .. n - 1 : call_stack'[i] = call_stack[i]
      BY <3>1, <3>2, PopFacts, PlainShape
    <3>4. \A i \in 1 .. n : frames[Main][i].site \in Id /\ call_stack[i] = frames[Main][i].site
      BY <2>0, <2>1 DEF StackMatches
    <3>5. \A i \in 1 .. n : i <= n - 1 => i \in 1 .. n - 1
      BY <2>0
    <3> QED BY <1>0, <2>0, <2>1, <3>2, <3>3, <3>4, <3>5 DEF StackMatches
  <2>2. CASE ~initialized
    <3>1. UNCHANGED <<call_stack, fault>>
      BY <1>0, <2>2 DEF end_call
    <3> QED BY <1>0, <2>0, <2>2, <3>1, PlainShape DEF StackMatches
  <2> QED BY <2>1, <2>2
<1>4. TypeOK'
  <2>1. fault' \in BOOLEAN /\ call_stack' \in Seq(Id)
    BY <1>2, <1>3 DEF RuntimeInv, WInv, TypeOK
  <2> QED BY <1>0, <1>1, <2>1 DEF WInv, TypeOK
<1>5. BitsAreRight' /\ ReportsExist' /\ RoomIsRight'
  BY <1>0 DEF WInv, BitsAreRight, BitsOfFrame, ReportsExist, RoomIsRight
<1>6. ControlIsRight'
  <2>1. csv = NoFile
    BY <1>0, NotYetDumped
  <2> QED BY <1>0, <1>1, <2>1 DEF WInv, ControlIsRight
<1>7. ProfileIsExact'
  BY <1>0, ProfileUntouched
<1> QED BY <1>2, <1>3, <1>4, <1>5, <1>6, <1>7 DEF WInv, NoFault, RuntimeInv

\* The top frame leaves after its end_call.
LEMMA RetKeeps ==
    ASSUME Plain, WInv, Ret(Main)
    PROVE  WInv'
<1> DEFINE F == frames[Main]
           n == Len(F)
           G == Pop(F)
<1>0. /\ frames[Main] # <<>> /\ ~exited
      /\ pc[Main] = IF Frame(Main).site = First THEN "dumped" ELSE "ended"
      /\ frames' = [frames EXCEPT ![Main] = Pop(@)] /\ pc' = [pc EXCEPT ![Main] = "run"]
      /\ UNCHANGED <<initialized, profile_info, call_stack, csv, fault, exited,
                     calls, evals, uniq>>
  BY DEF Ret, Running, runtime, history
<1>1. /\ G \in Seq(FrameType) /\ Len(G) = n - 1 /\ n \in Nat \ {0}
      /\ \A i \in 1 .. n - 1 : G[i] = F[i]
      /\ n = 1 => G = <<>>
      /\ Frame(Main) = F[n]
  BY <1>0, PlainShape, PopFacts DEF Frame
<1>2. /\ pc'[Main] = "run" /\ pc' \in [Thread -> {"run", "ended", "dumped"}]
      /\ frames'[Main] = G /\ frames' \in [Thread -> Seq(FrameType)]
  BY <1>0, <1>1, PlainShape DEF Plain
<1> HIDE DEF G
<1>3. TypeOK'
  BY <1>0, <1>2 DEF WInv, TypeOK
<1>4. StackMatches'
  <2>0. Open' = n - 1 /\ Open = n - 1 /\ StackMatches
    BY <1>0, <1>1, <1>2 DEF Open, WInv
  <2>1. \A i \in 1 .. n - 1 : i \in 1 .. n
    BY <1>1
  <2>2. CASE initialized
    <3>1. Len(call_stack) = n - 1
          /\ \A i \in 1 .. n - 1 : F[i].site \in Id /\ call_stack[i] = F[i].site
      BY <1>1, <2>0, <2>1, <2>2 DEF StackMatches
    <3> QED BY <1>0, <1>1, <1>2, <2>0, <2>2, <3>1 DEF StackMatches
  <2>3. CASE ~initialized
    <3>1. \A i \in 1 .. n - 1 : F[i].site # First /\ F[i].bits = {} /\ F[i].used = {}
      BY <2>0, <2>1, <2>3 DEF StackMatches
    <3> QED BY <1>0, <1>1, <1>2, <2>0, <2>3, <3>1 DEF StackMatches
  <2> QED BY <2>2, <2>3
<1>5. BitsAreRight' /\ ReportsExist' /\ RoomIsRight'
  <2>1. \A i \in 1 .. n - 1 : i \in 1 .. n
    BY <1>1
  <2>2. BitsAreRight'
    <3>1. \A i \in 1 .. n : BitsOfFrame(F[i])
      BY DEF WInv, BitsAreRight
    <3> QED BY <1>1, <1>2, <2>1, <3>1 DEF BitsAreRight
  <2>3. ReportsExist'
    BY <1>0, <1>1, <1>2, <2>1 DEF WInv, ReportsExist
  <2>4. RoomIsRight'
    BY <1>0 DEF WInv, RoomIsRight
  <2> QED BY <2>2, <2>3, <2>4
<1>6. ControlIsRight'
  <2>1. \A i \in 2 .. n : F[i].site # First
    BY DEF WInv, ControlIsRight
  <2>2. \A i \in 2 .. n - 1 : i \in 2 .. n /\ i \in 1 .. n - 1
    BY <1>1
  <2>3. \A i \in 2 .. Len(G) : G[i].site # First
    BY <1>1, <2>1, <2>2
  <2>4. csv # NoFile => initialized /\ csv = profile_info /\ G = <<>>
    <3> SUFFICES ASSUME csv # NoFile PROVE initialized /\ csv = profile_info /\ G = <<>>
      OBVIOUS
    <3>1. csv = profile_info /\ initialized /\ pc[Main] = "dumped"
      BY <1>0 DEF WInv, ControlIsRight
    <3>2. F[n].site = First
      BY <1>1, <3>1 DEF WInv, ControlIsRight
    <3>3. n = 1
      <4>1. n \in Nat \ {0}
        BY <1>1
      <4> HIDE DEF F, n
      <4> QED BY <2>1, <3>2, <4>1
    <3> QED BY <1>1, <3>1, <3>3
  <2>5. ~initialized => profile_info = [s \in Id |-> NoReport]
    BY DEF WInv, ControlIsRight
  <2> QED BY <1>0, <1>2, <2>3, <2>4, <2>5 DEF ControlIsRight
<1>7. ProfileIsExact' /\ OneCallTooMany'
  BY <1>0, ProfileUntouched DEF WInv, OneCallTooMany
<1> QED BY <1>0, <1>3, <1>4, <1>5, <1>6, <1>7 DEF WInv, NoFault

\* Replacing the top frame by one of the same site keeps the stacks in step.
LEMMA ReplaceKeeps ==
    ASSUME Plain, WInv, NEW f \in FrameType, Running(Main), pc[Main] = "run",
           frames' = WithFrame(Main, f), f.site = Frame(Main).site, BitsOfFrame(f),
           ~initialized => f = Frame(Main),
           UNCHANGED <<initialized, call_stack, pc>>
    PROVE  /\ frames' \in [Thread -> Seq(FrameType)] /\ frames'[Main] # <<>>
           /\ StackMatches' /\ BitsAreRight'
           /\ Len(frames'[Main]) = Len(frames[Main])
           /\ \A i \in 1 .. Len(frames[Main]) :
                 frames'[Main][i].site = frames[Main][i].site
<1> DEFINE F == frames[Main]
           n == Len(F)
           G == Append(Pop(F), f)
<1>1. F \in Seq(FrameType) /\ F # <<>> /\ n \in Nat \ {0} /\ Frame(Main) = F[n]
  BY PlainShape, PopFacts DEF Running, Frame
<1>2. /\ G \in Seq(FrameType) /\ Len(G) = n /\ G # <<>>
      /\ \A i \in 1 .. n - 1 : G[i] = F[i]
      /\ G[n] = f
  BY <1>1, ReplaceFacts
<1>3. frames'[Main] = G /\ frames' \in [Thread -> Seq(FrameType)]
  BY <1>2, PlainShape DEF Plain, WithFrame
<1> HIDE DEF G
<1>4. \A i \in 1 .. n : i \in 1 .. n - 1 \/ i = n
  BY <1>1
<1>5. \A i \in 1 .. n : G[i].site = F[i].site
  BY <1>1, <1>2, <1>4
<1>6. StackMatches'
  <2>0. Open' = n /\ Open = n /\ StackMatches
    BY <1>2, <1>3 DEF Open, WInv
  <2>1. CASE initialized
    <3>1. Len(call_stack) = n
          /\ \A i \in 1 .. n : F[i].site \in Id /\ call_stack[i] = F[i].site
      BY <2>0, <2>1 DEF StackMatches
    <3> QED BY <1>2, <1>3, <1>5, <2>0, <2>1, <3>1 DEF StackMatches
  <2>2. CASE ~initialized
    <3>1. call_stack = <<>>
          /\ \A i \in 1 .. n : F[i].site # First /\ F[i].bits = {} /\ F[i].used = {}
      BY <2>0, <2>2 DEF StackMatches
    <3>2. \A i \in 1 .. n : G[i] = F[i]
      BY <1>1, <1>2, <1>4, <2>2
    <3> QED BY <1>2, <1>3, <2>2, <3>1, <3>2 DEF StackMatches
  <2> QED BY <2>1, <2>2
<1>7. BitsAreRight'
  <2>1. \A i \in 1 .. n : BitsOfFrame(F[i])
    BY DEF WInv, BitsAreRight
  <2>2. \A i \in 1 .. n : BitsOfFrame(G[i])
    BY <1>2, <1>4, <2>1
  <2> QED BY <1>2, <1>3, <2>2 DEF BitsAreRight
<1> QED BY <1>2, <1>3, <1>5, <1>6, <1>7

\* An argument is evaluated: the counters of the activation's own site move,
\* the unique one only at the activation's first evaluation.
LEMMA EvaluateKeeps ==
    ASSUME Plain, WInv, NEW a \in Arg, Evaluate(Main, a)
    PROVE  WInv'
<1> DEFINE f == Frame(Main)
           s == f.site
           g == [f EXCEPT !.bits = IF IsMarked(s) THEN MarkedBits(a, f.bits) ELSE f.bits,
                          !.used = IF initialized THEN f.used \cup {a} ELSE f.used]
<1>0. /\ Running(Main) /\ pc[Main] = "run" /\ a < nargs[s] /\ csv = NoFile
      /\ UNCHANGED <<initialized, call_stack, csv, pc, exited, calls>>
      /\ IF IsMarked(s) THEN mark_eval(a, f.bits) ELSE UNCHANGED <<profile_info, fault>>
      /\ frames' = WithFrame(Main, g)
  BY NotYetDumped DEF Evaluate, Plain
<1>1. IF initialized
      THEN /\ evals' = [evals EXCEPT ![s][a] = @ + 1]
           /\ uniq' = [uniq EXCEPT ![s][a] = IF a \in f.used THEN @ ELSE @ + 1]
      ELSE UNCHANGED <<evals, uniq>>
  BY DEF Evaluate
<1>2. RuntimeInv'
  <2>1. Next
    BY ThreadAssumption DEF Next
  <2> QED BY <2>1, RuntimeKeeps, PlainRuntime
<1>3. f \in FrameType /\ frames[Main] # <<>> /\ Len(frames[Main]) \in 1 .. Len(frames[Main])
      /\ f = frames[Main][Len(frames[Main])]
  BY <1>0, PlainShape, PopFacts DEF Running, Frame
<1>4. BitsOfFrame(f) /\ (~initialized => f.bits = {} /\ f.used = {})
  BY <1>3 DEF WInv, BitsAreRight, StackMatches
<1>5. a \in 0 .. 31 /\ s \in Target
  BY <1>3 DEF Plain, FrameType
<1> HIDE DEF f
<1>6. g \in FrameType /\ g.site = s /\ (~initialized => g = f)
  <2>1. Shifted(a) \subseteq 0 .. 63
    BY <1>5 DEF Shifted
  <2>2. MarkedBits(a, f.bits) \in SUBSET (0 .. 63)
    BY <1>3, <2>1 DEF MarkedBits, FrameType
  <2>3. ~initialized => MarkedBits(a, f.bits) = f.bits
    BY DEF MarkedBits
  <2> QED BY <1>3, <2>2, <2>3 DEF FrameType
<1>7. /\ g.bits = (IF IsMarked(s) THEN MarkedBits(a, f.bits) ELSE f.bits)
      /\ g.used = (IF initialized THEN f.used \cup {a} ELSE f.used)
  BY <1>3 DEF FrameType
<1>8. BitsOfFrame(g)
  <2> SUFFICES ASSUME s \in Marked, initialized PROVE BitsOfFrame(g)
    BY <1>4, <1>6 DEF BitsOfFrame
  <2>1. /\ \A c \in Arg : c \in f.bits <=> c \in f.used
        /\ f.bits \cap (31 .. 63) # {} => 31 \in f.bits
    BY <1>4 DEF BitsOfFrame
  <2>2. g.bits = f.bits \cup Shifted(a) /\ g.used = f.used \cup {a}
    BY <1>7 DEF IsMarked, MarkedBits
  <2>3. /\ \A c \in 0 .. 31 : c \in Shifted(a) <=> c = a
        /\ Shifted(a) \cap (31 .. 63) # {} => 31 \in Shifted(a)
    BY <1>5, ShiftIsExact
  <2>4. \A c \in Arg : c \in 0 .. 31
    BY DEF Plain
  <2> HIDE DEF g
  <2> QED BY <2>1, <2>2, <2>3, <2>4 DEF BitsOfFrame
<1> HIDE DEF g
<1>9. /\ frames' \in [Thread -> Seq(FrameType)] /\ frames'[Main] # <<>>
      /\ StackMatches' /\ BitsAreRight'
      /\ Len(frames'[Main]) = Len(frames[Main])
      /\ \A i \in 1 .. Len(frames[Main]) :
            frames'[Main][i].site = frames[Main][i].site
  BY <1>0, <1>6, <1>8, ReplaceKeeps DEF f
<1>10. CASE ~initialized
  <2>1. UNCHANGED <<profile_info, fault, evals, uniq>>
    BY <1>0, <1>1, <1>10 DEF mark_eval
  <2>2. TypeOK'
    BY <1>0, <1>9, <2>1 DEF WInv, TypeOK
  <2>3. ReportsExist' /\ RoomIsRight'
    BY <1>0, <1>10, <2>1 DEF WInv, ReportsExist, RoomIsRight
  <2>4. ControlIsRight'
    BY <1>0, <1>9, <2>1 DEF WInv, ControlIsRight
  <2>5. ProfileIsExact'
    BY <2>1, ProfileUntouched
  <2> QED BY <1>2, <1>9, <2>1, <2>2, <2>3, <2>4, <2>5 DEF WInv, NoFault, RuntimeInv
<1>11. CASE initialized
  <2>1. Top(call_stack) = s /\ s \in Id /\ call_stack # <<>>
    BY <1>0, <1>11, EndCallFindsOwn DEF f
  <2>2. profile_info[s] # NoReport /\ profile_info[s] \in Report /\ a < profile_info[s].num_args
    <3>1. profile_info[s] # NoReport
      BY <1>3, <1>11 DEF WInv, ReportsExist
    <3>2. profile_info[s] \in Report /\ nargs[s] <= profile_info[s].num_args
      BY <2>1, <3>1, PlainShape DEF ProfileType, WInv, RoomIsRight
    <3>3. a \in Nat /\ nargs[s] \in Nat /\ profile_info[s].num_args \in Nat
      BY <1>5, <3>2, NargsAssumption DEF Report
    <3> QED BY <1>0, <3>1, <3>2, <3>3
  <2>3. ~MarkFaults(a)
    BY <2>1, <2>2, <1>5 DEF MarkFaults, Report
  <2>4. /\ fault' = fault
        /\ profile_info' = IF IsMarked(s)
                           THEN [profile_info EXCEPT ![s] = Counted(profile_info[s], a, f.bits)]
                           ELSE profile_info
    BY <1>0, <1>11, <2>1, <2>3 DEF mark_eval
  <2> DEFINE e == [evals[s] EXCEPT ![a] = @ + 1]
             u == [uniq[s] EXCEPT ![a] = IF a \in f.used THEN @ ELSE @ + 1]
  <2>5. /\ evals' = [evals EXCEPT ![s] = e] /\ uniq' = [uniq EXCEPT ![s] = u]
        /\ e \in Counter /\ u \in Counter
    <3>1. evals[s] \in Counter /\ uniq[s] \in Counter
      BY <1>5 DEF WInv, TypeOK
    <3>2. e \in Counter /\ u \in Counter
      BY <3>1 DEF Counter
    <3> QED BY <1>1, <1>11, <3>2
  <2> HIDE DEF e, u
  <2>6. evals' \in [Target -> Counter] /\ uniq' \in [Target -> Counter]
    BY <2>5 DEF WInv, TypeOK
  <2>7. TypeOK'
    BY <1>0, <1>2, <1>9, <2>4, <2>6 DEF WInv, TypeOK, RuntimeInv
  <2>8. /\ Counted(profile_info[s], a, f.bits) \in Report
        /\ Counted(profile_info[s], a, f.bits).num_args = profile_info[s].num_args
    BY <2>2, ReportTypes DEF Counted, Report
  <2>9. \A c \in Id :
            /\ profile_info'[c] = NoReport <=> profile_info[c] = NoReport
            /\ c # s => profile_info'[c] = profile_info[c]
            /\ profile_info'[c].num_args = profile_info[c].num_args
    BY <2>1, <2>2, <2>4, <2>8, ReportIsNotMissing, PlainShape DEF ProfileType
  <2>10. ReportsExist' /\ RoomIsRight'
    <3>1. \A i \in 1 .. Len(frames[Main]) :
             frames[Main][i].site \in Id /\ profile_info[frames[Main][i].site] # NoReport
      BY <1>11 DEF WInv, StackMatches, ReportsExist
    <3>2. ReportsExist'
      BY <1>9, <2>9, <3>1 DEF ReportsExist
    <3>3. RoomIsRight'
      BY <2>9 DEF WInv, RoomIsRight
    <3> QED BY <3>2, <3>3
  <2>11. ControlIsRight'
    <3>1. \A i \in 2 .. Len(frames[Main]) : frames[Main][i].site # First
      BY DEF WInv, ControlIsRight
    <3>2. \A i \in 2 .. Len(frames[Main]) : i \in 1 .. Len(frames[Main])
      BY PlainShape
    <3>3. \A i \in 2 .. Len(frames'[Main]) : frames'[Main][i].site # First
      BY <1>9, <3>1, <3>2
    <3> QED BY <1>0, <1>9, <1>11, <3>3 DEF ControlIsRight
  <2>12. ProfileIsExact'
    <3> SUFFICES ASSUME NEW c \in Marked PROVE ReportIsExact(profile_info, c)'
      BY DEF ProfileIsExact
    <3>1. c \in Id /\ c \in Target /\ ReportIsExact(profile_info, c)
      BY FeatureAssumption DEF WInv, ProfileIsExact, Target
    <3>2. CASE c # s
      <4>1. evals'[c] = evals[c] /\ uniq'[c] = uniq[c] /\ profile_info'[c] = profile_info[c]
        BY <2>5, <2>9, <3>1, <3>2 DEF WInv, TypeOK
      <4> QED BY <3>1, <4>1 DEF ReportIsExact
    <3>3. CASE c = s
      <4>1. evals'[s] = e /\ uniq'[s] = u
        BY <1>5, <2>5 DEF WInv, TypeOK
      <4>2. profile_info'[s] = Counted(profile_info[s], a, f.bits)
        BY <2>1, <2>4, <3>3, PlainShape DEF IsMarked, ProfileType
      <4>3. profile_info[s].unique_arg_evals = uniq[s] /\ profile_info[s].arg_evals = evals[s]
        BY <2>2, <3>1, <3>3 DEF ReportIsExact
      <4>4. f.bits \cap Shifted(a) = {} <=> a \notin f.used
        <5>1. (a \in f.bits <=> a \in f.used)
              /\ (f.bits \cap (31 .. 63) # {} => 31 \in f.bits)
          BY <1>4, <3>3 DEF BitsOfFrame
        <5> QED BY <1>5, <5>1, ShiftIsExact
      <4>5. profile_info'[s].unique_arg_evals = u /\ profile_info'[s].arg_evals = e
        BY <2>2, <4>2, <4>3, <4>4 DEF Counted, Report, Counter, u, e
      <4>6. profile_info'[s] # NoReport
        BY <2>1, <2>2, <2>9
      <4> QED BY <3>3, <4>1, <4>5, <4>6 DEF ReportIsExact
    <3> QED BY <3>2, <3>3
  <2> QED BY <1>2, <1>9, <2>4, <2>7, <2>10, <2>11, <2>12 DEF WInv, NoFault, RuntimeInv
<1> QED BY <1>10, <1>11

\* Every step of a plain program keeps the invariant.
LEMMA PlainKeeps == Plain /\ WInv /\ [Next]_vars => WInv'
<1> SUFFICES ASSUME Plain, WInv, [Next]_vars PROVE WInv'
  OBVIOUS
<1>1. CASE UNCHANGED vars
  <2>0. UNCHANGED <<initialized, profile_info, call_stack, csv, fault, frames, pc, exited,
                    calls, evals, uniq>>
    BY <1>1 DEF vars
  <2>1. TypeOK'
    BY <2>0 DEF WInv, TypeOK
  <2>2. StackMatches' /\ BitsAreRight'
    BY <2>0 DEF WInv, StackMatches, Open, BitsAreRight, BitsOfFrame
  <2>3. ReportsExist' /\ RoomIsRight' /\ OneCallTooMany'
    BY <2>0 DEF WInv, ReportsExist, RoomIsRight, OneCallTooMany
  <2>4. ControlIsRight'
    BY <2>0 DEF WInv, ControlIsRight, Frame
  <2> QED BY <2>0, <2>1, <2>2, <2>3, <2>4, ProfileUntouched DEF WInv, NoFault
<1>2. CASE Next
  <2>1. \/ StartMain \/ DumpAtReturn \/ Callback(Main) \/ EndCall(Main) \/ Ret(Main) \/ Exit(Main)
        \/ \E s \in Site : InitCall(Main, s)
        \/ \E a \in Arg : Evaluate(Main, a)
    BY <1>2 DEF Next, Plain, ExternCall, PassPhi, Unwind
  <2> QED BY <2>1, StartMainKeeps, DumpKeeps, CallbackKeeps, EndCallKeeps, RetKeeps,
             InitCallKeeps, EvaluateKeeps
<1> QED BY <1>1, <1>2

\* The inductive invariant of plain programs.
THEOREM PlainInvariance == ASSUME Plain PROVE Spec => []WInv
<1>1. Init => WInv
  BY InitPlain
<1>2. WInv /\ [Next]_vars => WInv'
  BY PlainKeeps
<1> QED BY <1>1, <1>2, PTL DEF Spec

\* Type correctness for plain programs.
THEOREM PlainTypeCorrect == ASSUME Plain PROVE Spec => []TypeOK
<1>1. WInv => TypeOK
  BY DEF WInv
<1> QED BY <1>1, PlainInvariance, PTL

\* The profile of a plain program is exact at every moment, for any number of
\* call sites, calls and frames: evaluations are credited to the right call
\* site, and each activation counts once in the unique counters.
THEOREM PlainProfileIsExact == ASSUME Plain PROVE Spec => []ProfileIsExact
<1>1. WInv => ProfileIsExact
  BY DEF WInv
<1> QED BY <1>1, PlainInvariance, PTL

\* The report file of a plain program is exact at the end of the process.
THEOREM PlainDumpIsExact == ASSUME Plain PROVE Spec => []DumpIsExact
<1>1. WInv => DumpIsExact
  BY DEF WInv, ControlIsRight, ProfileIsExact, DumpIsExact
<1> QED BY <1>1, PlainInvariance, PTL

\* In a plain program the runtime pops and reads no empty stack and
\* increments no counter outside a report.
THEOREM PlainNoFault == ASSUME Plain PROVE Spec => []NoFault
<1>1. WInv => NoFault
  BY DEF WInv
<1> QED BY <1>1, PlainInvariance, PTL

\* In a plain program every end_call pops the call of the function it is in.
THEOREM PlainEndCallPopsOwn == ASSUME Plain PROVE Spec => EndCallPopsOwn
<1> DEFINE A == \A t \in Thread :
                  pc[t] = "run" /\ pc'[t] = "ended" /\ initialized =>
                      call_stack # <<>> /\ Top(call_stack) = Frame(t).site
<1>1. WInv /\ [Next]_vars => [A]_vars
  <2> SUFFICES ASSUME WInv, Next, pc[Main] = "run", pc'[Main] = "ended", initialized
               PROVE  call_stack # <<>> /\ Top(call_stack) = Frame(Main).site
    BY DEF Plain
  <2>1. EndCall(Main)
    <3>1. pc \in [{Main} -> {"run", "ended", "dumped"}]
      BY PlainShape
    <3> QED BY <3>1 DEF Next, Plain, StartMain, DumpAtReturn, InitCall, ExternCall, Evaluate,
                        PassPhi, Callback, Ret, Unwind, Exit
  <2> QED BY <2>1, EndCallFindsOwn DEF EndCall
<1> QED BY <1>1, PlainInvariance, PTL DEF Spec, EndCallPopsOwn
=============================================================================

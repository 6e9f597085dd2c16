------------------------------ MODULE WyInstr -------------------------------
(***************************************************************************)
(* Profiling: a program instrumented by WyvernInstrumentationPass runs on  *)
(* top of the runtime wyinstr.cpp.  The runtime keeps one profile report   *)
(* per call site and one shadow stack of call sites, both shared by every  *)
(* thread; each of its functions holds a mutex from entry to exit, so one  *)
(* call of a runtime function is one atomic step.                          *)
(*                                                                         *)
(* The program is any program with the given features: its threads push    *)
(* and pop frames, evaluate arguments and leave the process as they like,  *)
(* and call the runtime where the pass inserted calls.  A report has one   *)
(* counter pair per element of Arg.  calls, evals and uniq are history     *)
(* variables: what a perfect profile of the run so far would hold.         *)
(***************************************************************************)
EXTENDS Naturals, Sequences, FiniteSets

CONSTANTS Site,      \* call sites, identified by caller and instruction
          First,     \* the pseudo call site of main, "__wyinstr_pre_main"
          NoSite,    \* activations entered from code that is not instrumented
          Marked,    \* sites whose callee is promising: its uses are marked
          Arg,       \* argument indices
          nargs,     \* number of arguments passed at a site
          Thread, Main,
          Features,  \* what the program does: see AllFeatures
          MaxCalls, MaxEvals, MaxDepth   \* bounds for model checking

(***************************************************************************)
(*   retuse    a return instruction uses an argument directly              *)
(*   phi       a phi takes an argument on one of its edges only            *)
(*   unwind    an exception leaves no frame, or more than one              *)
(*   extern    an indirect call reaches a function without instrumentation *)
(*   callback  code without instrumentation calls an instrumented function *)
(*             while main runs (qsort, a thread's start, atexit)           *)
(***************************************************************************)
AllFeatures == {"retuse", "phi", "unwind", "extern", "callback"}

Id == Site \cup {First}
Target == Id \cup {NoSite}

ASSUME IdAssumption == First \notin Site /\ NoSite \notin Id
ASSUME ArgAssumption == Arg \subseteq Nat
\* main has at most the two parameters its report has room for.
ASSUME NargsAssumption == nargs \in [Target -> Nat] /\ nargs[First] <= 2
ASSUME ThreadAssumption == Main \in Thread
ASSUME FeatureAssumption == Features \subseteq AllFeatures /\ Marked \subseteq Id

VARIABLES initialized, profile_info, call_stack,   \* the runtime
          csv,                    \* the report file
          fault,                  \* the runtime touched memory it may not
          frames, pc, exited,     \* the program
          calls, evals, uniq      \* history: the perfect profile

runtime == <<initialized, profile_info, call_stack>>
history == <<calls, evals, uniq>>
vars == <<initialized, profile_info, call_stack, csv, fault, frames, pc, exited,
          calls, evals, uniq>>

NoReport == [num_args |-> 0]
NoFile == <<>>

Top(s) == s[Len(s)]
Pop(s) == SubSeq(s, 1, Len(s) - 1)

prof_report(n) == [num_calls |-> 1, num_args |-> n,
                   unique_arg_evals |-> [a \in Arg |-> 0],
                   arg_evals |-> [a \in Arg |-> 0]]

\* A new activation: the bitmap of used arguments is zero (initbits); `used'
\* is history, the arguments it has really evaluated.
NewFrame(s) == [site |-> s, bits |-> {}, used |-> {}]

Init == /\ initialized = FALSE /\ call_stack = <<>> /\ csv = NoFile /\ fault = FALSE
        /\ profile_info = [s \in Id |-> NoReport]
        /\ frames = [t \in Thread |-> <<>>] /\ pc = [t \in Thread |-> "run"]
        /\ exited = FALSE
        /\ calls = [s \in Site |-> 0]
        /\ evals = [s \in Target |-> [a \in Arg |-> 0]]
        /\ uniq = [s \in Target |-> [a \in Arg |-> 0]]

-----------------------------------------------------------------------------
\* The functions of the runtime.
\* Faulty variants of init_prof: main's entry is not pushed; an entry without
\* a report is pushed.
init_prof_nopush ==
    /\ initialized' = TRUE
    /\ profile_info' = [profile_info EXCEPT
                          ![First] = IF @ = NoReport THEN prof_report(2) ELSE @]
    /\ UNCHANGED call_stack
init_prof_unknown ==
    /\ initialized' = TRUE
    /\ profile_info' = [profile_info EXCEPT
                          ![First] = IF @ = NoReport THEN prof_report(2) ELSE @]
    /\ call_stack' = Append(call_stack, NoSite)

init_prof ==
    /\ initialized' = TRUE
    /\ profile_info' = [profile_info EXCEPT
                          ![First] = IF @ = NoReport THEN prof_report(2) ELSE @]
    /\ call_stack' = Append(call_stack, First)

\* The report of a site, created when the site is reached for the first time.
ReportOf(s) == IF profile_info[s] = NoReport THEN prof_report(nargs[s]) ELSE profile_info[s]

\* Faulty variant of init_call: a new report is returned from early.
init_call_early(s) ==
    IF initialized
    THEN /\ profile_info' = [profile_info EXCEPT ![s] =
                                [ReportOf(s) EXCEPT !.num_calls = @ + 1]]
         /\ call_stack' = IF profile_info[s] = NoReport THEN call_stack
                          ELSE Append(call_stack, s)
         /\ UNCHANGED initialized
    ELSE UNCHANGED runtime

init_call(s) ==
    IF initialized
    THEN /\ profile_info' = [profile_info EXCEPT ![s] =
                                [ReportOf(s) EXCEPT !.num_calls = @ + 1]]
         /\ call_stack' = Append(call_stack, s)
         /\ UNCHANGED initialized
    ELSE UNCHANGED runtime

\* 1 << arg_index is computed in a 32-bit int, where the shift count counts
\* modulo 32, and is then sign-extended to 64 bits.
Shifted(a) == IF a % 32 = 31 THEN 31 .. 63 ELSE {a % 32}

\* The report that mark_eval updates is the one on top of the shadow stack;
\* marking with an empty stack, or an argument the report has no room for,
\* touches foreign memory.
MarkFaults(a) == call_stack = <<>> \/ profile_info[Top(call_stack)].num_args <= a

\* Faulty variants of Counted: repeated evaluations are not counted; the bit
\* is set before it is looked at.
CountedOnce(report, a, bits) ==
    IF bits \cap Shifted(a) # {} THEN report
    ELSE [report EXCEPT !.unique_arg_evals[a] = @ + 1, !.arg_evals[a] = @ + 1]

CountedBitFirst(report, a, bits) ==
    [report EXCEPT
        !.unique_arg_evals[a] = IF (bits \cup Shifted(a)) \cap Shifted(a) = {} THEN @ + 1 ELSE @,
        !.arg_evals[a] = @ + 1]

\* The report after argument a was marked in an activation with this bitmap.
Counted(report, a, bits) ==
    [report EXCEPT
        !.unique_arg_evals[a] = IF bits \cap Shifted(a) = {} THEN @ + 1 ELSE @,
        !.arg_evals[a] = @ + 1]

mark_eval(a, bits) ==
    IF ~initialized THEN UNCHANGED <<profile_info, fault>>
    ELSE IF MarkFaults(a) THEN fault' = TRUE /\ UNCHANGED profile_info
    ELSE /\ profile_info' = [profile_info EXCEPT ![Top(call_stack)] = Counted(@, a, bits)]
         /\ UNCHANGED fault

\* Faulty variant of MarkedBits: the bit is not stored.
UnmarkedBits(a, bits) == bits

\* The bitmap after mark_eval.
MarkedBits(a, bits) == IF initialized THEN bits \cup Shifted(a) ELSE bits

\* Faulty variant of end_call: the entry of a marked site stays.
end_call_unmarked ==
    IF ~initialized \/ call_stack = <<>> THEN UNCHANGED <<call_stack, fault>>
    ELSE /\ call_stack' = IF Top(call_stack) \in Marked THEN call_stack ELSE Pop(call_stack)
         /\ UNCHANGED fault

end_call ==
    IF ~initialized THEN UNCHANGED <<call_stack, fault>>
    ELSE IF call_stack = <<>> THEN fault' = TRUE /\ UNCHANGED call_stack
    ELSE call_stack' = Pop(call_stack) /\ UNCHANGED fault

dump == csv' = profile_info

-----------------------------------------------------------------------------
\* The instrumented program.
Running(t) == ~fault /\ ~exited /\ frames[t] # <<>>
Frame(t) == Top(frames[t])
WithFrame(t, f) == [frames EXCEPT ![t] = Append(Pop(@), f)]

\* main starts, after the static constructors.
StartMain ==
    /\ ~initialized /\ ~fault /\ ~exited /\ frames[Main] = <<>>
    /\ frames' = [frames EXCEPT ![Main] = <<NewFrame(First)>>]
    /\ init_prof
    /\ UNCHANGED <<csv, fault, pc, exited, history>>

\* A call of a function with a body: the runtime is told just before.
InitCall(t, s) ==
    /\ Running(t) /\ pc[t] = "run" /\ Len(frames[t]) < MaxDepth /\ calls[s] < MaxCalls
    /\ init_call(s)
    /\ frames' = [frames EXCEPT ![t] = Append(@, NewFrame(s))]
    /\ calls' = IF initialized THEN [calls EXCEPT ![s] = @ + 1] ELSE calls
    /\ UNCHANGED <<csv, fault, pc, exited, evals, uniq>>

\* An indirect call is instrumented too, whatever it reaches.
ExternCall(t, s) ==
    /\ "extern" \in Features
    /\ Running(t) /\ pc[t] = "run" /\ calls[s] < MaxCalls
    /\ init_call(s)
    /\ calls' = IF initialized THEN [calls EXCEPT ![s] = @ + 1] ELSE calls
    /\ UNCHANGED <<csv, fault, frames, pc, exited, evals, uniq>>

\* Code without instrumentation enters an instrumented function.  Static
\* constructors do so in every program.
Callback(t) ==
    /\ "callback" \in Features \/ (t = Main /\ ~initialized)
    /\ ~fault /\ ~exited /\ pc[t] = "run" /\ Len(frames[t]) < MaxDepth
    /\ frames' = [frames EXCEPT ![t] = Append(@, NewFrame(NoSite))]
    /\ UNCHANGED <<runtime, csv, fault, pc, exited, history>>

\* The pass marks the uses in promising functions.
IsMarked(s) == s \in Marked \/ (s = NoSite /\ Marked # {})

\* For every key s, the numbers 1 to n[s].
Counts(n) == UNION {{s} \X (1 .. n[s]) : s \in DOMAIN n}

\* What the reports count for argument a, and what a perfect profile h counts
\* of it in functions whose uses are marked.
TotalEvals(a) ==
    [s \in Id |-> IF profile_info[s] = NoReport THEN 0 ELSE profile_info[s].arg_evals[a]]
UniqueEvals(a) ==
    [s \in Id |-> IF profile_info[s] = NoReport THEN 0 ELSE profile_info[s].unique_arg_evals[a]]
InMarked(h, a) == [s \in Target |-> IF IsMarked(s) THEN h[s][a] ELSE 0]

\* Bounds only: evaluations of argument a, and marks of a by phis.
MayEvaluate(a) == Cardinality(Counts([s \in Target |-> evals[s][a]])) < MaxEvals
MayPass(a) == Cardinality(Counts(TotalEvals(a))) < MaxEvals

\* An instruction uses argument a.  The mark precedes the instruction, but a
\* return instruction's end_call was inserted before its marks.
Evaluate(t, a) ==
    /\ Running(t)
    /\ pc[t] = "run" \/ (pc[t] = "ended" /\ "retuse" \in Features)
    /\ a < nargs[Frame(t).site] /\ MayEvaluate(a)
    /\ LET f == Frame(t)
       IN  /\ IF IsMarked(f.site) THEN mark_eval(a, f.bits)
              ELSE UNCHANGED <<profile_info, fault>>
           /\ frames' = WithFrame(t,
                  [f EXCEPT !.bits = IF IsMarked(f.site) THEN MarkedBits(a, @) ELSE @,
                            !.used = IF initialized THEN @ \cup {a} ELSE @])
           /\ IF initialized
              THEN /\ evals' = [evals EXCEPT ![f.site][a] = @ + 1]
                   /\ uniq' = [uniq EXCEPT ![f.site][a] =
                                  IF a \in f.used THEN @ ELSE @ + 1]
              ELSE UNCHANGED <<evals, uniq>>
    /\ UNCHANGED <<initialized, call_stack, csv, pc, exited, calls>>

\* A phi is entered along an edge that does not take argument a: the mark at
\* the head of the phi's block is executed all the same.
PassPhi(t, a) ==
    /\ "phi" \in Features
    /\ Running(t) /\ pc[t] = "run" /\ IsMarked(Frame(t).site) /\ a < nargs[Frame(t).site]
    /\ MayPass(a)
    /\ mark_eval(a, Frame(t).bits)
    /\ frames' = WithFrame(t, [Frame(t) EXCEPT !.bits = MarkedBits(a, @)])
    /\ UNCHANGED <<initialized, call_stack, csv, pc, exited, history>>

\* The end_call in front of a return or of a call of __cxa_throw.
EndCall(t) ==
    /\ Running(t) /\ pc[t] = "run" /\ pc' = [pc EXCEPT ![t] = "ended"]
    /\ end_call
    /\ UNCHANGED <<initialized, profile_info, csv, frames, exited, history>>

\* The dump in front of main's return.
DumpAtReturn ==
    /\ Running(Main) /\ pc[Main] = "ended" /\ Frame(Main).site = First
    /\ pc' = [pc EXCEPT ![Main] = "dumped"]
    /\ dump
    /\ UNCHANGED <<runtime, fault, frames, exited, history>>

\* The function returns, or its exception is caught by its direct caller.
Ret(t) ==
    /\ Running(t) /\ pc[t] = IF Frame(t).site = First THEN "dumped" ELSE "ended"
    /\ frames' = [frames EXCEPT ![t] = Pop(@)] /\ pc' = [pc EXCEPT ![t] = "run"]
    /\ UNCHANGED <<runtime, csv, fault, exited, history>>

\* An exception is caught where it is thrown or further up.  Only a call of
\* __cxa_throw in instrumented code was preceded by an end_call; exceptions
\* that other code throws, or that are thrown again, leave the function while
\* it runs.
Unwind(t) ==
    /\ "unwind" \in Features
    /\ Running(t) /\ pc[t] \in {"run", "ended"} /\ pc' = [pc EXCEPT ![t] = "run"]
    /\ \E d \in 1 .. Len(frames[t]) :
          frames' = [frames EXCEPT ![t] = SubSeq(@, 1, d)]
    /\ UNCHANGED <<runtime, csv, fault, exited, history>>

\* Faulty variant of Exit: the dump precedes a call that returns.
ExitReturns(t) ==
    /\ Running(t) /\ pc[t] = "run"
    /\ dump
    /\ UNCHANGED <<runtime, fault, frames, pc, exited, history>>

\* A direct call of exit or abort.
Exit(t) ==
    /\ Running(t) /\ pc[t] = "run" /\ exited' = TRUE
    /\ dump
    /\ UNCHANGED <<runtime, fault, frames, pc, history>>

Next == \/ StartMain \/ DumpAtReturn
        \/ \E t \in Thread :
              \/ \E s \in Site : InitCall(t, s) \/ ExternCall(t, s)
              \/ \E a \in Arg : Evaluate(t, a) \/ PassPhi(t, a)
              \/ Callback(t) \/ EndCall(t) \/ Ret(t) \/ Unwind(t) \/ Exit(t)

Spec == Init /\ [][Next]_vars

-----------------------------------------------------------------------------
Counter == [Arg -> Nat]
Report == [num_calls : Nat, num_args : Nat, unique_arg_evals : Counter, arg_evals : Counter]
ProfileType == [Id -> Report \cup {NoReport}]
FrameType == [site : Target, bits : SUBSET (0 .. 63), used : SUBSET Arg]

\* Type correctness of the runtime's and of the program's state.
TypeOK ==
    /\ initialized \in BOOLEAN /\ fault \in BOOLEAN /\ exited \in BOOLEAN
    /\ profile_info \in ProfileType /\ csv \in ProfileType \cup {NoFile}
    /\ call_stack \in Seq(Id)
    /\ frames \in [Thread -> Seq(FrameType)]
    /\ pc \in [Thread -> {"run", "ended", "dumped"}]
    /\ calls \in [Site -> Nat]
    /\ evals \in [Target -> Counter] /\ uniq \in [Target -> Counter]

\* The shadow stack is never popped or read when empty, and no counter
\* outside a report is incremented (end_call, mark_eval).
NoFault == ~fault

\* A report's counters are those of the perfect profile; a site without a
\* report was never called.
ReportIsExact(p, s) ==
    IF p[s] = NoReport
    THEN \A a \in Arg : evals[s][a] = 0 /\ uniq[s][a] = 0
    ELSE p[s].unique_arg_evals = uniq[s] /\ p[s].arg_evals = evals[s]

\* The profile says for every call site "the number of times each argument
\* was uniquely evaluated at least once per call, and the total number of
\* evaluations for each argument" (Lazyfication.h).
ProfileIsExact == \A s \in Marked : ReportIsExact(profile_info, s)

\* The same of the report file, from the dump to the end of the process
\* (InstrumentExitPoints): nothing is evaluated after the dump.
DumpIsExact == csv # NoFile => \A s \in Marked : ReportIsExact(csv, s)

\* end_call "updates the shadow call stack to reflect that the function has
\* returned" (Instrumentation.h): it pops the call of the returning function.
EndCallPopsOwn ==
    [][\A t \in Thread :
          pc[t] = "run" /\ pc'[t] = "ended" /\ initialized =>
              call_stack # <<>> /\ Top(call_stack) = Frame(t).site]_vars

\* Whatever the program does, as long as the runtime touches no foreign
\* memory, no evaluation is lost (mark_eval under its mutex): per argument,
\* the reports together count at least the evaluations in marked functions ...
NoEvaluationLost ==
    ~fault => \A a \in Arg :
        Cardinality(Counts(TotalEvals(a))) >= Cardinality(Counts(InMarked(evals, a)))

\* ... and, in the unique counters, at least the activations that evaluated
\* the argument (mark_eval, initbits): an activation's bit is set by its own
\* marks only, also when these land in a foreign report, belong to a phi that
\* took another edge, or follow an exception.
NoUseLost ==
    ~fault => \A a \in Arg :
        Cardinality(Counts(UniqueEvals(a))) >= Cardinality(Counts(InMarked(uniq, a)))

-----------------------------------------------------------------------------
(***************************************************************************)
(* The inductive invariant for plain programs: one thread, no feature, and *)
(* arguments that the 32-bit shift tells apart.                            *)
(***************************************************************************)
Plain == Features = {} /\ Thread = {Main} /\ Arg \subseteq 0 .. 31

\* The activations whose call is still on the shadow stack.
Open == IF pc[Main] = "run" THEN Len(frames[Main]) ELSE Len(frames[Main]) - 1

\* The shadow stack mirrors the real one; before main it is empty and
\* nothing is counted.
StackMatches ==
    LET F == frames[Main]
    IN  IF initialized
        THEN /\ Len(call_stack) = Open
             /\ \A i \in 1 .. Len(F) :
                   /\ F[i].site \in Id
                   /\ i <= Open => call_stack[i] = F[i].site
        ELSE /\ call_stack = <<>>
             /\ \A i \in 1 .. Len(F) :
                   F[i].site # First /\ F[i].bits = {} /\ F[i].used = {}

\* The bitmap of a marked activation holds what the activation evaluated.
BitsOfFrame(f) ==
    f.site \in Marked =>
        /\ \A a \in Arg : a \in f.bits <=> a \in f.used
        /\ f.bits \cap (31 .. 63) # {} => 31 \in f.bits
BitsAreRight == \A i \in 1 .. Len(frames[Main]) : BitsOfFrame(frames[Main][i])

\* A report has room for the arguments of its site, and every call on the
\* real stack has a report.
RoomIsRight ==
    \A s \in Id : profile_info[s] # NoReport => nargs[s] <= profile_info[s].num_args
ReportsExist ==
    initialized => \A i \in 1 .. Len(frames[Main]) :
                       profile_info[frames[Main][i].site] # NoReport

\* main is the bottom frame, its dump precedes its return, and the file on
\* disk is the profile at the end of the process.
ControlIsRight ==
    /\ pc[Main] # "run" => frames[Main] # <<>>
    /\ pc[Main] = "dumped" => Frame(Main).site = First
    /\ \A i \in 2 .. Len(frames[Main]) : frames[Main][i].site # First
    /\ csv # NoFile =>
          /\ csv = profile_info
          /\ exited \/ (initialized /\ (pc[Main] = "dumped" \/ frames[Main] = <<>>))
    /\ ~initialized => profile_info = [s \in Id |-> NoReport]

\* A report counts one call more than were made: prof_report starts at 1 and
\* init_call adds the first call too.  This is what the code does; its header
\* says that the profile holds "the number of times the call site was called"
\* (Lazyfication.h).
OneCallTooMany ==
    \A s \in Site : IF profile_info[s] = NoReport THEN calls[s] = 0
                    ELSE profile_info[s].num_calls = calls[s] + 1

WInv == /\ TypeOK /\ NoFault /\ StackMatches /\ BitsAreRight
        /\ RoomIsRight /\ ReportsExist /\ ControlIsRight /\ ProfileIsExact /\ OneCallTooMany
=============================================================================

---------------------------- MODULE ProfileGuided ---------------------------
(***************************************************************************)
(* Profile-guided selection: the report file of an instrumented run        *)
(* (WyInstr) is read by the lazification pass, which lazifies the call     *)
(* sites whose arguments were evaluated in few of the calls.               *)
(*                                                                         *)
(* The threshold of evaluation rates is the fraction ThrNum / ThrDen.      *)
(***************************************************************************)
EXTENDS WyInstr

CONSTANTS ThrNum, ThrDen

ASSUME ThresholdAssumption == ThrNum \in Nat /\ ThrDen \in Nat \ {0}

\* The rows of the file that are matched with call instructions; the row of
\* main's pseudo call site names no function of the module and is dropped.
loadProfileInfo ==
    IF csv = NoFile THEN [s \in Site |-> NoReport] ELSE [s \in Site |-> csv[s]]

\* Faulty variant of shouldLazifyCallsitePGO: the total evaluations are
\* compared, not the calls with an evaluation.
shouldLazifyTotal(s, a) ==
    LET prof_info == loadProfileInfo[s]
    IN  /\ prof_info # NoReport
        /\ a < prof_info.num_args
        /\ prof_info.arg_evals[a] * ThrDen < ThrNum * prof_info.num_calls

\* The share of the calls that evaluated the argument is below the threshold.
shouldLazifyCallsitePGO(s, a) ==
    LET prof_info == loadProfileInfo[s]
    IN  /\ prof_info # NoReport
        /\ a < prof_info.num_args
        /\ prof_info.unique_arg_evals[a] * ThrDen < ThrNum * prof_info.num_calls

-----------------------------------------------------------------------------
\* The real evaluation rate is below the threshold.
RarelyUsed(s, a) == calls[s] > 0 /\ uniq[s][a] * ThrDen < ThrNum * calls[s]

\* No opportunity is lost on the way through the runtime and the file: once
\* the report is written, every argument that few calls evaluated is selected
\* by shouldLazifyCallsitePGO, although the report counts a call too many.
RarelyUsedIsTaken ==
    csv # NoFile =>
        \A s \in Site \cap Marked, a \in Arg :
            a < nargs[s] /\ RarelyUsed(s, a) => shouldLazifyCallsitePGO(s, a)

\* The option wylazy-pgo-threshold: "Argument evaluation percentage threshold
\* below which callsite should be lazyfied".  Only such call sites are selected.
SelectedIsRarelyUsed ==
    csv # NoFile =>
        \A s \in Site, a \in Arg : shouldLazifyCallsitePGO(s, a) => RarelyUsed(s, a)
=============================================================================

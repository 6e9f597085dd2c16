------------------------- MODULE ProfileGuidedProofs ------------------------
(***************************************************************************)
(* Profile-guided selection loses no opportunity, for plain programs of    *)
(* any size and every threshold: a consequence of the runtime's inductive  *)
(* invariant.                                                              *)
(***************************************************************************)
EXTENDS ProfileGuided, WyInstrProofs

\* One call more only lowers the rate.
LEMMA OneMoreCall ==
    ASSUME NEW n \in Nat, NEW m \in Nat, NEW k \in Nat, m < k * n
    PROVE  m < k * (n + 1)
<1>1. k * (n + 1) = k * n + k
  OBVIOUS
<1>2. k * n \in Nat /\ k * (n + 1) \in Nat
  OBVIOUS
<1> QED BY <1>1, <1>2

\* Every argument that few of the calls evaluated is selected once the report
\* of a plain program is written (shouldLazifyCallsitePGO on _wyinstr_dump).
THEOREM PlainRarelyUsedIsTaken == ASSUME Plain PROVE Spec => []RarelyUsedIsTaken
<1>1. WInv => RarelyUsedIsTaken
  <2> SUFFICES ASSUME WInv, csv # NoFile,
                      NEW s \in Site \cap Marked, NEW a \in Arg,
                      a < nargs[s], RarelyUsed(s, a)
               PROVE  shouldLazifyCallsitePGO(s, a)
    BY DEF RarelyUsedIsTaken
  <2> s \in Site /\ s \in Marked /\ s \in Id
    BY DEF Id
  <2>1. csv = profile_info
    BY DEF WInv, ControlIsRight
  <2>2. loadProfileInfo[s] = profile_info[s]
    BY <2>1 DEF loadProfileInfo
  <2>3. calls[s] \in Nat /\ uniq[s][a] \in Nat
    BY DEF WInv, TypeOK, Target, Counter
  <2>4. /\ profile_info[s] # NoReport
        /\ profile_info[s].num_calls = calls[s] + 1
    BY <2>3 DEF WInv, OneCallTooMany, RarelyUsed
  <2>5. profile_info[s].unique_arg_evals[a] = uniq[s][a]
    BY <2>4 DEF WInv, ProfileIsExact, ReportIsExact
  <2>6. a < profile_info[s].num_args
    <3>1. nargs[s] <= profile_info[s].num_args
      BY <2>4 DEF WInv, RoomIsRight
    <3>2. profile_info[s] \in Report
      BY <2>4 DEF WInv, TypeOK, ProfileType
    <3>3. a \in Nat /\ nargs[s] \in Nat /\ profile_info[s].num_args \in Nat
      BY <3>2, ArgAssumption, NargsAssumption DEF Report, Target
    <3> QED BY <3>1, <3>3
  <2>7. uniq[s][a] * ThrDen < ThrNum * (calls[s] + 1)
    <3>1. uniq[s][a] * ThrDen < ThrNum * calls[s]
      BY DEF RarelyUsed
    <3>2. uniq[s][a] * ThrDen \in Nat /\ ThrNum \in Nat
      BY <2>3, ThresholdAssumption
    <3> QED BY <2>3, <3>1, <3>2, OneMoreCall
  <2> QED BY <2>2, <2>4, <2>5, <2>6, <2>7 DEF shouldLazifyCallsitePGO
<1> QED BY <1>1, PlainInvariance, PTL
=============================================================================

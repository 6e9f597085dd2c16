---------------------------- MODULE ProgramSlice ----------------------------
(***************************************************************************)
(* The construction of a slice: the instructions, arguments and blocks     *)
(* that a value is computed from, found by a walk along operands and the   *)
(* gates of phis.                                                          *)
(*                                                                         *)
(* The queue is a set: values come up in any order.                        *)
(***************************************************************************)
EXTENDS ControlFlow

VARIABLES f,
          gates,              \* the gates of the phis of each block
          to_visit, visited,
          deps,               \* the values in the slice
          BBs,                \* the blocks in the slice
          attractors,         \* of each block, none or one
          sliced              \* the walk is over

sliceVars == <<f, gates, to_visit, visited, deps, BBs, attractors, sliced>>

Init ==
    /\ f \in Funcs
    /\ gates = [b \in f.blocks |-> computeGates(f, b)]
    /\ to_visit = {f.initial} /\ deps = {f.initial}
    /\ visited = {} /\ BBs = {} /\ attractors = <<>> /\ sliced = FALSE

\* The blocks a value brings into the slice: its own, and those of the
\* incoming edges of a phi.
BlocksOf(v) == {f.at[u] : u \in {v} \cap Inst(f)}
               \cup (IF v \in Phis(f) THEN DOMAIN f.inc[v] ELSE {})

\* The gates of a phi.
GatesOf(v) == IF v \in Phis(f) THEN gates[f.at[v]] ELSE {}

\* Faulty variants of get_data_dependences_for: phis bring no gates; operands
\* are not marked.
get_operands_for(cur) ==
    LET new == Operands(f, cur) \ visited
    IN  /\ ~sliced /\ cur \in to_visit
        /\ deps' = deps \cup {cur}
        /\ BBs' = BBs \cup BlocksOf(cur)
        /\ visited' = visited \cup new
        /\ to_visit' = (to_visit \ {cur}) \cup new
        /\ UNCHANGED <<f, gates, attractors, sliced>>

get_unmarked_dependences_for(cur) ==
    /\ ~sliced /\ cur \in to_visit
    /\ deps' = deps \cup {cur}
    /\ BBs' = BBs \cup BlocksOf(cur)
    /\ to_visit' = (to_visit \ {cur}) \cup Operands(f, cur) \cup GatesOf(cur)
    /\ UNCHANGED <<f, gates, visited, attractors, sliced>>

\* One turn of the walk.  Operands are marked when they are queued; gates are
\* never marked.
get_data_dependences_for(cur) ==
    LET new == Operands(f, cur) \ visited
    IN  /\ ~sliced /\ cur \in to_visit
        /\ deps' = deps \cup {cur}
        /\ BBs' = BBs \cup BlocksOf(cur)
        /\ visited' = visited \cup new
        /\ to_visit' = (to_visit \ {cur}) \cup new \cup (GatesOf(cur) \ visited')
        /\ UNCHANGED <<f, gates, attractors, sliced>>

\* The walk is over; every block is given its attractor.
EndWalk == /\ ~sliced /\ to_visit = {} /\ sliced' = TRUE
           /\ attractors' = [b \in f.blocks |-> computeAttractorBlocks(f, BBs, b)]
           /\ UNCHANGED <<f, gates, to_visit, visited, deps, BBs>>

WalkNext == EndWalk \/ \E v \in to_visit : get_data_dependences_for(v)

WalkSpec == Init /\ [][WalkNext]_sliceVars

-----------------------------------------------------------------------------
\* The assertion in getGate: "Inconditional terminator!".
GatesAreConditional ==
    \A b \in f.blocks, c \in f.blocks :
        Terminator(c) \in gates[b] => \E s, t \in f.succ[c] : s # t

\* A set of values that holds what its members are computed from.
Closed(S) == \A v \in S : Operands(f, v) \cup GatesOf(v) \subseteq S

\* "This function is enough to compute all dependencies" as far as operands and
\* gates go: a finished slice is closed, and has the block of every instruction
\* and of every edge of a phi in it.
SliceIsClosed ==
    sliced => /\ f.initial \in deps /\ Closed(deps)
              /\ BBs = UNION {BlocksOf(v) : v \in deps}

\* A value in the slice is still queued, or all it is computed from is in the
\* slice or queued: marks and queue of get_data_dependences_for lose nothing.
WalkInv ==
    /\ deps \cup to_visit \subseteq Inst(f) \cup f.args
    /\ f.initial \in deps /\ visited \subseteq deps \cup to_visit
    /\ \A v \in deps \ to_visit : /\ Operands(f, v) \cup GatesOf(v) \subseteq deps \cup to_visit
                                  /\ BlocksOf(v) \subseteq BBs
    /\ BBs \subseteq UNION {BlocksOf(v) : v \in deps}
    /\ sliced => to_visit = {}

\* The walk comes to an end, although gates are queued without being marked.
WalkEnds == <>sliced
=============================================================================

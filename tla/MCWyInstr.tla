----------------------------- MODULE MCWyInstr ------------------------------
(***************************************************************************)
(* Small instances of WyInstr.                                             *)
(***************************************************************************)
EXTENDS ProfileGuided

\* 32 arguments at every site, up to the one whose bit is sign-extended; the
\* entry points of constructors, threads and callbacks have one, main has two.
PlainNargs == [s \in Target |-> IF s = NoSite THEN 1 ELSE IF s = First THEN 2 ELSE 32]

\* One argument everywhere, none in main.
SmallNargs == [s \in Target |-> IF s = First THEN 0 ELSE 1]
=============================================================================

----------------------------- MODULE MCPrograms -----------------------------
(* A small instance of Programs for TLC. *)
EXTENDS Programs, TLC

CONSTANTS gold, silver, base1, base2, addon, other

\* Two base versions and an add-on of one program, a base version of another.
MCProgramOf == base1 :> gold @@ base2 :> gold @@ addon :> gold @@ other :> silver

Symmetry == Permutations(Callers) \cup Permutations(Enrollments)
=============================================================================

---------------------------- MODULE MCUserTable ----------------------------
(* Instances of UserTable for TLC.                                         *)
EXTENDS UserTable, TLC

\* Updates and names are interchangeable; ids are numbers.
Symmetry == Permutations(Updates) \cup Permutations(Names)

=============================================================================

----------------------------- MODULE MCHistory -----------------------------
(* Instances of History for TLC.                                           *)
EXTENDS History, TLC

OneOrTwoReceivers == {<<1>>, <<1, 1>>}

\* Sends and reads are interchangeable; ids are numbers.
Symmetry == Permutations(Sends) \cup Permutations(Reads)

=============================================================================

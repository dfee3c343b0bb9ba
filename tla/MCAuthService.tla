--------------------------- MODULE MCAuthService ---------------------------
(* Instances of AuthService for TLC.                                       *)
EXTENDS AuthService, TLC

\* Executions of one handler, addresses and codes are interchangeable.
Symmetry == Permutations(Logins) \cup Permutations(Verifies)
            \cup Permutations(Emails) \cup Permutations(Codes)

=============================================================================

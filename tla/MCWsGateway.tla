---------------------------- MODULE MCWsGateway ----------------------------
(* Instances of WsGateway for TLC.                                         *)
EXTENDS WsGateway, TLC

\* Connections and users are interchangeable.
Symmetry == Permutations(Conns) \cup Permutations(Users)

=============================================================================

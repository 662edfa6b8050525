--------------------------- MODULE MCGrpcService ---------------------------
(* Clients are interchangeable. *)
EXTENDS GrpcService, TLC
Symmetry == Permutations(Clients)
=============================================================================

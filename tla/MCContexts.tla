------------------------------ MODULE MCContexts ------------------------------
(* Small instances of XEContexts: clients as model values.                  *)
EXTENDS XEContexts, TLC

ClientSymmetry == Permutations(Clients)
=============================================================================

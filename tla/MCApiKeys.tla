----------------------------- MODULE MCApiKeys ------------------------------
(* ApiKeys for TLC.  Request slots are interchangeable: no action and no   *)
(* property names one of them.                                             *)
EXTENDS ApiKeys, TLC

RequestSymmetry == Permutations(Requests)
=============================================================================

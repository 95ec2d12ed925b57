--------------------------- MODULE MCAuthSessions ---------------------------
(* AuthSessions for TLC.  Request slots are interchangeable: no action, no *)
(* property and no initial value names one of them.                        *)
EXTENDS AuthSessions, TLC

RequestSymmetry == Permutations(Requests)
=============================================================================

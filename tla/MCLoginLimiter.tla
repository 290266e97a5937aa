---------------------------- MODULE MCLoginLimiter ----------------------------
(***************************************************************************)
(* Two logins at a time, of two identifiers from one address, with windows *)
(* of two ticks: long enough for failures to leave them one by one.        *)
(***************************************************************************)
EXTENDS LoginLimiter, TLC

Symmetry == Permutations(Requests) \cup Permutations(Identifiers)
=============================================================================

------------------------------- MODULE MCNat -------------------------------
(* Small instances of Nat for TLC. *)
EXTENDS Nat, TLC

CONSTANTS r1, r2, s1, s2

\* Requests and sessions are only compared, so permuting them maps behaviours
\* to behaviours.
Sym == Permutations(Req) \cup Permutations(Session)
=============================================================================

------------------------------- MODULE MCAccounts -------------------------------
(* Instances of Accounts for TLC: calls are interchangeable, which only the *)
(* run without a liveness property makes use of.                            *)
EXTENDS Accounts, TLC

Symmetry == Permutations(Call)
=============================================================================

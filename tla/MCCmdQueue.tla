------------------------------ MODULE MCCmdQueue ------------------------------
(* Instances of the registry and of the choice of machines for TLC: command *)
(* objects are interchangeable, and so are machines.                        *)
EXTENDS Provision, TLC

Symmetry == Permutations(Cmd) \cup Permutations(Machine)
=============================================================================

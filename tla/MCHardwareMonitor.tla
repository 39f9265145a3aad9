-------------------------- MODULE MCHardwareMonitor --------------------------
(***************************************************************************)
(* The monitor against the most general users of its interface: two        *)
(* commanders that register, command and leave in every order, and one     *)
(* listener.                                                               *)
(***************************************************************************)
EXTENDS HardwareMonitor, TLC

Symmetry == Permutations(Fds) \union Permutations(Commanders)
=============================================================================

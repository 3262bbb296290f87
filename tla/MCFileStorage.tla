--------------------------- MODULE MCFileStorage ---------------------------
(***************************************************************************)
(* An instance of FileStorage for TLC: each client's keys are a constant   *)
(* that a configuration file cannot write down.                            *)
(***************************************************************************)
EXTENDS FileStorage, TLC

CONSTANTS c1, c2, k1, k2, v1, v2

(* Both clients work on both keys.                                         *)
SharedKeys == [c \in {c1, c2} |-> {k1, k2}]

(* With shared keys nothing tells clients, keys or values apart.           *)
Symmetry == Permutations({c1, c2}) \cup Permutations({k1, k2}) \cup Permutations({v1, v2})
=============================================================================

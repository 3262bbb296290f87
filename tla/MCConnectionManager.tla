------------------------ MODULE MCConnectionManager ------------------------
(***************************************************************************)
(* An instance of ConnectionManager for TLC: one connection that moves     *)
(* bytes and one that only comes and goes.                                 *)
(***************************************************************************)
EXTENDS ConnectionManager

CONSTANTS c1, c2

MCConns == {c1, c2}
MCMaxBytes == [c \in MCConns |-> IF c = c1 THEN 2 ELSE 0]
=============================================================================

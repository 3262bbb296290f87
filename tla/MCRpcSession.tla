---------------------------- MODULE MCRpcSession ----------------------------
(***************************************************************************)
(* An instance of RpcSession for TLC.                                      *)
(***************************************************************************)
EXTENDS RpcSession

MCReqs == {"r1", "r2", "r3"}

(* Two objects can be opened, and one used, accepted from or closed while  *)
(* the other calls are under way.                                          *)
MCKindsOf ==
    [r \in MCReqs |-> IF r = "r2" THEN {"Accept", "Use", "Close"} ELSE {"Open"}]

(* Two calls that need no object.                                          *)
PairReqs == {"r1", "r2"}
PairKindsOf == [r \in PairReqs |-> {"Lookup"}]
=============================================================================

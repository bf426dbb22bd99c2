----------------------------- MODULE MCRpcServer -----------------------------
(* Small instances of RpcServer for TLC.                                   *)
EXTENDS RpcServer

CONSTANTS a, b, d

TwoRequests == {a, b}
ThreeRequests == {a, b, d}

(* Two bodies that do not fit in memory together.                          *)
MCSize == [r \in Requests |-> IF r = a THEN 2 ELSE 1]

=============================================================================

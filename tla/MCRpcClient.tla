----------------------------- MODULE MCRpcClient -----------------------------
(* Small instances of RpcClient for TLC.                                   *)
EXTENDS RpcClient

CONSTANTS a, b, d, u

TwoCalls == {a, b}
ThreeCalls == {a, b, d}
OneController == {u}

(* Two envelopes that do not fit in memory together.                       *)
MCSize == [c \in Calls |-> IF c = a THEN 2 ELSE 1]

=============================================================================

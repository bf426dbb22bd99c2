-------------------------- MODULE MCReconnectClient --------------------------
(* Small instances of ReconnectClient for TLC.                             *)
EXTENDS ReconnectClient

CONSTANTS u, v

TwoUsers == {u, v}

=============================================================================

------------------------------- MODULE RpcCalls -------------------------------
(***************************************************************************)
(* What smf::rpc_client promises about a call of send(), in the words of   *)
(* include/smf/rpc_client.h: the client keeps a set of futures and         *)
(* fulfils each of them as its response comes in, in any order.            *)
(*                                                                         *)
(* A call resolves once, with the response of the server to that call or   *)
(* with an error.  The server answers a call at most once and only after   *)
(* it was issued; it may also answer a call that has failed on the client. *)
(***************************************************************************)
CONSTANTS Calls

VARIABLES
  status,   \* status[c]: "idle", "pending", "replied" or "failed"
  served    \* calls the server has answered

vars == <<status, served>>

Init ==
  /\ status = [c \in Calls |-> "idle"]
  /\ served = {}

Issue(c) ==
  /\ status[c] = "idle"
  /\ status' = [status EXCEPT ![c] = "pending"]
  /\ UNCHANGED served

Serve(c) ==
  /\ status[c] # "idle" /\ c \notin served
  /\ served' = served \cup {c}
  /\ UNCHANGED status

Reply(c) ==
  /\ status[c] = "pending" /\ c \in served
  /\ status' = [status EXCEPT ![c] = "replied"]
  /\ UNCHANGED served

Fail(c) ==
  /\ status[c] \in {"idle", "pending"}
  /\ status' = [status EXCEPT ![c] = "failed"]
  /\ UNCHANGED served

Next == \E c \in Calls : Issue(c) \/ Serve(c) \/ Reply(c) \/ Fail(c)

Spec == Init /\ [][Next]_vars

=============================================================================

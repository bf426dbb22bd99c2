--------------------------- MODULE ReconnectClient ---------------------------
(***************************************************************************)
(* smf::reconnect_client (include/smf/reconnect_client.h): an rpc_client   *)
(* that reconnects in the background and waits longer after every failure. *)
(*                                                                         *)
(* Each call of connect() is a fiber.  A fiber whose attempt fails sleeps  *)
(* in the background and calls connect() again, so it stays one fiber of   *)
(* the model.  Of the rpc_client inside, the model keeps what reconnect()  *)
(* and stop() change: whether the connection is valid and whether its      *)
(* dispatch gate is closed; RpcClient has the rest.                        *)
(***************************************************************************)
EXTENDS Integers, FiniteSets, Sequences

CONSTANTS
  Users             \* the calls of connect() in a behaviour

VARIABLES
  serial,           \* connect() is not called while an earlier call goes on
  bo,               \* bo_, in seconds
  fiber,            \* fiber[f]: where the call f of connect() is
  reconnect_closed, \* reconnect_gate_ is closed
  valid,            \* client_->is_conn_valid()
  dispatch_closed,  \* the dispatch gate of client_ is closed
  stopping,         \* how far stop() is
  aborted,          \* a closed gate was closed again: seastar asserts
  failures          \* history: retries scheduled since the last success

vars == <<serial, bo, fiber, reconnect_closed, valid, dispatch_closed, stopping, aborted, failures>>

(* enum reconnect_backoff and the clamp table of operator++.               *)
Backoffs == <<0, 1, 3, 5, 10, 20, 30, 60, 300, 600, 1800>>
MaxBackoff == 1800

Init ==
  /\ serial \in BOOLEAN
  /\ bo = 0
  /\ fiber = [f \in Users |-> "idle"]
  /\ reconnect_closed = FALSE
  /\ valid = FALSE
  /\ dispatch_closed = FALSE
  /\ stopping = "no"
  /\ aborted = FALSE
  /\ failures = 0

-----------------------------------------------------------------------------
(* Mutant: the search of the clamp table is strict and skips an entry.     *)
SkippingIncrement(b) ==
  LET later == {i \in DOMAIN Backoffs : b + 1 < Backoffs[i]}
  IN IF later = {} THEN MaxBackoff
     ELSE Backoffs[CHOOSE i \in later : \A j \in later : i <= j]

(* operator++: one more than now, then up to the next entry of the table.  *)
Increment(b) ==
  LET later == {i \in DOMAIN Backoffs : b + 1 <= Backoffs[i]}
  IN IF later = {} THEN MaxBackoff
     ELSE Backoffs[CHOOSE i \in later : \A j \in later : i <= j]

(* A fiber that holds reconnect_gate_.                                     *)
Active(f) == fiber[f] \in {"gate", "socket", "sleep"}

(* Closing client_'s dispatch gate, as reconnect() and stop() do.          *)
CloseDispatch ==
  /\ aborted' = dispatch_closed
  /\ dispatch_closed' = TRUE

(* Mutant: connect() does not look at reconnect_gate_.                     *)
AttemptAfterStop(f) ==
  IF valid
  THEN fiber' = [fiber EXCEPT ![f] = "done"] /\ UNCHANGED <<aborted, dispatch_closed>>
  ELSE fiber' = [fiber EXCEPT ![f] = "gate"] /\ CloseDispatch

(* The body of connect(): nothing to do, or client_->reconnect().          *)
Attempt(f) ==
  IF valid \/ reconnect_closed
  THEN fiber' = [fiber EXCEPT ![f] = "done"] /\ UNCHANGED <<aborted, dispatch_closed>>
  ELSE fiber' = [fiber EXCEPT ![f] = "gate"] /\ CloseDispatch

Connect(f) ==
  /\ fiber[f] = "idle"
  /\ serial => \A g \in Users : ~Active(g)
  /\ Attempt(f)
  /\ UNCHANGED <<bo, reconnect_closed, valid, stopping, failures>>

(* The dispatch gate has emptied: reconnect() replaces it and connects.    *)
Reopen(f) ==
  /\ fiber[f] = "gate"
  /\ fiber' = [fiber EXCEPT ![f] = "socket"]
  /\ dispatch_closed' = FALSE
  /\ valid' = FALSE
  /\ UNCHANGED <<bo, reconnect_closed, stopping, aborted, failures>>

(* handle_exception: sleep in the background, unless reconnect_gate_ was   *)
(* closed meanwhile, when entering it throws and ends the fiber.           *)
Retry(f) ==
  IF reconnect_closed
  THEN fiber' = [fiber EXCEPT ![f] = "done"] /\ UNCHANGED <<bo, failures>>
  ELSE /\ fiber' = [fiber EXCEPT ![f] = "sleep"]
       /\ bo' = Increment(bo)
       /\ failures' = IF failures < Len(Backoffs) - 1 THEN failures + 1 ELSE failures

(* The socket is connected.  The background reads enter the dispatch gate, *)
(* which throws when an overlapping connect() has closed it meanwhile.     *)
ConnectOk(f) ==
  /\ fiber[f] = "socket"
  /\ valid' = TRUE
  /\ IF dispatch_closed THEN Retry(f)
     ELSE fiber' = [fiber EXCEPT ![f] = "done"] /\ bo' = 0 /\ failures' = 0
  /\ UNCHANGED <<reconnect_closed, dispatch_closed, stopping, aborted>>

(* Mutant: the failed attempt is not retried in the background.            *)
FailureIsFinal(f) ==
  /\ fiber[f] = "socket"
  /\ fiber' = [fiber EXCEPT ![f] = "done"]
  /\ UNCHANGED <<bo, reconnect_closed, valid, dispatch_closed, stopping, aborted, failures>>

ConnectFails(f) ==
  /\ fiber[f] = "socket"
  /\ Retry(f)
  /\ UNCHANGED <<reconnect_closed, valid, dispatch_closed, stopping, aborted>>

(* Mutant: a sleeper woken after stop() never leaves the gate.             *)
WakeUnlessStopped(f) ==
  /\ fiber[f] = "sleep" /\ ~reconnect_closed
  /\ Attempt(f)
  /\ UNCHANGED <<bo, reconnect_closed, valid, stopping, failures>>

(* The sleep is over.                                                      *)
Wake(f) ==
  /\ fiber[f] = "sleep"
  /\ Attempt(f)
  /\ UNCHANGED <<bo, reconnect_closed, valid, stopping, failures>>

-----------------------------------------------------------------------------
(* stop() closes reconnect_gate_, waits for the fibers in it, and then     *)
(* stops client_.                                                          *)
Stop ==
  /\ stopping = "no"
  /\ stopping' = "waiting"
  /\ reconnect_closed' = TRUE
  /\ UNCHANGED <<bo, fiber, valid, dispatch_closed, aborted, failures>>

(* Mutant: client_ is stopped without waiting for the fibers.              *)
StopClientAtOnce ==
  /\ stopping = "waiting"
  /\ stopping' = "client"
  /\ valid' = FALSE
  /\ CloseDispatch
  /\ UNCHANGED <<bo, fiber, reconnect_closed, failures>>

StopClient ==
  /\ stopping = "waiting"
  /\ \A f \in Users : ~Active(f)
  /\ stopping' = "client"
  /\ valid' = FALSE
  /\ CloseDispatch
  /\ UNCHANGED <<bo, fiber, reconnect_closed, failures>>

(* The dispatch gate has emptied: stop() is complete.                      *)
Stopped ==
  /\ stopping = "client"
  /\ stopping' = "done"
  /\ UNCHANGED <<bo, fiber, reconnect_closed, valid, dispatch_closed, aborted, failures>>

(* The server goes away, or a call fails the connection.                   *)
Drop ==
  /\ valid
  /\ valid' = FALSE
  /\ UNCHANGED <<bo, fiber, reconnect_closed, dispatch_closed, stopping, aborted, failures>>

Step(f) == Reopen(f) \/ ConnectOk(f) \/ ConnectFails(f) \/ Wake(f)

Next ==
  /\ ~aborted
  /\ UNCHANGED serial
  /\ \/ \E f \in Users : Connect(f) \/ Step(f)
     \/ Stop \/ StopClient \/ Stopped
     \/ Drop

Spec == Init /\ [][Next]_vars

(* The reactor runs ready continuations and timers; the dispatch gate      *)
(* empties (CloseCompletes of RpcClient); an attempt ends; and a server    *)
(* that is tried again and again is reachable at some attempt.             *)
FairSpec ==
  /\ Spec
  /\ \A f \in Users : WF_vars(Next /\ Step(f)) /\ SF_vars(Next /\ ConnectOk(f))
  /\ WF_vars(Next /\ StopClient) /\ WF_vars(Next /\ Stopped)

-----------------------------------------------------------------------------
(* Properties.                                                             *)

(* Every variable has its type.                                            *)
TypeOK ==
  /\ serial \in BOOLEAN
  /\ bo \in {Backoffs[i] : i \in DOMAIN Backoffs}
  /\ fiber \in [Users -> {"idle", "gate", "socket", "sleep", "done"}]
  /\ reconnect_closed \in BOOLEAN /\ valid \in BOOLEAN
  /\ dispatch_closed \in BOOLEAN /\ aborted \in BOOLEAN
  /\ stopping \in {"no", "waiting", "client", "done"}
  /\ failures \in 0..(Len(Backoffs) - 1)

(* After k failed attempts in a row the next one waits for the k-th entry  *)
(* of the table, up to half an hour, however the attempts are spread over  *)
(* calls of connect(); a success starts again from no wait.                *)
BackoffFollowsFailures == bo = Backoffs[failures + 1]

(* As long as connect() is not called while an earlier call of it is still *)
(* trying or sleeping, no gate is closed twice: neither by two attempts    *)
(* nor by stop() meeting an attempt in the background.                     *)
GateClosedOnce == serial => ~aborted

(* When stop() has returned no fiber is left that could use the client,    *)
(* and none has brought the connection up again.                           *)
QuietAfterStop == stopping = "done" => ~valid /\ \A f \in Users : ~Active(f)

(* A call of connect() that begins an attempt is followed by a connection  *)
(* or by stop(), whatever number of attempts fails first.                  *)
Reconnects == \A f \in Users : Active(f) ~> (valid \/ stopping # "no" \/ aborted)

(* stop() returns, also when a fiber sleeps or is connecting.              *)
StopCompletes == stopping # "no" ~> (stopping = "done" \/ aborted)

=============================================================================

------------------------------ MODULE RpcServer ------------------------------
(***************************************************************************)
(* smf::rpc_server (core/rpc_server.cc, include/smf/rpc_server.h) on one   *)
(* core, with its connections (include/smf/rpc_server_connection.h) and    *)
(* the memory limit they share (include/smf/rpc_connection_limits.h).      *)
(*                                                                         *)
(* The fibers are the accept loop, one reader per connection               *)
(* (handle_client_connection), one background fiber per request            *)
(* (dispatch_rpc) and stop().  A request is known by its identity and its  *)
(* size; whether its bytes are well formed, whether a route exists and     *)
(* what filters and handler do is chosen when the code finds out.  A read  *)
(* that meets the end of the stream sets the connection's error in the     *)
(* same step, so is_valid() is the absence of an error.                    *)
(***************************************************************************)
EXTENDS Integers, Sequences, FiniteSets, Functions

CONSTANTS
  Requests,        \* the requests the peers send, each once
  MaxConns,        \* bound: connections accepted in a behaviour
  Memory,          \* memory_avail_per_core
  Size,            \* Size[r]: header.size() of request r, a uint32_t
  Int32Half,       \* 2^31 in the build
  CounterModulus,  \* the statistics are uint64_t: 2^64 in the build
  Reliable         \* whether bodies arrive in time and no socket is reset

ASSUME ServerConstants ==
  /\ MaxConns \in Nat \ {0}
  /\ Memory \in Nat
  /\ Int32Half \in Nat \ {0}
  /\ CounterModulus \in Nat \ {0}
  /\ Size \in [Requests -> 1..(2 * Int32Half - 1)]
  /\ Reliable \in BOOLEAN

VARIABLES
  listening,     \* the accept loop is running
  stopping,      \* how far stop() is
  gate_closed,   \* reply_gate_.is_closed()
  connection_idx,
  srv,           \* open_connections_ and the counters of rpc_server_stats
  error,         \* connections with an error
  drained,       \* connections whose input stop() has shut down
  broken,        \* connections on which a write has failed
  reader,        \* reader[n]: where the reader of connection n is
  memq,          \* readers waiting for resources_available, in FIFO order
  avail,         \* units of resources_available
  lost,          \* history: units taken that no fiber will return
  fiber,         \* fiber[r]: where dispatch_rpc of request r is
  on,            \* on[r]: the connection that carries r, 0 before it is sent
  wq,            \* wq[n]: fibers queued for serialize_writes, the head holds it
  half,          \* connections on which the head has written its header
  wire,          \* wire[n]: header and body parts written to connection n
  in,            \* in[n]: requests sent on connection n and not yet read
  closed         \* connections closed by the peer

stopVars == <<listening, stopping, gate_closed>>
connVars == <<connection_idx, error, drained, broken>>
memVars == <<memq, avail, lost>>
writeVars == <<wq, half, wire>>
envVars == <<on, in, closed>>
vars == <<stopVars, connVars, srv, reader, memVars, fiber, writeVars, envVars>>

Conns == 1..MaxConns
Accepted == 1..connection_idx

Init ==
  /\ listening = TRUE
  /\ stopping = "no"
  /\ gate_closed = FALSE
  /\ connection_idx = 0
  /\ srv = [open |-> {}, bad_requests |-> 0, completed_requests |-> 0]
  /\ error = {} /\ drained = {} /\ broken = {}
  /\ reader = [n \in Conns |-> "off"]
  /\ memq = <<>> /\ avail = Memory /\ lost = 0
  /\ fiber = [r \in Requests |-> "none"]
  /\ on = [r \in Requests |-> 0]
  /\ wq = [n \in Conns |-> <<>>]
  /\ half = {}
  /\ wire = [n \in Conns |-> <<>>]
  /\ in = [n \in Conns |-> <<>>]
  /\ closed = {}

-----------------------------------------------------------------------------
(* cleanup_dispatch_rpc erases the connection and counts a bad request; or *)
(* it counts a completed one.                                              *)
Reap(s, n) == [open |-> s.open \ {n}, bad_requests |-> s.bad_requests + 1,
               completed_requests |-> s.completed_requests]
Complete(s) == [open |-> s.open, bad_requests |-> s.bad_requests,
                completed_requests |-> s.completed_requests + 1]

(* Mutants of cleanup_dispatch_rpc: the connection is counted and closed   *)
(* again by every fiber that meets its error; an error is left to others;  *)
(* the wrong counter goes down with active_connections.                    *)
CleanupAgain(s, n, err) == IF n \in err THEN Reap(s, n) ELSE Complete(s)
CleanupNever(s, n, err) == IF n \in err THEN s ELSE Complete(s)
CleanupUncounts(s, n, err) ==
  IF n \in err
  THEN [open |-> s.open \ {n}, bad_requests |-> s.bad_requests - 1,
        completed_requests |-> s.completed_requests]
  ELSE Complete(s)

(* cleanup_dispatch_rpc on the server's table and statistics s, where err  *)
(* holds the connections with an error.  Together with the erase the       *)
(* connection is disabled and its socket shut down both ways.              *)
cleanup_dispatch_rpc(s, n, err) ==
  IF n \in err THEN (IF n \in s.open THEN Reap(s, n) ELSE s) ELSE Complete(s)

Reaped == Accepted \ srv.open

(* The read side sees the end of the stream.                               *)
AtEof(n) == n \in closed \cup drained \cup Reaped

(* dispatch_rpc takes payload_size as an int32_t and signals it.           *)
AsInt32(x) == IF x < Int32Half THEN x ELSE x - 2 * Int32Half
Signalled(r) == avail + AsInt32(Size[r])

-----------------------------------------------------------------------------
(* start(): the accept loop.                                               *)

Accept ==
  /\ listening /\ connection_idx < MaxConns
  /\ connection_idx' = connection_idx + 1
  /\ srv' = [open |-> srv.open \cup {connection_idx + 1},
              bad_requests |-> srv.bad_requests,
              completed_requests |-> srv.completed_requests]
  /\ reader' = [reader EXCEPT ![connection_idx + 1] = "header"]
  /\ UNCHANGED <<stopVars, error, drained, broken, memVars, fiber, writeVars, envVars>>

(* accept() fails, aborted or not: the loop ends and stopped_ is set.      *)
AcceptFails ==
  /\ listening
  /\ listening' = FALSE
  /\ UNCHANGED <<stopping, gate_closed, connVars, srv, reader, memVars, fiber, writeVars, envVars>>

-----------------------------------------------------------------------------
(* handle_client_connection() and handle_one_client_session().             *)

ReadHeader(n) ==
  /\ reader[n] = "header" /\ in[n] # <<>>
  /\ reader' = [reader EXCEPT ![n] = "memory"]
  /\ memq' = Append(memq, n)
  /\ UNCHANGED <<stopVars, connVars, srv, avail, lost, fiber, writeVars, envVars>>

(* The loop ends because the connection has an error.                      *)
SessionEnds(n) ==
  /\ error' = error \cup {n}
  /\ srv' = cleanup_dispatch_rpc(srv, n, error')
  /\ reader' = [reader EXCEPT ![n] = "done"]

(* parse_header returns nothing.                                           *)
BadHeader(n) ==
  /\ reader[n] = "header" /\ (in[n] # <<>> \/ AtEof(n))
  /\ SessionEnds(n)
  /\ UNCHANGED <<stopVars, connection_idx, drained, broken, memVars, fiber, writeVars, envVars>>

Waiting == Head(in[Head(memq)])

(* The first waiter obtains the units its header asks for.                 *)
Admit ==
  /\ memq # <<>> /\ Size[Waiting] <= avail
  /\ avail' = avail - Size[Waiting]
  /\ reader' = [reader EXCEPT ![Head(memq)] = "payload"]
  /\ memq' = Tail(memq)
  /\ UNCHANGED <<stopVars, connVars, srv, lost, fiber, writeVars, envVars>>

(* parse_payload returns nothing: the body is malformed, too large or cut  *)
(* short.                                                                  *)
BadPayload(n) ==
  /\ reader[n] = "payload"
  /\ avail' = Signalled(Head(in[n]))
  /\ SessionEnds(n)
  /\ in' = [in EXCEPT ![n] = Tail(@)]
  /\ UNCHANGED <<stopVars, connection_idx, drained, broken, memq, lost, fiber, writeVars,
                 on, closed>>

(* The next turn of the loop of handle_client_connection.                  *)
NextTurn(n) ==
  IF n \in error THEN SessionEnds(n)
  ELSE reader' = [reader EXCEPT ![n] = "header"] /\ UNCHANGED <<error, srv>>

(* Mutant: the fiber does not enter reply_gate_.                           *)
EnterUnguarded(r) == fiber' = [fiber EXCEPT ![r] = "handling"]

(* with_gate(reply_gate_), which throws when the gate is closed.           *)
EnterGate(r) == ~gate_closed /\ fiber' = [fiber EXCEPT ![r] = "handling"]

(* The body is complete: dispatch_rpc is started in the background.        *)
Dispatch(n) ==
  /\ reader[n] = "payload" /\ Size[Head(in[n])] < Int32Half
  /\ in' = [in EXCEPT ![n] = Tail(@)]
  /\ EnterGate(Head(in[n]))
  /\ NextTurn(n)
  /\ UNCHANGED <<stopVars, connection_idx, drained, broken, memVars, writeVars, on, closed>>

(* The same, and no route is registered for the request: the connection    *)
(* gets an error, which also ends the reader's loop.                       *)
DispatchNoRoute(n) ==
  /\ reader[n] = "payload" /\ Size[Head(in[n])] < Int32Half
  /\ ~gate_closed
  /\ in' = [in EXCEPT ![n] = Tail(@)]
  /\ fiber' = [fiber EXCEPT ![Head(in[n])] = "cleanup"]
  /\ SessionEnds(n)
  /\ UNCHANGED <<stopVars, connection_idx, drained, broken, memVars, writeVars, on, closed>>

(* The socket is reset, the body does not arrive in time, or the gate that *)
(* dispatch_rpc enters is closed.                                          *)
Throws(n) ==
  \/ ~Reliable /\ (reader[n] = "payload" \/ (reader[n] = "header" /\ n \in closed))
  \/ gate_closed /\ reader[n] = "payload" /\ Size[Head(in[n])] < Int32Half

(* The exception passes through finally, which runs cleanup_dispatch_rpc,  *)
(* and is handled with an error and another cleanup_dispatch_rpc.  Nobody  *)
(* returns the units of the request.                                       *)
SessionThrows(n) ==
  /\ Throws(n)
  /\ error' = error \cup {n}
  /\ srv' = cleanup_dispatch_rpc(cleanup_dispatch_rpc(srv, n, error), n, error')
  /\ reader' = [reader EXCEPT ![n] = "done"]
  /\ lost' = IF reader[n] = "payload" THEN lost + Size[Head(in[n])] ELSE lost
  /\ UNCHANGED <<stopVars, connection_idx, drained, broken, memq, avail, fiber, writeVars, envVars>>

Session(n) == \/ ReadHeader(n) \/ BadHeader(n) \/ BadPayload(n) \/ Dispatch(n)
              \/ DispatchNoRoute(n) \/ SessionThrows(n)

-----------------------------------------------------------------------------
(* dispatch_rpc() and do_dispatch_rpc().                                   *)

(* Mutant: the units are returned by then() and not by finally().          *)
ThrowKeepsUnits(r) ==
  /\ fiber[r] = "handling"
  /\ fiber' = [fiber EXCEPT ![r] = "threw"]
  /\ UNCHANGED <<stopVars, connVars, srv, reader, memVars, writeVars, envVars>>

(* A filter or the handler throws: neither the reply nor                   *)
(* cleanup_dispatch_rpc runs, the units are returned.                      *)
HandleThrows(r) ==
  /\ fiber[r] = "handling"
  /\ fiber' = [fiber EXCEPT ![r] = "threw"]
  /\ avail' = Signalled(r)
  /\ UNCHANGED <<stopVars, connVars, srv, reader, memq, lost, writeVars, envVars>>

(* The incoming filters left the body compressed.                          *)
NoDecompressor(r) ==
  /\ fiber[r] = "handling"
  /\ fiber' = [fiber EXCEPT ![r] = "cleanup"]
  /\ error' = error \cup {on[r]}
  /\ UNCHANGED <<stopVars, connection_idx, drained, broken, srv, reader, memVars, writeVars, envVars>>

(* The reply is ready: it is queued for serialize_writes, or skipped if    *)
(* the connection is no longer valid.                                      *)
HandleDone(r) ==
  /\ fiber[r] = "handling"
  /\ IF on[r] \in error
     THEN fiber' = [fiber EXCEPT ![r] = "cleanup"] /\ wq' = wq
     ELSE /\ fiber' = [fiber EXCEPT ![r] = "writing"]
          /\ wq' = [wq EXCEPT ![on[r]] = Append(@, r)]
  /\ UNCHANGED <<stopVars, connVars, srv, reader, memVars, half, wire, envVars>>

Writable(n) == n \notin Reaped \cup broken

(* Mutant: serialize_writes lets a second reply in.                        *)
WriteUnserialized(n) ==
  LET i == IF n \in half THEN 2 ELSE 1
  IN /\ Len(wq[n]) >= i /\ Writable(n)
     /\ wire' = [wire EXCEPT ![n] = Append(@, <<"header", wq[n][i]>>)]
     /\ half' = half \cup {n}
     /\ UNCHANGED <<stopVars, connVars, srv, reader, memVars, fiber, wq, envVars>>

WriteHeader(n) ==
  /\ wq[n] # <<>> /\ n \notin half /\ Writable(n)
  /\ wire' = [wire EXCEPT ![n] = Append(@, <<"header", Head(wq[n])>>)]
  /\ half' = half \cup {n}
  /\ UNCHANGED <<stopVars, connVars, srv, reader, memVars, fiber, wq, envVars>>

WriteBody(n) ==
  /\ n \in half /\ Writable(n)
  /\ wire' = [wire EXCEPT ![n] = Append(@, <<"body", Head(wq[n])>>)]
  /\ half' = half \ {n}
  /\ wq' = [wq EXCEPT ![n] = Tail(@)]
  /\ fiber' = [fiber EXCEPT ![Head(wq[n])] = "flushing"]
  /\ UNCHANGED <<stopVars, connVars, srv, reader, memVars, envVars>>

(* Mutant: the failed write is ignored.                                    *)
FailedWriteGoesOn(n) ==
  /\ wq[n] # <<>> /\ n \in Reaped \cup broken \cup closed
  /\ broken' = broken \cup {n}
  /\ half' = half \ {n}
  /\ wq' = [wq EXCEPT ![n] = Tail(@)]
  /\ fiber' = [fiber EXCEPT ![Head(wq[n])] = "flushing"]
  /\ UNCHANGED <<stopVars, connection_idx, error, drained, srv, reader, memVars, wire, envVars>>

(* A write fails: the fiber ends without cleanup_dispatch_rpc.             *)
WriteFails(n) ==
  /\ wq[n] # <<>> /\ n \in Reaped \cup broken \cup closed
  /\ broken' = broken \cup {n}
  /\ half' = half \ {n}
  /\ wq' = [wq EXCEPT ![n] = Tail(@)]
  /\ fiber' = [fiber EXCEPT ![Head(wq[n])] = "failed"]
  /\ avail' = Signalled(Head(wq[n]))
  /\ UNCHANGED <<stopVars, connection_idx, error, drained, srv, reader, memq, lost, wire, envVars>>

Write(n) == WriteHeader(n) \/ WriteBody(n) \/ WriteFails(n)

(* The last flush, outside serialize_writes, only on a valid connection.   *)
Flush(r) ==
  /\ fiber[r] = "flushing"
  /\ fiber' = [fiber EXCEPT ![r] = "cleanup"]
  /\ UNCHANGED <<stopVars, connVars, srv, reader, memVars, writeVars, envVars>>

FlushFails(r) ==
  /\ fiber[r] = "flushing"
  /\ on[r] \notin error /\ on[r] \in broken \cup closed
  /\ fiber' = [fiber EXCEPT ![r] = "failed"]
  /\ avail' = Signalled(r)
  /\ UNCHANGED <<stopVars, connVars, srv, reader, memq, lost, writeVars, envVars>>

(* cleanup_dispatch_rpc, the units are returned, the gate is left.         *)
Cleanup(r) ==
  /\ fiber[r] = "cleanup"
  /\ fiber' = [fiber EXCEPT ![r] = "done"]
  /\ srv' = cleanup_dispatch_rpc(srv, on[r], error)
  /\ avail' = Signalled(r)
  /\ UNCHANGED <<stopVars, connVars, reader, memq, lost, writeVars, envVars>>

Handle(r) == HandleThrows(r) \/ NoDecompressor(r) \/ HandleDone(r)
Finish(r) == Flush(r) \/ FlushFails(r) \/ Cleanup(r)

-----------------------------------------------------------------------------
(* stop().                                                                 *)

(* Mutant: a fiber that ends with an exception does not leave the gate.    *)
InGateAfterThrow(r) == fiber[r] \in {"handling", "writing", "flushing", "cleanup", "threw"}
InGate(r) == fiber[r] \in {"handling", "writing", "flushing", "cleanup"}

Stop ==
  /\ stopping = "no"
  /\ stopping' = "accepts"
  /\ UNCHANGED <<listening, gate_closed, connVars, srv, reader, memVars, fiber, writeVars, envVars>>

(* stopped_ is set: the inputs are shut down and the gate closes.          *)
StopCloses ==
  /\ stopping = "accepts" /\ ~listening
  /\ stopping' = "gate"
  /\ drained' = srv.open
  /\ gate_closed' = TRUE
  /\ UNCHANGED <<listening, connection_idx, error, broken, srv, reader, memVars, fiber,
                 writeVars, envVars>>

StopReturns ==
  /\ stopping = "gate" /\ \A r \in Requests : ~InGate(r)
  /\ stopping' = "done"
  /\ UNCHANGED <<listening, gate_closed, connVars, srv, reader, memVars, fiber, writeVars, envVars>>

-----------------------------------------------------------------------------
(* The peers.                                                              *)

PeerSends(n, r) ==
  /\ n \in Accepted \ closed /\ on[r] = 0
  /\ on' = [on EXCEPT ![r] = n]
  /\ in' = [in EXCEPT ![n] = Append(@, r)]
  /\ UNCHANGED <<stopVars, connVars, srv, reader, memVars, fiber, writeVars, closed>>

PeerCloses(n) ==
  /\ n \in Accepted \ closed
  /\ closed' = closed \cup {n}
  /\ UNCHANGED <<stopVars, connVars, srv, reader, memVars, fiber, writeVars, on, in>>

Next ==
  \/ Accept \/ AcceptFails
  \/ \E n \in Conns : Session(n) \/ Write(n)
  \/ Admit
  \/ \E r \in Requests : Handle(r) \/ Finish(r)
  \/ Stop \/ StopCloses \/ StopReturns
  \/ \E n \in Conns : PeerCloses(n) \/ \E r \in Requests : PeerSends(n, r)

Spec == Init /\ [][Next]_vars

(* The reactor runs every ready continuation; an aborted accept() fails; a *)
(* body arrives, ends or times out; filters and handlers return; a write   *)
(* ends because the peer drains its socket or the socket fails.            *)
Fairness ==
  /\ WF_vars(stopping # "no" /\ AcceptFails)
  /\ WF_vars(StopCloses) /\ WF_vars(StopReturns)
  /\ WF_vars(Admit)
  /\ \A n \in Conns : WF_vars(Session(n)) /\ WF_vars(Write(n))
  /\ \A r \in Requests : WF_vars(Handle(r)) /\ WF_vars(Finish(r))

FairSpec == Spec /\ Fairness

-----------------------------------------------------------------------------
(* Properties.                                                             *)

Parts == {"header", "body"} \X Requests
StopTypes ==
  /\ listening \in BOOLEAN /\ gate_closed \in BOOLEAN
  /\ stopping \in {"no", "accepts", "gate", "done"}
ConnTypes ==
  /\ connection_idx \in 0..MaxConns
  /\ error \in SUBSET Conns /\ drained \in SUBSET Conns /\ broken \in SUBSET Conns
SrvTypes == srv \in [open : SUBSET Conns, bad_requests : Nat, completed_requests : Nat]
MemTypes == memq \in Seq(Conns) /\ avail \in Int /\ lost \in Nat
ReaderTypes == reader \in [Conns -> {"off", "header", "memory", "payload", "done"}]
FiberTypes ==
  fiber \in [Requests -> {"none", "handling", "writing", "flushing", "cleanup",
                          "done", "threw", "failed"}]
WriteTypes ==
  /\ wq \in [Conns -> Seq(Requests)] /\ half \in SUBSET Conns
  /\ wire \in [Conns -> Seq(Parts)]
EnvTypes ==
  /\ on \in [Requests -> 0..MaxConns] /\ in \in [Conns -> Seq(Requests)]
  /\ closed \in SUBSET Conns

(* Every variable has its type.                                            *)
TypeOK == /\ StopTypes /\ ConnTypes /\ SrvTypes /\ MemTypes
          /\ ReaderTypes /\ FiberTypes /\ WriteTypes /\ EnvTypes

(* The readers and fibers of a connection race to close it when it has an  *)
(* error: each connection is erased, counted and shut down exactly once.   *)
ReapedOnce == srv.bad_requests = Cardinality(Reaped)

(* Units that a reader or a fiber holds and will return.                   *)
Held == SumFunctionOnSet(Size, {r \in Requests : InGate(r)})
        + SumFunctionOnSet([n \in Conns |-> IF reader[n] = "payload" THEN Size[Head(in[n])] ELSE 0],
                           Conns)

(* Units cross from the reader to the fiber of the request: each one taken *)
(* is free, held, or lost with a session that threw before its fiber was   *)
(* in the gate.                                                            *)
UnitsAccounted == avail + Held + lost = Memory

(* On every connection the replies of concurrent fibers do not interleave. *)
RepliesFramed ==
  \A n \in Conns : \A i \in 1..Len(wire[n]) :
    /\ wire[n][i][1] = "header" <=> i % 2 = 1
    /\ i % 2 = 0 => wire[n][i][2] = wire[n][i - 1][2]

Replied(r) == \E n \in Conns : \E i \in 1..Len(wire[n]) : wire[n][i] = <<"body", r>>

(* A request that ends without an exception was answered, unless its       *)
(* connection has an error, so a client on a valid connection only waits   *)
(* in vain after an exception.                                             *)
DoneMeansReplied ==
  \A r \in Requests : fiber[r] = "done" /\ on[r] \notin error => Replied(r)

(* When stop() has returned no request starts or goes on and nothing is    *)
(* written, although readers are still running.                            *)
QuietAfterStop == [][stopping = "done" => UNCHANGED <<fiber, wire>>]_vars

(* A connection with an error leaves open_connections_.                    *)
ErrorIsReaped == \A n \in Conns : n \in error ~> n \notin srv.open

(* stop() returns.                                                         *)
StopCompletes == stopping = "accepts" ~> stopping = "done"

(* A reader that waits for memory continues, as long as the gate is open.  *)
BlockedContinues ==
  \A n \in Conns : reader[n] = "memory" ~> reader[n] # "memory" \/ gate_closed

-----------------------------------------------------------------------------
(* Statements of the repository about the server that the code breaks.     *)

(* ~rpc_server_connection runs when the table and all fibers let go.       *)
Destroyed ==
  {n \in Reaped : reader[n] = "done" /\ \A r \in Requests : on[r] = n => ~InGate(r)}
active_connections ==
  (connection_idx - srv.bad_requests - Cardinality(Destroyed)) % CounterModulus

(* active_connections counts the currently active connections.             *)
ActiveIsOpen == active_connections = Cardinality(srv.open)

(* A connection blocks only while there are not enough bytes free.         *)
BlocksOnlyWhenFull ==
  memq # <<>> /\ Size[Waiting] > avail => Held + Size[Waiting] > Memory

=============================================================================

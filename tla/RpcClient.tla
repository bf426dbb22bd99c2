------------------------------ MODULE RpcClient ------------------------------
(***************************************************************************)
(* smf::rpc_client (core/rpc_client.cc, include/smf/rpc_client.h) with the *)
(* connection it drives (include/smf/rpc_connection.h).                    *)
(*                                                                         *)
(* The client lives on one seastar reactor: code between two suspension    *)
(* points is one action, and the actions of different fibers interleave.   *)
(* The fibers are the calls (send), the background writes                  *)
(* (dispatch_write), one reader per connection (do_reads), and the         *)
(* controllers, which are the user fibers that call connect, reconnect and *)
(* stop.  The peer and the transport are the environment.                  *)
(*                                                                         *)
(* A message is known by the call that issued it: payloads, headers and    *)
(* filters carry no other data.  istream.eof() is folded into the error of *)
(* a connection, because the continuation that observes a short read sets  *)
(* the error in the same step.                                             *)
(***************************************************************************)
EXTENDS Integers, Sequences

CONSTANTS
  Calls,           \* the invocations of send(), each issued once
  Controllers,     \* user fibers that call connect(), reconnect() and stop()
  MaxConns,        \* bound: connections established in a behaviour
  SessionModulus,  \* session_idx_ is a uint16_t: 2^16 in the build
  Memory,          \* units of limits->resources_available
  Size,            \* Size[c]: envelope size of call c after the filters
  DebugBuild,      \* whether DLOG_THROW_IF is compiled in
  ConnectAgain,    \* whether users call connect() on a connection that failed
  NoCall           \* an empty slot

ASSUME ClientConstants ==
  /\ MaxConns \in Nat \ {0}
  /\ SessionModulus \in Nat \ {0}
  /\ Memory \in Nat
  /\ Size \in [Calls -> Nat]
  /\ DebugBuild \in BOOLEAN /\ ConnectAgain \in BOOLEAN
  /\ NoCall \notin Calls

VARIABLES
  phase,         \* phase[c]: where the fiber of call c is
  outcome,       \* outcome[c]: "none", "reply" or "error", what send() resolved to
  pr,            \* pr[c]: state of the work item's promise
  rep,           \* rep[c]: the call whose reply fulfilled the promise of c
  sess,          \* sess[c]: session id written into the request of c
  issued,        \* history: number of session ids handed out
  session_idx,
  read_counter,
  rpc_slots,     \* session -> call, or NoCall
  made,          \* connections established so far; connection ids are 1..made
  cur,           \* conn_: the current connection, 0 for nullptr
  health,        \* health[n]: "absent", "up", "disabled" or "error"
  shut,          \* connections whose socket was shut down by the client
  broken,        \* connections on which a write has failed
  gate_closed,   \* dispatch_gate_->is_closed()
  reader,        \* reader[n]: the do_reads fiber started for connection n
  memq,          \* writes waiting for resources_available, in FIFO order
  avail,         \* free units of resources_available
  serq,          \* writes holding units; the head holds serialize_writes_
  half,          \* connection on which the head has written its header, or 0
  ctl,           \* ctl[x]: operation controller x is in
  aborted,       \* the gate was closed twice: seastar asserts, the process ends
  wire,          \* wire[n]: header and body parts written to connection n
  stream,        \* stream[n]: replies sent by the peer and not yet read
  answered,      \* requests the peer has answered
  closed         \* connections closed by the peer

callVars == <<phase, outcome, pr, rep, sess>>
slotVars == <<issued, session_idx, read_counter, rpc_slots>>
connVars == <<made, cur, health, shut, broken>>
writeVars == <<memq, avail, serq, half>>
ctlVars == <<gate_closed, ctl, aborted>>
envVars == <<wire, stream, answered, closed>>
vars == <<callVars, slotVars, connVars, writeVars, ctlVars, envVars, reader>>

Conns == 1..MaxConns
Sessions == 0..(SessionModulus - 1)
Off == [st |-> "off", attached |-> FALSE, on |-> 0]

Init ==
  /\ phase = [c \in Calls |-> "idle"]
  /\ outcome = [c \in Calls |-> "none"]
  /\ pr = [c \in Calls |-> "none"]
  /\ rep = [c \in Calls |-> NoCall]
  /\ sess = [c \in Calls |-> 0]
  /\ issued = 0
  /\ session_idx = 0
  /\ read_counter = 0
  /\ rpc_slots = [s \in Sessions |-> NoCall]
  /\ made = 0
  /\ cur = 0
  /\ health = [n \in Conns |-> "absent"]
  /\ shut = {}
  /\ broken = {}
  /\ gate_closed = FALSE
  /\ reader = [n \in Conns |-> Off]
  /\ memq = <<>>
  /\ avail = Memory
  /\ serq = <<>>
  /\ half = 0
  /\ ctl = [x \in Controllers |-> "idle"]
  /\ aborted = FALSE
  /\ wire = [n \in Conns |-> <<>>]
  /\ stream = [n \in Conns |-> <<>>]
  /\ answered = {}
  /\ closed = {}

-----------------------------------------------------------------------------
(* rpc_connection::is_valid on a given health function, and                *)
(* rpc_client::is_conn_valid on the current one.                           *)
Valid(h, n) == n # 0 /\ h[n] = "up"
is_conn_valid == Valid(health, cur)

Registered(c) == rpc_slots[sess[c]] = c

(* Mutants of fail_outstanding_futures: the slots are not erased; the      *)
(* promises are dropped without an exception.                              *)
FailWithoutErase(h) ==
  /\ health' = IF Valid(h, cur) THEN [h EXCEPT ![cur] = "disabled"] ELSE h
  /\ shut' = IF Valid(h, cur) THEN shut \cup {cur} ELSE shut
  /\ pr' = [c \in Calls |->
              IF \E s \in Sessions : rpc_slots[s] = c THEN "exception" ELSE pr[c]]
  /\ UNCHANGED rpc_slots
FailSilently(h) ==
  /\ health' = IF Valid(h, cur) THEN [h EXCEPT ![cur] = "disabled"] ELSE h
  /\ shut' = IF Valid(h, cur) THEN shut \cup {cur} ELSE shut
  /\ rpc_slots' = [s \in Sessions |-> NoCall]
  /\ UNCHANGED pr

(* fail_outstanding_futures, entered with the health function h: the       *)
(* current connection is disabled and shut down only if it is still valid, *)
(* then every registered promise is failed and unregistered.               *)
fail_outstanding_futures(h) ==
  /\ health' = IF Valid(h, cur) THEN [h EXCEPT ![cur] = "disabled"] ELSE h
  /\ shut' = IF Valid(h, cur) THEN shut \cup {cur} ELSE shut
  /\ pr' = [c \in Calls |->
              IF \E s \in Sessions : rpc_slots[s] = c THEN "exception" ELSE pr[c]]
  /\ rpc_slots' = [s \in Sessions |-> NoCall]

(* Fibers inside dispatch_gate_: close() resolves when there are none.     *)
CallInGate(c) == phase[c] \in {"filtering", "awaiting"}
ReaderInGate(n) == reader[n].attached
(* Mutant: dispatch_write does not enter the gate.                         *)
GateEmptyOfCalls ==
  (\A c \in Calls : ~CallInGate(c)) /\ (\A n \in Conns : ~ReaderInGate(n))
GateEmpty ==
  /\ \A c \in Calls : ~CallInGate(c)
  /\ memq = <<>> /\ serq = <<>>
  /\ \A n \in Conns : ~ReaderInGate(n)

-----------------------------------------------------------------------------
(* send() and raw_send().                                                  *)

(* The gate is closed, or the connection is not valid.                     *)
SendRefused(c) ==
  /\ phase[c] = "idle"
  /\ gate_closed \/ ~is_conn_valid
  /\ phase' = [phase EXCEPT ![c] = "done"]
  /\ outcome' = [outcome EXCEPT ![c] = "error"]
  /\ UNCHANGED <<pr, rep, sess, slotVars, connVars, writeVars, ctlVars, envVars, reader>>

(* Mutant: the session index is not advanced.                              *)
StuckSession == session_idx
NextSession == (session_idx + 1) % SessionModulus

(* Mutant: the assertion looks before the index is advanced.               *)
PreviousSlotTaken == rpc_slots[session_idx] # NoCall
SlotTaken == rpc_slots[NextSession] # NoCall

(* Mutant: the read is not counted.                                        *)
TakeUncounted ==
  session_idx' = NextSession /\ issued' = issued + 1 /\ UNCHANGED read_counter
TakeSession ==
  session_idx' = NextSession /\ issued' = issued + 1 /\ read_counter' = read_counter + 1

(* The debug build throws when the session id is still in use.             *)
SendThrows(c) ==
  /\ phase[c] = "idle"
  /\ ~gate_closed /\ is_conn_valid
  /\ DebugBuild /\ SlotTaken
  /\ TakeSession
  /\ phase' = [phase EXCEPT ![c] = "done"]
  /\ outcome' = [outcome EXCEPT ![c] = "error"]
  /\ UNCHANGED <<pr, rep, sess, rpc_slots, connVars, writeVars, ctlVars, envVars, reader>>

(* unordered_map::insert keeps the element already there, so without the   *)
(* debug check a call that meets a used id stays unregistered.             *)
SendAccepted(c) ==
  /\ phase[c] = "idle"
  /\ ~gate_closed /\ is_conn_valid
  /\ ~(DebugBuild /\ SlotTaken)
  /\ TakeSession
  /\ sess' = [sess EXCEPT ![c] = NextSession]
  /\ pr' = [pr EXCEPT ![c] = "pending"]
  /\ rpc_slots' = [rpc_slots EXCEPT ![NextSession] = IF @ = NoCall THEN c ELSE @]
  /\ phase' = [phase EXCEPT ![c] = "filtering"]
  /\ UNCHANGED <<outcome, rep, connVars, writeVars, ctlVars, envVars, reader>>

Send(c) == SendRefused(c) \/ SendThrows(c) \/ SendAccepted(c)

(* An outgoing filter throws: send() fails, its slot stays registered.     *)
FilterThrows(c) ==
  /\ phase[c] = "filtering"
  /\ phase' = [phase EXCEPT ![c] = "done"]
  /\ outcome' = [outcome EXCEPT ![c] = "error"]
  /\ UNCHANGED <<pr, rep, sess, slotVars, connVars, writeVars, ctlVars, envVars, reader>>

(* The filters are done: the write is dispatched in the background, which  *)
(* a closed gate refuses, and the fiber waits for the promise.  The work   *)
(* item of an unregistered call dies here, which breaks its promise.       *)
FiltersDone(c) ==
  /\ phase[c] = "filtering"
  /\ phase' = [phase EXCEPT ![c] = "awaiting"]
  /\ memq' = IF gate_closed THEN memq ELSE Append(memq, c)
  /\ pr' = IF pr[c] = "pending" /\ ~Registered(c)
           THEN [pr EXCEPT ![c] = "exception"] ELSE pr
  /\ UNCHANGED <<outcome, rep, sess, slotVars, connVars, avail, serq, half,
                 ctlVars, envVars, reader>>

(* The promise is set: an exception fails the call; a value runs through   *)
(* the incoming filters, which may throw or leave the body compressed.     *)
Resolve(c) ==
  /\ phase[c] = "awaiting"
  /\ pr[c] \in {"value", "exception"}
  /\ phase' = [phase EXCEPT ![c] = "done"]
  /\ \/ outcome' = [outcome EXCEPT ![c] = "error"]
     \/ pr[c] = "value" /\ outcome' = [outcome EXCEPT ![c] = "reply"]
  /\ UNCHANGED <<pr, rep, sess, slotVars, connVars, writeVars, ctlVars, envVars, reader>>

-----------------------------------------------------------------------------
(* dispatch_write() and rpc_envelope::send().                              *)

(* Mutant: the last unit is never handed out.                              *)
FitsWithSlack == memq # <<>> /\ Size[Head(memq)] < avail
Fits == memq # <<>> /\ Size[Head(memq)] <= avail

(* The first waiter obtains its units of memory and queues for the lock.   *)
AcquireMemory ==
  /\ Fits
  /\ avail' = avail - Size[Head(memq)]
  /\ serq' = Append(serq, Head(memq))
  /\ memq' = Tail(memq)
  /\ UNCHANGED <<half, callVars, slotVars, connVars, ctlVars, envVars, reader>>

Writable(n) == n \in Conns \ (shut \cup broken)

(* Mutant: serialize_writes_ lets a second write in.                       *)
WriteUnserialized ==
  LET i == IF half = 0 THEN 1 ELSE 2
  IN /\ Len(serq) >= i /\ Writable(cur)
     /\ wire' = [wire EXCEPT ![cur] = Append(@, <<"header", serq[i]>>)]
     /\ half' = cur
     /\ UNCHANGED <<memq, avail, serq, stream, answered, closed,
                    callVars, slotVars, connVars, ctlVars, reader>>
WriteHeader ==
  /\ serq # <<>> /\ half = 0
  /\ Writable(cur)
  /\ wire' = [wire EXCEPT ![cur] = Append(@, <<"header", Head(serq)>>)]
  /\ half' = cur
  /\ UNCHANGED <<memq, avail, serq, stream, answered, closed,
                 callVars, slotVars, connVars, ctlVars, reader>>

(* Mutant: the units are not returned.                                     *)
ReleaseLockOnly ==
  /\ serq' = Tail(serq)
  /\ half' = 0
  /\ UNCHANGED <<avail, memq>>

(* The head leaves: the lock and then the units are released.              *)
ReleaseWriter ==
  /\ serq' = Tail(serq)
  /\ half' = 0
  /\ avail' = avail + Size[Head(serq)]
  /\ UNCHANGED memq

WriteBody ==
  /\ serq # <<>> /\ half # 0
  /\ Writable(half)
  /\ wire' = [wire EXCEPT ![half] = Append(@, <<"body", Head(serq)>>)]
  /\ ReleaseWriter
  /\ UNCHANGED <<stream, answered, closed, callVars, slotVars, connVars, ctlVars, reader>>

(* A write on a shut down, broken or peer-closed socket fails.             *)
WriteFails ==
  /\ serq # <<>>
  /\ LET n == IF half = 0 THEN cur ELSE half
     IN /\ n \in shut \cup broken \cup closed
        /\ broken' = broken \cup {n}
  /\ fail_outstanding_futures(health)
  /\ ReleaseWriter
  /\ UNCHANGED <<phase, outcome, rep, sess, issued, session_idx, read_counter,
                 made, cur, ctlVars, envVars, reader>>

Write == WriteHeader \/ WriteBody \/ WriteFails

-----------------------------------------------------------------------------
(* do_reads() and process_one_request().                                   *)

(* The fiber goes on with the same read in another state.                  *)
Same(n, st, attached) == [st |-> st, attached |-> attached, on |-> reader[n].on]

(* Mutants of NextTurn: one request is read and the loop ends; a loop that *)
(* ends stays in the gate.                                                 *)
NoNextTurn(n, h) == Off
EndsInGate(n, h) ==
  IF reader[n].attached /\ Valid(h, cur)
  THEN [st |-> "header", attached |-> TRUE, on |-> cur] ELSE Same(n, "off", reader[n].attached)

(* The next turn of the loop, once one request is processed: do_until      *)
(* looks at the current connection, whichever it is.  A fiber that timed   *)
(* out has no loop to return to.                                           *)
NextTurn(n, h) ==
  IF reader[n].attached /\ Valid(h, cur)
  THEN [st |-> "header", attached |-> TRUE, on |-> cur] ELSE Off

ReadHeader(n) ==
  /\ reader[n].st = "header"
  /\ stream[reader[n].on] # <<>>
  /\ reader' = [reader EXCEPT ![n] = Same(n, "payload", @.attached)]
  /\ UNCHANGED <<callVars, slotVars, connVars, writeVars, ctlVars, envVars>>

(* The payload is complete and its session is registered.                  *)
ReadReply(n) ==
  /\ reader[n].st = "payload"
  /\ stream[reader[n].on] # <<>>
  /\ LET f == Head(stream[reader[n].on])
         c == rpc_slots[f.sess]
     IN /\ c # NoCall
        /\ pr' = [pr EXCEPT ![c] = "value"]
        /\ rep' = [rep EXCEPT ![c] = f.call]
        /\ rpc_slots' = [rpc_slots EXCEPT ![f.sess] = NoCall]
  /\ read_counter' = read_counter - 1
  /\ stream' = [stream EXCEPT ![reader[n].on] = Tail(@)]
  /\ reader' = [reader EXCEPT ![n] = NextTurn(n, health)]
  /\ UNCHANGED <<phase, outcome, sess, issued, session_idx, connVars, writeVars,
                 ctlVars, wire, answered, closed>>

(* set_error on the connection that was read, then fail_outstanding on the *)
(* current one.                                                            *)
ReaderSetsError(n) ==
  LET h == [health EXCEPT ![reader[n].on] = "error"]
  IN /\ fail_outstanding_futures(h)
     /\ reader' = [reader EXCEPT ![n] = NextTurn(n, health')]
     /\ UNCHANGED <<phase, outcome, rep, sess, issued, session_idx, read_counter,
                    made, cur, broken, writeVars, ctlVars>>

ReadUnknownSession(n) ==
  /\ reader[n].st = "payload"
  /\ stream[reader[n].on] # <<>>
  /\ rpc_slots[Head(stream[reader[n].on]).sess] = NoCall
  /\ stream' = [stream EXCEPT ![reader[n].on] = Tail(@)]
  /\ ReaderSetsError(n)
  /\ UNCHANGED <<wire, answered, closed>>

(* parse_header or parse_payload returns nothing: the bytes are malformed, *)
(* or the stream ended because either side closed it.                      *)
ReadMalformed(n) ==
  /\ reader[n].st # "off"
  /\ \/ stream[reader[n].on] # <<>>
     \/ reader[n].on \in closed \cup shut
  /\ ReaderSetsError(n)
  /\ UNCHANGED envVars

(* The fiber leaves do_reads through its exception handler.                *)
ReaderHandlesException(n, r) ==
  /\ fail_outstanding_futures(health)
  /\ reader' = [reader EXCEPT ![n] = r]
  /\ UNCHANGED <<phase, outcome, rep, sess, issued, session_idx, read_counter,
                 made, cur, broken, writeVars, ctlVars, envVars>>

(* The read fails with an exception, such as a connection reset.           *)
ReadThrows(n) ==
  /\ reader[n].st # "off" /\ reader[n].on \in closed
  /\ \/ reader[n].attached /\ ReaderHandlesException(n, Off)
     \/ /\ ~reader[n].attached
        /\ reader' = [reader EXCEPT ![n] = Off]
        /\ UNCHANGED <<callVars, slotVars, connVars, writeVars, ctlVars, envVars>>

(* with_timeout expires.  The read it wraps is not cancelled: it goes on   *)
(* outside the gate.                                                       *)
ReadTimesOut(n) ==
  /\ reader[n].attached
  /\ ReaderHandlesException(n, Same(n, reader[n].st, FALSE))

Read(n) == \/ ReadHeader(n) \/ ReadReply(n) \/ ReadUnknownSession(n)
           \/ ReadMalformed(n) \/ ReadThrows(n) \/ ReadTimesOut(n)

-----------------------------------------------------------------------------
(* connect(), reconnect() and stop().                                      *)

(* Mutant: the current connection is not looked at.                        *)
ConnectUnchecked(x) ==
  /\ ctl[x] = "idle"
  /\ ctl' = [ctl EXCEPT ![x] = "connecting"]
  /\ UNCHANGED <<gate_closed, aborted, callVars, slotVars, connVars, writeVars, envVars, reader>>

(* connect() refuses a valid connection.  The documented way to replace a  *)
(* connection that failed is reconnect().                                  *)
Connect(x) ==
  /\ ctl[x] = "idle" /\ ~is_conn_valid
  /\ cur = 0 \/ ConnectAgain
  /\ ctl' = [ctl EXCEPT ![x] = "connecting"]
  /\ UNCHANGED <<gate_closed, aborted, callVars, slotVars, connVars, writeVars, envVars, reader>>

(* fail_outstanding_futures() and dispatch_gate_->close(); the gate        *)
(* asserts that it was open.                                               *)
CloseGate(x, next) ==
  /\ fail_outstanding_futures(health)
  /\ aborted' = gate_closed
  /\ gate_closed' = TRUE
  /\ ctl' = [ctl EXCEPT ![x] = next]
  /\ UNCHANGED <<phase, outcome, rep, sess, issued, session_idx, read_counter,
                 made, cur, broken, writeVars, envVars, reader>>

Reconnect(x) == ctl[x] = "idle" /\ CloseGate(x, "closing")
Stop(x) == ctl[x] = "idle" /\ CloseGate(x, "stopping")

(* The gate is empty: it is replaced, conn_ is dropped, connect() starts.  *)
Reopen(x) ==
  /\ ctl[x] = "closing" /\ GateEmpty
  /\ gate_closed' = FALSE
  /\ cur' = 0
  /\ ctl' = [ctl EXCEPT ![x] = "connecting"]
  /\ UNCHANGED <<aborted, made, health, shut, broken, callVars, slotVars, writeVars, envVars, reader>>

Stopped(x) ==
  /\ ctl[x] = "stopping" /\ GateEmpty
  /\ ctl' = [ctl EXCEPT ![x] = "stopped"]
  /\ UNCHANGED <<gate_closed, aborted, callVars, slotVars, connVars, writeVars, envVars, reader>>

(* The socket connects: conn_ is replaced and its reader starts, unless    *)
(* the gate refuses it.                                                    *)
ConnectOk(x) ==
  /\ ctl[x] = "connecting" /\ made < MaxConns
  /\ made' = made + 1
  /\ cur' = made + 1
  /\ health' = [health EXCEPT ![made + 1] = "up"]
  /\ reader' = IF gate_closed THEN reader
               ELSE [reader EXCEPT ![made + 1] =
                       [st |-> "header", attached |-> TRUE, on |-> made + 1]]
  /\ ctl' = [ctl EXCEPT ![x] = "idle"]
  /\ UNCHANGED <<shut, broken, gate_closed, aborted, callVars, slotVars, writeVars, envVars>>

ConnectFails(x) ==
  /\ ctl[x] = "connecting"
  /\ ctl' = [ctl EXCEPT ![x] = "idle"]
  /\ UNCHANGED <<gate_closed, aborted, callVars, slotVars, connVars, writeVars, envVars, reader>>

-----------------------------------------------------------------------------
(* The peer: it answers the requests it has received whole, in any order,  *)
(* each once, with the session of the request; and it may hang up.         *)
PeerReply(n, c) ==
  /\ n \notin closed
  /\ c \notin answered
  /\ \E i \in 1..Len(wire[n]) : wire[n][i] = <<"body", c>>
  /\ stream' = [stream EXCEPT ![n] = Append(@, [call |-> c, sess |-> sess[c]])]
  /\ answered' = answered \cup {c}
  /\ UNCHANGED <<wire, closed, callVars, slotVars, connVars, writeVars, ctlVars, reader>>

PeerCloses(n) ==
  /\ health[n] # "absent" /\ n \notin closed
  /\ closed' = closed \cup {n}
  /\ UNCHANGED <<wire, stream, answered, callVars, slotVars, connVars, writeVars, ctlVars, reader>>

CallStep(c) == Send(c) \/ FilterThrows(c) \/ FiltersDone(c) \/ Resolve(c)
CtlStep(x) == \/ Connect(x) \/ Reconnect(x) \/ Stop(x) \/ Reopen(x) \/ Stopped(x)
              \/ ConnectOk(x) \/ ConnectFails(x)
PeerStep(n) == PeerCloses(n) \/ \E c \in Calls : PeerReply(n, c)

Next ==
  /\ ~aborted
  /\ \/ \E c \in Calls : CallStep(c)
     \/ AcquireMemory
     \/ Write
     \/ \E n \in Conns : Read(n)
     \/ \E x \in Controllers : CtlStep(x)
     \/ \E n \in Conns : PeerStep(n)

Spec == Init /\ [][Next]_vars

(* The reactor runs every ready continuation and every expired timer; a    *)
(* connection attempt ends; a write ends because the peer drains its       *)
(* socket or the socket fails.  The users and the peer owe nothing.        *)
Fairness ==
  /\ \A c \in Calls : WF_vars(~aborted /\ (FilterThrows(c) \/ FiltersDone(c) \/ Resolve(c)))
  /\ WF_vars(~aborted /\ AcquireMemory)
  /\ WF_vars(~aborted /\ Write)
  /\ \A n \in Conns : WF_vars(~aborted /\ ReadTimesOut(n))
  /\ \A x \in Controllers :
       WF_vars(~aborted /\ (Reopen(x) \/ Stopped(x) \/ ConnectOk(x) \/ ConnectFails(x)))

FairSpec == Spec /\ Fairness

-----------------------------------------------------------------------------
(* Properties.                                                             *)

CallTypes ==
  /\ phase \in [Calls -> {"idle", "filtering", "awaiting", "done"}]
  /\ outcome \in [Calls -> {"none", "reply", "error"}]
  /\ pr \in [Calls -> {"none", "pending", "value", "exception"}]
  /\ rep \in [Calls -> Calls \cup {NoCall}]
  /\ sess \in [Calls -> Sessions]
SlotTypes ==
  /\ issued \in Nat /\ session_idx \in Sessions /\ read_counter \in Int
  /\ rpc_slots \in [Sessions -> Calls \cup {NoCall}]
ConnTypes ==
  /\ made \in 0..MaxConns /\ cur \in 0..made
  /\ health \in [Conns -> {"absent", "up", "disabled", "error"}]
  /\ shut \in SUBSET Conns /\ broken \in SUBSET Conns
WriteTypes ==
  /\ memq \in Seq(Calls) /\ serq \in Seq(Calls)
  /\ avail \in Int /\ half \in 0..MaxConns
CtlTypes ==
  /\ gate_closed \in BOOLEAN /\ aborted \in BOOLEAN
  /\ ctl \in [Controllers -> {"idle", "closing", "connecting", "stopping", "stopped"}]
Parts == {"header", "body"} \X Calls
Replies == [call : Calls, sess : Sessions]
EnvTypes ==
  /\ wire \in [Conns -> Seq(Parts)]
  /\ stream \in [Conns -> Seq(Replies)]
  /\ answered \in SUBSET Calls /\ closed \in SUBSET Conns
Reading == [st : {"header", "payload"}, attached : BOOLEAN, on : Conns]
ReaderTypes == reader \in [Conns -> {Off} \cup Reading]

(* Every variable has its type.                                            *)
TypeOK == /\ CallTypes /\ SlotTypes /\ ConnTypes /\ WriteTypes
          /\ CtlTypes /\ EnvTypes /\ ReaderTypes

InFlight == \/ \E c \in Calls : phase[c] \in {"filtering", "awaiting"}
            \/ memq # <<>> \/ serq # <<>>

(* conn_ is never null while a call is between its filters and its reply   *)
(* or a write is under way: raw_send, dispatch_write and rpc_envelope::send *)
(* dereference it without looking.                                         *)
InFlightHasConnection == InFlight => cur # 0

(* conn_ is replaced only when no call and no write is in flight, so no    *)
(* request reaches a connection other than the one it was issued on.       *)
SwitchIsQuiet == [][cur' # cur => ~InFlight]_vars

(* A call is registered in rpc_slots_ only while the connection is valid:  *)
(* whatever ends a connection also fails every call waiting on it.         *)
OutstandingOnlyWhileValid ==
  (\E s \in Sessions : rpc_slots[s] # NoCall) => is_conn_valid

(* A connection the client would send on has exactly one reader in the     *)
(* gate, and it reads that connection: otherwise replies are never seen.   *)
LiveConnectionHasReader ==
  is_conn_valid /\ ~gate_closed =>
    \E n \in Conns : /\ reader[n].attached /\ reader[n].on = cur
                    /\ \A m \in Conns \ {n} : ~reader[m].attached

(* A registered call has an unset promise and carries the id it is         *)
(* registered under, so set_value and set_exception meet a fresh promise.  *)
SlotsArePending ==
  \A s \in Sessions : rpc_slots[s] # NoCall =>
    pr[rpc_slots[s]] = "pending" /\ sess[rpc_slots[s]] = s

(* A promise is set at most once: a reply or failure that comes later for  *)
(* the same session does not reach the call again.                         *)
PromiseSetOnce ==
  [][\A c \in Calls : pr[c] \in {"value", "exception"} =>
        pr'[c] = pr[c] /\ rep'[c] = rep[c]]_vars

(* The value a call receives is the reply to its own request.              *)
ReplyMatches == \A c \in Calls : rep[c] \in {c, NoCall}

(* On every connection a header is followed by the body of the same        *)
(* request: concurrent writes never interleave.                            *)
WireFramed ==
  \A n \in Conns : \A i \in 1..Len(wire[n]) :
    /\ wire[n][i][1] = "header" <=> i % 2 = 1
    /\ i % 2 = 0 => wire[n][i][2] = wire[n][i - 1][2]

(* When no write is waiting or under way all memory units are back, also   *)
(* after writes that failed.                                               *)
UnitsReturned == memq = <<>> /\ serq = <<>> => avail = Memory

(* The assertion of process_one_request: a reply that arrives finds        *)
(* read_counter_ positive.                                                 *)
ReplyFindsCounterPositive ==
  \A n \in Conns :
    reader[n].st = "payload" /\ stream[reader[n].on] # <<>> => read_counter > 0

(* The assertion of parse_header: two readers never wait for a header on   *)
(* the same stream.                                                        *)
NoInterleavedReads ==
  \A n, m \in Conns : reader[n].st = "header" /\ reader[m].st = "header"
                       /\ reader[n].on = reader[m].on => n = m

(* Every call that is accepted resolves.                                   *)
CallsResolve == \A c \in Calls : phase[c] = "filtering" ~> phase[c] = "done"

(* stop() and the first half of reconnect() complete.                      *)
CloseCompletes ==
  \A x \in Controllers : ctl[x] \in {"closing", "stopping"}
                          ~> ctl[x] \notin {"closing", "stopping"}

-----------------------------------------------------------------------------
(* The client implements RpcCalls.  A call that was handed the reply to    *)
(* another one has no counterpart there.                                   *)
CallStatus(c) ==
  CASE phase[c] = "idle" -> "idle"
    [] phase[c] \in {"filtering", "awaiting"} -> "pending"
    [] phase[c] = "done" /\ outcome[c] = "error" -> "failed"
    [] phase[c] = "done" /\ outcome[c] = "reply" /\ rep[c] = c -> "replied"
    [] OTHER -> "misrouted"

Abstract == INSTANCE RpcCalls
  WITH status <- [c \in Calls |-> CallStatus(c)], served <- answered

(* Every behaviour of the client is one of RpcCalls: calls resolve once,   *)
(* with their own reply or an error.                                       *)
ImplementsCalls == Abstract!Spec


=============================================================================

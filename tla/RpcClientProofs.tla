-------------------------- MODULE RpcClientProofs ---------------------------
(***************************************************************************)
(* Proofs about RpcClient, for every set of calls, bound on connections,   *)
(* session width, memory limit and build: its types, the connection under  *)
(* what is in flight, the registration of calls, their promises, whole     *)
(* requests on the wire, the readers, and the memory units.                *)
(***************************************************************************)
EXTENDS RpcClient, TLAPS

(* Types.                                                                  *)

(* Next, one disjunct per handler.                                         *)
LEMMA NextCases ==
  ASSUME Next
  PROVE  /\ ~aborted
         /\ \/ \E c \in Calls : SendRefused(c)
            \/ \E c \in Calls : SendThrows(c)
            \/ \E c \in Calls : SendAccepted(c)
            \/ \E c \in Calls : FilterThrows(c)
            \/ \E c \in Calls : FiltersDone(c)
            \/ \E c \in Calls : Resolve(c)
            \/ AcquireMemory
            \/ WriteHeader
            \/ WriteBody
            \/ WriteFails
            \/ \E n \in Conns : ReadHeader(n)
            \/ \E n \in Conns : ReadReply(n)
            \/ \E n \in Conns : ReadUnknownSession(n)
            \/ \E n \in Conns : ReadMalformed(n)
            \/ \E n \in Conns : ReadThrows(n)
            \/ \E n \in Conns : ReadTimesOut(n)
            \/ \E x \in Controllers : Connect(x)
            \/ \E x \in Controllers : Reconnect(x)
            \/ \E x \in Controllers : Stop(x)
            \/ \E x \in Controllers : Reopen(x)
            \/ \E x \in Controllers : Stopped(x)
            \/ \E x \in Controllers : ConnectOk(x)
            \/ \E x \in Controllers : ConnectFails(x)
            \/ \E n \in Conns, c \in Calls : PeerReply(n, c)
            \/ \E n \in Conns : PeerCloses(n)
  BY Zenon DEF Next, CallStep, Send, Write, Read, CtlStep, PeerStep

(* A group of variables that a step leaves alone keeps its types.          *)
LEMMA Frame ==
  ASSUME TypeOK
  PROVE  /\ UNCHANGED callVars => CallTypes'
         /\ UNCHANGED slotVars => SlotTypes'
         /\ UNCHANGED connVars => ConnTypes'
         /\ UNCHANGED writeVars => WriteTypes'
         /\ UNCHANGED ctlVars => CtlTypes'
         /\ UNCHANGED envVars => EnvTypes'
         /\ UNCHANGED reader => ReaderTypes'
<1> USE DEF TypeOK
<1>1. UNCHANGED callVars => CallTypes'
  BY Zenon DEF CallTypes, callVars
<1>2. UNCHANGED slotVars => SlotTypes'
  BY Zenon DEF SlotTypes, slotVars
<1>3. UNCHANGED connVars => ConnTypes'
  BY Zenon DEF ConnTypes, connVars
<1>4. UNCHANGED writeVars => WriteTypes'
  BY Zenon DEF WriteTypes, writeVars
<1>5. UNCHANGED ctlVars => CtlTypes'
  BY Zenon DEF CtlTypes, ctlVars
<1>6. UNCHANGED envVars => EnvTypes'
  BY Zenon DEF EnvTypes, envVars
<1>7. UNCHANGED reader => ReaderTypes'
  BY Zenon DEF ReaderTypes
<1> QED
  BY Zenon, <1>1, <1>2, <1>3, <1>4, <1>5, <1>6, <1>7

(* fail_outstanding_futures keeps the types of what it assigns.            *)
Healths == [Conns -> {"absent", "up", "disabled", "error"}]

LEMMA FailTypes ==
  ASSUME TypeOK, NEW h \in Healths, fail_outstanding_futures(h)
  PROVE  /\ health' \in Healths
         /\ UNCHANGED <<phase, outcome, rep, sess>> => CallTypes'
         /\ UNCHANGED <<issued, session_idx, read_counter>> => SlotTypes'
         /\ UNCHANGED <<made, cur>> /\ broken' \in SUBSET Conns => ConnTypes'
<1> USE ClientConstants DEF TypeOK, fail_outstanding_futures, Healths
<1>1. health' \in Healths /\ shut' \in SUBSET Conns
  BY DEF ConnTypes, Valid, Conns
<1>2. UNCHANGED <<phase, outcome, rep, sess>> => CallTypes'
  BY Zenon DEF CallTypes
<1>3. UNCHANGED <<issued, session_idx, read_counter>> => SlotTypes'
  BY Zenon DEF SlotTypes
<1>4. UNCHANGED <<made, cur>> /\ broken' \in SUBSET Conns => ConnTypes'
  BY Zenon, <1>1 DEF ConnTypes
<1> QED
  BY Zenon, <1>1, <1>2, <1>3, <1>4

(* A reader that sets an error keeps the types.                            *)
LEMMA SetErrorTypes ==
  ASSUME TypeOK, NEW n \in Conns, reader[n] # Off, ReaderSetsError(n)
  PROVE  CallTypes' /\ SlotTypes' /\ ConnTypes' /\ ReaderTypes'
<1>1. reader[n].on \in Conns
  BY Zenon DEF TypeOK, ReaderTypes, Reading
<1>2. [health EXCEPT ![reader[n].on] = "error"] \in Healths
  BY Zenon, <1>1 DEF TypeOK, ConnTypes, Healths
<1>3. CallTypes' /\ SlotTypes' /\ ConnTypes'
  BY Zenon, <1>2, FailTypes DEF ReaderSetsError, TypeOK, ConnTypes
<1>4. NextTurn(n, health') \in {Off} \cup Reading
  BY ClientConstants DEF NextTurn, Valid, TypeOK, ConnTypes, Reading, Conns
<1>5. ReaderTypes'
  BY Zenon, <1>4 DEF ReaderSetsError, TypeOK, ReaderTypes
<1> QED
  BY Zenon, <1>3, <1>5

(* A reader that leaves through its exception handler keeps the types.     *)
LEMMA ExceptionTypes ==
  ASSUME TypeOK, NEW n \in Conns, NEW r \in {Off} \cup Reading,
         ReaderHandlesException(n, r)
  PROVE  CallTypes' /\ SlotTypes' /\ ConnTypes' /\ ReaderTypes'
<1>1. health \in Healths
  BY Zenon DEF TypeOK, ConnTypes, Healths
<1>2. CallTypes' /\ SlotTypes' /\ ConnTypes'
  BY Zenon, <1>1, FailTypes DEF ReaderHandlesException, TypeOK, ConnTypes
<1>3. ReaderTypes'
  BY Zenon DEF ReaderHandlesException, TypeOK, ReaderTypes
<1> QED
  BY Zenon, <1>2, <1>3

(* Closing the gate keeps the types.                                       *)
LEMMA CloseGateTypes ==
  ASSUME TypeOK, NEW x \in Controllers, NEW next \in {"closing", "stopping"},
         CloseGate(x, next)
  PROVE  TypeOK'
<1>1. health \in Healths
  BY Zenon DEF TypeOK, ConnTypes, Healths
<1>2. CallTypes' /\ SlotTypes' /\ ConnTypes'
  BY Zenon, <1>1, FailTypes DEF CloseGate, TypeOK, ConnTypes
<1>3. CtlTypes'
  BY Zenon DEF CloseGate, TypeOK, CtlTypes
<1> QED
  BY Zenon, <1>2, <1>3, Frame DEF CloseGate, TypeOK

(* The initial state is well typed.                                        *)
LEMMA TypeInit == Init => TypeOK
<1> SUFFICES ASSUME Init PROVE TypeOK
  BY Zenon
<1> USE ClientConstants DEF Init, Conns, Sessions, Off
<1>1. CallTypes /\ SlotTypes
  BY DEF CallTypes, SlotTypes
<1>2. ConnTypes
  BY DEF ConnTypes
<1>4. WriteTypes
  BY DEF WriteTypes
<1>5. CtlTypes
  BY Zenon DEF CtlTypes
<1>3. EnvTypes /\ ReaderTypes
  BY DEF EnvTypes, ReaderTypes
<1> QED
  BY Zenon, <1>1, <1>2, <1>3, <1>4, <1>5 DEF TypeOK

(* Every handler keeps the types.                                          *)
LEMMA TypeNext == TypeOK /\ [Next]_vars => TypeOK'
<1> SUFFICES ASSUME TypeOK, [Next]_vars PROVE TypeOK'
  BY Zenon
<1> USE ClientConstants
<1>s. NextSession \in Sessions
  BY DEF TypeOK, SlotTypes, NextSession, Sessions
<1>1. CASE UNCHANGED vars
  BY Zenon, <1>1, Frame DEF vars, TypeOK
<1>2. ASSUME NEW c \in Calls, SendRefused(c) PROVE TypeOK'
  <2>1. CallTypes'
    BY Zenon, <1>2 DEF TypeOK, CallTypes, SendRefused
  <2> QED
    BY Zenon, <1>2, Frame, <2>1 DEF TypeOK, SendRefused
<1>3. ASSUME NEW c \in Calls, SendThrows(c) PROVE TypeOK'
  <2>1. CallTypes'
    BY Zenon, <1>3 DEF TypeOK, CallTypes, SendThrows
  <2>2. SlotTypes'
    BY <1>3, <1>s DEF TypeOK, SlotTypes, SendThrows, TakeSession
  <2> QED
    BY Zenon, <1>3, Frame, <2>1, <2>2 DEF TypeOK, SendThrows
<1>4. ASSUME NEW c \in Calls, SendAccepted(c) PROVE TypeOK'
  <2>1. CallTypes'
    BY Zenon, <1>4, <1>s DEF TypeOK, CallTypes, SendAccepted
  <2>2. SlotTypes'
    BY <1>4, <1>s DEF TypeOK, SlotTypes, SendAccepted, TakeSession
  <2> QED
    BY Zenon, <1>4, Frame, <2>1, <2>2 DEF TypeOK, SendAccepted
<1>5. ASSUME NEW c \in Calls, FilterThrows(c) PROVE TypeOK'
  <2>1. CallTypes'
    BY Zenon, <1>5 DEF TypeOK, CallTypes, FilterThrows
  <2> QED
    BY Zenon, <1>5, Frame, <2>1 DEF TypeOK, FilterThrows
<1>6. ASSUME NEW c \in Calls, FiltersDone(c) PROVE TypeOK'
  <2>1. CallTypes'
    BY Zenon, <1>6 DEF TypeOK, CallTypes, FiltersDone
  <2>2. WriteTypes'
    BY <1>6 DEF TypeOK, WriteTypes, FiltersDone
  <2> QED
    BY Zenon, <1>6, Frame, <2>1, <2>2 DEF TypeOK, FiltersDone
<1>7. ASSUME NEW c \in Calls, Resolve(c) PROVE TypeOK'
  <2>1. CallTypes'
    BY Zenon, <1>7 DEF TypeOK, CallTypes, Resolve
  <2> QED
    BY Zenon, <1>7, Frame, <2>1 DEF TypeOK, Resolve
<1>8. CASE AcquireMemory
  <2>1. WriteTypes'
    BY SMTT(60), <1>8 DEF TypeOK, WriteTypes, AcquireMemory, Fits
  <2> QED
    BY Zenon, <1>8, Frame, <2>1 DEF TypeOK, AcquireMemory
<1>9. CASE WriteHeader
  <2>1. WriteTypes'
    BY <1>9 DEF TypeOK, WriteTypes, WriteHeader, Writable, Conns
  <2>2. cur \in Conns /\ <<"header", Head(serq)>> \in Parts
    BY <1>9 DEF TypeOK, WriteTypes, WriteHeader, Writable, Parts
  <2>3. EnvTypes'
    BY <1>9, <2>2 DEF TypeOK, EnvTypes, WriteHeader
  <2> QED
    BY Zenon, <1>9, Frame, <2>1, <2>3 DEF TypeOK, WriteHeader
<1>10. CASE WriteBody
  <2>1. WriteTypes'
    BY SMTT(60), <1>10 DEF TypeOK, WriteTypes, WriteBody, ReleaseWriter
  <2>2. half \in Conns /\ <<"body", Head(serq)>> \in Parts
    BY <1>10 DEF TypeOK, WriteTypes, WriteBody, Writable, Parts
  <2>3. EnvTypes'
    BY <1>10, <2>2 DEF TypeOK, EnvTypes, WriteBody
  <2> QED
    BY Zenon, <1>10, Frame, <2>1, <2>3 DEF TypeOK, WriteBody
<1>11. CASE WriteFails
  <2>1. health \in Healths /\ broken' \in SUBSET Conns
    BY ZenonT(60), <1>11 DEF TypeOK, ConnTypes, EnvTypes, Healths, WriteFails
  <2>2. CallTypes' /\ SlotTypes' /\ ConnTypes'
    BY Zenon, <1>11, <2>1, FailTypes DEF WriteFails
  <2>3. WriteTypes'
    BY SMTT(60), <1>11 DEF TypeOK, WriteTypes, WriteFails, ReleaseWriter
  <2> QED
    BY Zenon, <1>11, Frame, <2>2, <2>3 DEF TypeOK, WriteFails
<1>12. ASSUME NEW n \in Conns, ReadHeader(n) PROVE TypeOK'
  <2>1. ReaderTypes'
    BY SMTT(40), <1>12 DEF TypeOK, ReaderTypes, ReadHeader, Same, Reading, Off
  <2> QED
    BY Zenon, <1>12, Frame, <2>1 DEF TypeOK, ReadHeader
<1>13. ASSUME NEW n \in Conns, ReadReply(n) PROVE TypeOK'
  <2> DEFINE m == reader[n].on
             f == Head(stream[m])
  <2>1. m \in Conns /\ stream[m] # <<>>
    <3>1. reader[n].st = "payload" /\ stream[m] # <<>>
      BY Zenon, <1>13 DEF ReadReply
    <3> QED
      BY SMTT(40), <3>1 DEF TypeOK, ReaderTypes, Reading, Off
  <2>2. f \in Replies /\ Tail(stream[m]) \in Seq(Replies)
    BY <2>1 DEF TypeOK, EnvTypes
  <2>s. f.sess \in Sessions
    BY Zenon, <2>2 DEF Replies
  <2>r. /\ rpc_slots' = [rpc_slots EXCEPT ![f.sess] = NoCall]
        /\ UNCHANGED <<issued, session_idx>> /\ read_counter' = read_counter - 1
        /\ stream' = [stream EXCEPT ![m] = Tail(stream[m])]
    BY Zenon, <1>13 DEF ReadReply
  <2> HIDE DEF m, f
  <2>3. CallTypes'
    BY Zenon, <1>13, <2>2 DEF TypeOK, CallTypes, SlotTypes, ReadReply, Replies, m, f
  <2>4. SlotTypes'
    BY SMTT(40), <2>r, <2>s DEF TypeOK, SlotTypes
  <2>5. EnvTypes'
    BY ZenonT(60), <1>13, <2>1, <2>2, <2>r DEF TypeOK, EnvTypes, ReadReply
  <2>6. NextTurn(n, health) \in {Off} \cup Reading
    BY DEF NextTurn, Valid, TypeOK, ConnTypes, Reading, Conns
  <2>7. ReaderTypes'
    BY Zenon, <1>13, <2>6 DEF TypeOK, ReaderTypes, ReadReply
  <2> QED
    BY Zenon, <1>13, Frame, <2>3, <2>4, <2>5, <2>7 DEF TypeOK, ReadReply
<1>14. ASSUME NEW n \in Conns, ReadUnknownSession(n) PROVE TypeOK'
  <2>1. reader[n] # Off
    BY <1>14 DEF ReadUnknownSession, Off
  <2>2. reader[n].on \in Conns
    BY Zenon, <2>1 DEF TypeOK, ReaderTypes, Reading
  <2>3. EnvTypes'
    BY SMTT(40), <1>14, <2>2 DEF TypeOK, EnvTypes, ReadUnknownSession
  <2>4. CallTypes' /\ SlotTypes' /\ ConnTypes' /\ ReaderTypes'
    BY Zenon, <1>14, <2>1, SetErrorTypes DEF ReadUnknownSession
  <2> QED
    BY Zenon, <1>14, Frame, <2>3, <2>4 DEF TypeOK, ReadUnknownSession, ReaderSetsError
<1>15. ASSUME NEW n \in Conns, ReadMalformed(n) PROVE TypeOK'
  <2>1. reader[n] # Off
    BY <1>15 DEF ReadMalformed, Off
  <2>2. CallTypes' /\ SlotTypes' /\ ConnTypes' /\ ReaderTypes'
    BY Zenon, <1>15, <2>1, SetErrorTypes DEF ReadMalformed
  <2> QED
    BY Zenon, <1>15, Frame, <2>2 DEF TypeOK, ReadMalformed, ReaderSetsError
<1>16. ASSUME NEW n \in Conns, ReadThrows(n) PROVE TypeOK'
  <2>1. CASE ReaderHandlesException(n, Off)
    <3>1. CallTypes' /\ SlotTypes' /\ ConnTypes' /\ ReaderTypes'
      BY Zenon, <2>1, ExceptionTypes
    <3> QED
      BY Zenon, <2>1, <3>1, Frame DEF TypeOK, ReaderHandlesException
  <2>2. CASE ~reader[n].attached
    <3>1. ReaderTypes'
      BY Zenon, <1>16, <2>2 DEF TypeOK, ReaderTypes, ReadThrows
    <3> QED
      BY Zenon, <1>16, <2>2, <3>1, Frame DEF TypeOK, ReadThrows
  <2> QED
    BY Zenon, <1>16, <2>1, <2>2 DEF ReadThrows
<1>17. ASSUME NEW n \in Conns, ReadTimesOut(n) PROVE TypeOK'
  <2>1. Same(n, reader[n].st, FALSE) \in {Off} \cup Reading
    BY <1>17 DEF TypeOK, ReaderTypes, Reading, Off, ReadTimesOut, Same
  <2>2. CallTypes' /\ SlotTypes' /\ ConnTypes' /\ ReaderTypes'
    BY Zenon, <1>17, <2>1, ExceptionTypes DEF ReadTimesOut
  <2> QED
    BY Zenon, <1>17, Frame, <2>2 DEF TypeOK, ReadTimesOut, ReaderHandlesException
<1>18. ASSUME NEW x \in Controllers, Connect(x) PROVE TypeOK'
  <2>1. CtlTypes'
    BY Zenon, <1>18 DEF TypeOK, CtlTypes, Connect
  <2> QED
    BY Zenon, <1>18, Frame, <2>1 DEF TypeOK, Connect
<1>19. ASSUME NEW x \in Controllers, Reconnect(x) PROVE TypeOK'
  BY Zenon, <1>19, CloseGateTypes DEF Reconnect
<1>20. ASSUME NEW x \in Controllers, Stop(x) PROVE TypeOK'
  BY Zenon, <1>20, CloseGateTypes DEF Stop
<1>21. ASSUME NEW x \in Controllers, Reopen(x) PROVE TypeOK'
  <2>1. ConnTypes'
    BY <1>21 DEF TypeOK, ConnTypes, Reopen
  <2>2. CtlTypes'
    BY Zenon, <1>21 DEF TypeOK, CtlTypes, Reopen
  <2> QED
    BY Zenon, <1>21, Frame, <2>1, <2>2 DEF TypeOK, Reopen
<1>22. ASSUME NEW x \in Controllers, Stopped(x) PROVE TypeOK'
  <2>1. CtlTypes'
    BY Zenon, <1>22 DEF TypeOK, CtlTypes, Stopped
  <2> QED
    BY Zenon, <1>22, Frame, <2>1 DEF TypeOK, Stopped
<1>23. ASSUME NEW x \in Controllers, ConnectOk(x) PROVE TypeOK'
  <2>1. ConnTypes' /\ made + 1 \in Conns
    BY <1>23 DEF TypeOK, ConnTypes, ConnectOk, Conns
  <2>2. CtlTypes'
    BY Zenon, <1>23 DEF TypeOK, CtlTypes, ConnectOk
  <2>3. [st |-> "header", attached |-> TRUE, on |-> made + 1] \in Reading
    BY Zenon, <2>1 DEF Reading
  <2>4. ReaderTypes'
    BY Zenon, <1>23, <2>1, <2>3 DEF TypeOK, ReaderTypes, ConnectOk
  <2> QED
    BY Zenon, <1>23, Frame, <2>1, <2>2, <2>4 DEF TypeOK, ConnectOk
<1>24. ASSUME NEW x \in Controllers, ConnectFails(x) PROVE TypeOK'
  <2>1. CtlTypes'
    BY Zenon, <1>24 DEF TypeOK, CtlTypes, ConnectFails
  <2> QED
    BY Zenon, <1>24, Frame, <2>1 DEF TypeOK, ConnectFails
<1>25. ASSUME NEW n \in Conns, NEW c \in Calls, PeerReply(n, c) PROVE TypeOK'
  <2>1. [call |-> c, sess |-> sess[c]] \in Replies
    BY Zenon DEF TypeOK, CallTypes, Replies
  <2>2. EnvTypes'
    BY SMTT(60), <1>25, <2>1 DEF TypeOK, EnvTypes, PeerReply
  <2> QED
    BY Zenon, <1>25, Frame, <2>2 DEF TypeOK, PeerReply
<1>26. ASSUME NEW n \in Conns, PeerCloses(n) PROVE TypeOK'
  <2>1. EnvTypes'
    BY Zenon, <1>26 DEF TypeOK, EnvTypes, PeerCloses
  <2> QED
    BY Zenon, <1>26, Frame, <2>1 DEF TypeOK, PeerCloses
<1> QED
  BY Zenon, NextCases, <1>1, <1>2, <1>3, <1>4, <1>5, <1>6, <1>7, <1>8, <1>9, <1>10, <1>11,
     <1>12, <1>13, <1>14, <1>15, <1>16, <1>17, <1>18, <1>19, <1>20, <1>21, <1>22,
     <1>23, <1>24, <1>25, <1>26

(* The variables of the client keep their types, whatever the calls, the   *)
(* peer and the users of the client do.                                    *)
THEOREM TypeCorrect == Spec => []TypeOK
  BY TypeInit, TypeNext, PTL DEF Spec

-----------------------------------------------------------------------------
(* conn_ is not null while a call or a write is in flight.                 *)

(* Every handler keeps a connection under what is in flight.               *)
LEMMA ConnectionNext ==
  TypeOK /\ InFlightHasConnection /\ [Next]_vars => InFlightHasConnection'
<1> SUFFICES ASSUME TypeOK, InFlightHasConnection, [Next]_vars
             PROVE  InFlightHasConnection'
  BY Zenon
<1> USE DEF InFlightHasConnection, InFlight, CallInGate, callVars, connVars, writeVars
<1>t. /\ phase \in [Calls -> {"idle", "filtering", "awaiting", "done"}]
      /\ memq \in Seq(Calls) /\ serq \in Seq(Calls)
      /\ made \in Nat /\ cur \in Nat
  BY ClientConstants DEF TypeOK, CallTypes, WriteTypes, ConnTypes
<1>1. CASE UNCHANGED vars
  BY Zenon, <1>1 DEF vars
<1>2. ASSUME NEW c \in Calls, SendRefused(c) \/ SendThrows(c) \/ FilterThrows(c) \/ Resolve(c)
      PROVE  InFlightHasConnection'
  BY Zenon, <1>2, <1>t DEF SendRefused, SendThrows, FilterThrows, Resolve
<1>3. ASSUME NEW c \in Calls, SendAccepted(c) PROVE InFlightHasConnection'
  BY Zenon, <1>3 DEF SendAccepted, is_conn_valid, Valid
<1>4. ASSUME NEW c \in Calls, FiltersDone(c) PROVE InFlightHasConnection'
  BY Zenon, <1>4, <1>t DEF FiltersDone
<1>5. CASE AcquireMemory
  BY Zenon, <1>5 DEF AcquireMemory, Fits
<1>6. CASE WriteHeader \/ WriteBody \/ WriteFails
  BY Zenon, <1>6 DEF WriteHeader, WriteBody, WriteFails, ReleaseWriter
<1>7. ASSUME NEW n \in Conns,
             \/ ReadHeader(n) \/ ReadReply(n) \/ ReadUnknownSession(n)
             \/ ReadMalformed(n) \/ ReadThrows(n) \/ ReadTimesOut(n)
      PROVE  InFlightHasConnection'
  <2>1. UNCHANGED <<phase, memq, serq, cur>>
    BY Zenon, <1>7 DEF ReadHeader, ReadReply, ReadUnknownSession, ReadMalformed, ReadThrows,
       ReadTimesOut, ReaderSetsError, ReaderHandlesException
  <2> QED
    BY Zenon, <2>1
<1>8. ASSUME NEW x \in Controllers, Connect(x) \/ Stopped(x) \/ ConnectFails(x)
      PROVE  InFlightHasConnection'
  BY Zenon, <1>8 DEF Connect, Stopped, ConnectFails
<1>9. ASSUME NEW x \in Controllers, Reconnect(x) \/ Stop(x) PROVE InFlightHasConnection'
  BY Zenon, <1>9 DEF Reconnect, Stop, CloseGate
<1>10. ASSUME NEW x \in Controllers, Reopen(x) PROVE InFlightHasConnection'
  BY Zenon, <1>10 DEF Reopen, GateEmpty
<1>11. ASSUME NEW x \in Controllers, ConnectOk(x) PROVE InFlightHasConnection'
  BY <1>11, <1>t DEF ConnectOk
<1>12. ASSUME NEW n \in Conns, PeerCloses(n) \/ \E c \in Calls : PeerReply(n, c)
       PROVE  InFlightHasConnection'
  BY Zenon, <1>12 DEF PeerCloses, PeerReply
<1> QED
  BY Zenon, NextCases, <1>1, <1>2, <1>3, <1>4, <1>5, <1>6, <1>7, <1>8, <1>9, <1>10, <1>11, <1>12

(* Calls and writes in flight always have a connection to use: the         *)
(* unchecked uses of conn_ in dispatch_write are safe, whatever the number *)
(* of concurrent reconnects, stops and failures.                           *)
THEOREM InFlightConnected == Spec => []InFlightHasConnection
<1>1. Init => InFlightHasConnection
  BY ZenonT(60) DEF Init, InFlightHasConnection, InFlight, CallInGate
<1> QED
  BY <1>1, ConnectionNext, TypeCorrect, PTL DEF Spec

-----------------------------------------------------------------------------
(* Calls are registered only while the connection is valid.  The argument  *)
(* needs who may hold the gate closed: until seastar's assertion ends the  *)
(* process it is one controller, and nothing is registered behind a closed *)
(* gate.                                                                   *)

Holds(x) == ctl[x] \in {"closing", "stopping", "stopped"}

GateHeld ==
  ~aborted =>
    /\ \A x \in Controllers : Holds(x) => gate_closed
    /\ \A x, y \in Controllers : Holds(x) /\ Holds(y) => x = y

(* Every handler keeps the gate with at most one holder.                   *)
LEMMA GateNext == TypeOK /\ GateHeld /\ [Next]_vars => GateHeld'
<1> SUFFICES ASSUME TypeOK, GateHeld, [Next]_vars PROVE GateHeld'
  BY Zenon
<1> USE DEF GateHeld, Holds
<1>t. /\ ctl \in [Controllers -> {"idle", "closing", "connecting", "stopping", "stopped"}]
      /\ gate_closed \in BOOLEAN /\ aborted \in BOOLEAN
  BY Zenon DEF TypeOK, CtlTypes
<1>1. CASE UNCHANGED ctlVars
  BY Zenon, <1>1 DEF ctlVars
<1>2. CASE ~aborted /\ \E x \in Controllers : Reconnect(x) \/ Stop(x)
  BY ZenonT(60), <1>2, <1>t DEF Reconnect, Stop, CloseGate
<1>3. CASE ~aborted /\ \E x \in Controllers : Reopen(x)
  BY ZenonT(60), <1>3, <1>t DEF Reopen
<1>4. CASE ~aborted /\ \E x \in Controllers :
             Connect(x) \/ Stopped(x) \/ ConnectOk(x) \/ ConnectFails(x)
  BY <1>4, <1>t DEF Connect, Stopped, ConnectOk, ConnectFails
<1> QED
  BY Zenon, NextCases, <1>1, <1>2, <1>3, <1>4 DEF vars, SendRefused, SendThrows, SendAccepted,
     FilterThrows, FiltersDone, Resolve, AcquireMemory, WriteHeader, WriteBody, WriteFails,
     ReadHeader, ReadReply, ReadUnknownSession, ReadMalformed, ReadThrows, ReadTimesOut,
     ReaderSetsError, ReaderHandlesException, PeerReply, PeerCloses

SlotsEmpty == \A s \in Sessions : rpc_slots[s] = NoCall

RegisteredBehindOpenGate == SlotsEmpty \/ (is_conn_valid /\ ~gate_closed)

(* Every handler registers calls only behind an open gate.                 *)
LEMMA RegisteredNext ==
  TypeOK /\ GateHeld /\ RegisteredBehindOpenGate /\ [Next]_vars => RegisteredBehindOpenGate'
<1> SUFFICES ASSUME TypeOK, GateHeld, RegisteredBehindOpenGate, [Next]_vars
             PROVE  RegisteredBehindOpenGate'
  BY Zenon
<1> USE DEF RegisteredBehindOpenGate, SlotsEmpty, is_conn_valid, Valid
<1>t. /\ rpc_slots \in [Sessions -> Calls \cup {NoCall}]
      /\ made \in Nat /\ cur \in 0..made /\ made \in 0..MaxConns
      /\ health \in [Conns -> {"absent", "up", "disabled", "error"}]
  BY ClientConstants DEF TypeOK, SlotTypes, ConnTypes
<1>1. CASE UNCHANGED <<rpc_slots, cur, health, gate_closed>>
  BY Zenon, <1>1
<1>2. ASSUME NEW c \in Calls, SendAccepted(c) PROVE RegisteredBehindOpenGate'
  BY Zenon, <1>2 DEF SendAccepted, connVars, ctlVars
<1>3. ASSUME NEW h, fail_outstanding_futures(h) PROVE RegisteredBehindOpenGate'
  BY Zenon, <1>3 DEF fail_outstanding_futures
<1>4. ASSUME NEW n \in Conns, ReadReply(n) PROVE RegisteredBehindOpenGate'
  BY Zenon, <1>4, <1>t DEF ReadReply, connVars, ctlVars
<1>5. ASSUME NEW x \in Controllers, ~aborted, Reopen(x) PROVE RegisteredBehindOpenGate'
  <2>1. SlotsEmpty
    BY Zenon, <1>5 DEF Reopen, GateHeld, Holds
  <2> QED
    BY Zenon, <1>5, <2>1 DEF Reopen, slotVars
<1>6. ASSUME NEW x \in Controllers, ConnectOk(x) PROVE RegisteredBehindOpenGate'
  <2>1. made + 1 \in Conns /\ made + 1 # 0
    BY <1>6, <1>t, ClientConstants DEF ConnectOk, Conns
  <2> QED
    BY Zenon, <1>6, <1>t, <2>1 DEF ConnectOk, slotVars
<1>7. ASSUME NEW n \in Conns, ReadThrows(n) PROVE RegisteredBehindOpenGate'
  BY Zenon, <1>1, <1>3, <1>7 DEF ReadThrows, ReaderHandlesException, slotVars, connVars, ctlVars
<1> QED
  <2>1. CASE UNCHANGED vars
    BY Zenon, <2>1, <1>1 DEF vars, slotVars, connVars, ctlVars
  <2>2. CASE \E c \in Calls : \/ SendRefused(c) \/ SendThrows(c) \/ FilterThrows(c)
                              \/ FiltersDone(c) \/ Resolve(c)
    BY Zenon, <2>2, <1>1 DEF SendRefused, SendThrows, FilterThrows, FiltersDone, Resolve,
       slotVars, connVars, ctlVars
  <2>3. CASE AcquireMemory \/ WriteHeader \/ WriteBody
    BY Zenon, <2>3, <1>1 DEF AcquireMemory, WriteHeader, WriteBody, slotVars, connVars, ctlVars
  <2>4. CASE \E n \in Conns : \/ ReadHeader(n) \/ PeerCloses(n)
                              \/ \E c \in Calls : PeerReply(n, c)
    BY Zenon, <2>4, <1>1 DEF ReadHeader, PeerCloses, PeerReply, slotVars, connVars, ctlVars
  <2>5. CASE \/ WriteFails
             \/ \E n \in Conns : ReadUnknownSession(n) \/ ReadMalformed(n) \/ ReadTimesOut(n)
             \/ \E x \in Controllers : Reconnect(x) \/ Stop(x)
    BY Zenon, <2>5, <1>3 DEF WriteFails, ReadUnknownSession, ReadMalformed, ReadTimesOut,
       ReaderSetsError, ReaderHandlesException, Reconnect, Stop, CloseGate
  <2>6. CASE \E x \in Controllers : Connect(x) \/ Stopped(x) \/ ConnectFails(x)
    BY Zenon, <2>6, <1>1 DEF Connect, Stopped, ConnectFails, slotVars, connVars
  <2> QED
    BY ZenonT(60), NextCases, <1>2, <1>4, <1>5, <1>6, <1>7, <2>1, <2>2, <2>3, <2>4, <2>5, <2>6

(* Whatever ends a connection (a failed write, a malformed or unexpected   *)
(* reply, a timeout, reconnect or stop) leaves no call registered, so none *)
(* waits on a dead connection; and none is registered after it.            *)
THEOREM OutstandingOnValid == Spec => []OutstandingOnlyWhileValid
<1>1. Init => GateHeld /\ RegisteredBehindOpenGate
  BY ZenonT(60) DEF Init, GateHeld, Holds, RegisteredBehindOpenGate, SlotsEmpty
<1>2. RegisteredBehindOpenGate => OutstandingOnlyWhileValid
  BY Zenon DEF RegisteredBehindOpenGate, OutstandingOnlyWhileValid, SlotsEmpty
<1> QED
  BY <1>1, <1>2, GateNext, RegisteredNext, TypeCorrect, PTL DEF Spec

-----------------------------------------------------------------------------
(* A promise is set once: what is registered is pending, under its own id, *)
(* and a call that was not issued has no promise.                          *)

IdleHasNoPromise == \A c \in Calls : phase[c] = "idle" => pr[c] = "none"

PromiseInv == SlotsArePending /\ IdleHasNoPromise

SetPromisesStay ==
  \A c \in Calls : pr[c] \in {"value", "exception"} => pr'[c] = pr[c] /\ rep'[c] = rep[c]

(* fail_outstanding_futures sets only promises that are pending.           *)
LEMMA FailPending ==
  ASSUME TypeOK, PromiseInv, NEW h, fail_outstanding_futures(h), UNCHANGED <<phase, rep>>
  PROVE  PromiseInv' /\ SetPromisesStay
<1> USE ClientConstants DEF fail_outstanding_futures, PromiseInv, SlotsArePending,
        IdleHasNoPromise, TypeOK, CallTypes, SlotTypes
<1>1. SlotsArePending'
  BY Zenon
<1>2. ASSUME NEW c \in Calls, NEW s \in Sessions, rpc_slots[s] = c PROVE pr[c] = "pending"
  BY <1>2
<1>3. IdleHasNoPromise'
  BY ZenonT(60), <1>2
<1>4. SetPromisesStay
  BY Zenon, <1>2 DEF SetPromisesStay
<1> QED
  BY Zenon, <1>1, <1>3, <1>4

(* Every handler sets only pending promises.                               *)
LEMMA PromiseNext ==
  TypeOK /\ PromiseInv /\ [Next]_vars => PromiseInv' /\ SetPromisesStay
<1> SUFFICES ASSUME TypeOK, PromiseInv, [Next]_vars PROVE PromiseInv' /\ SetPromisesStay
  BY Zenon
<1> USE ClientConstants DEF PromiseInv, SlotsArePending, IdleHasNoPromise, SetPromisesStay
<1>t. /\ phase \in [Calls -> {"idle", "filtering", "awaiting", "done"}]
      /\ pr \in [Calls -> {"none", "pending", "value", "exception"}]
      /\ rep \in [Calls -> Calls \cup {NoCall}]
      /\ sess \in [Calls -> Sessions]
      /\ rpc_slots \in [Sessions -> Calls \cup {NoCall}]
  BY Zenon DEF TypeOK, CallTypes, SlotTypes
<1>1. CASE UNCHANGED <<phase, pr, rep, sess, rpc_slots>>
  BY ZenonT(60), <1>1
<1>2. ASSUME NEW c \in Calls, SendRefused(c) \/ SendThrows(c) \/ FilterThrows(c) \/ Resolve(c)
      PROVE  PromiseInv' /\ SetPromisesStay
  BY SMTT(30), <1>2, <1>t DEF SendRefused, SendThrows, FilterThrows, Resolve, slotVars
<1>3. ASSUME NEW c \in Calls, SendAccepted(c) PROVE PromiseInv' /\ SetPromisesStay
  <2>1. NextSession \in Sessions
    BY SMTT(60) DEF TypeOK, SlotTypes, NextSession, Sessions
  <2>2. pr[c] = "none" /\ \A s \in Sessions : rpc_slots[s] # c
    BY SMTT(30), <1>3, <1>t DEF SendAccepted
  <2> QED
    BY SMTT(30), <1>3, <1>t, <2>1, <2>2 DEF SendAccepted
<1>4. ASSUME NEW c \in Calls, FiltersDone(c) PROVE PromiseInv' /\ SetPromisesStay
  <2>1. UNCHANGED <<rpc_slots, rep, sess>> /\ phase' = [phase EXCEPT ![c] = "awaiting"]
    BY Zenon, <1>4 DEF FiltersDone, slotVars
  <2>2. CASE pr' = pr
    BY SMTT(30), <1>t, <2>1, <2>2
  <2>3. CASE pr[c] = "pending" /\ ~Registered(c) /\ pr' = [pr EXCEPT ![c] = "exception"]
    <3>1. \A s \in Sessions : rpc_slots[s] # c
      BY SMTT(30), <1>t, <2>3 DEF Registered
    <3> QED
      BY SMTT(30), <1>t, <2>1, <2>3, <3>1
  <2> QED
    BY Zenon, <1>4, <2>2, <2>3 DEF FiltersDone
<1>5. ASSUME NEW n \in Conns, ReadReply(n) PROVE PromiseInv' /\ SetPromisesStay
  <2> DEFINE s == Head(stream[reader[n].on]).sess
             r == Head(stream[reader[n].on]).call
             c == rpc_slots[s]
  <2>1. /\ c # NoCall
        /\ pr' = [pr EXCEPT ![c] = "value"]
        /\ rep' = [rep EXCEPT ![c] = r]
        /\ rpc_slots' = [rpc_slots EXCEPT ![s] = NoCall]
        /\ UNCHANGED <<phase, sess>>
    BY Zenon, <1>5 DEF ReadReply
  <2>2. s \in Sessions
    <3>1. reader[n].st = "payload" /\ stream[reader[n].on] # <<>>
      BY ZenonT(60), <1>5 DEF ReadReply
    <3>2. reader[n].on \in Conns
      BY SMTT(30), <3>1 DEF TypeOK, ReaderTypes, Reading, Off
    <3>3. Head(stream[reader[n].on]) \in Replies
      BY SMTT(60), <3>1, <3>2 DEF TypeOK, EnvTypes
    <3> QED
      BY Zenon, <3>3 DEF Replies
  <2> HIDE DEF s, r
  <2>3. c \in Calls /\ pr[c] = "pending" /\ sess[c] = s
    BY SMTT(40), <1>t, <2>1, <2>2
  <2> QED
    BY SMTT(40), <1>t, <2>1, <2>2, <2>3
<1>6. CASE \/ WriteFails
           \/ \E n \in Conns : ReadUnknownSession(n) \/ ReadMalformed(n) \/ ReadTimesOut(n)
           \/ \E x \in Controllers : Reconnect(x) \/ Stop(x)
  <2>1. CASE WriteFails
    BY Zenon, <2>1, FailPending DEF WriteFails
  <2>2. ASSUME NEW n \in Conns, ReaderSetsError(n) PROVE PromiseInv' /\ SetPromisesStay
    <3>1. \E h : fail_outstanding_futures(h) /\ UNCHANGED <<phase, rep>>
      BY Zenon, <2>2 DEF ReaderSetsError
    <3> QED
      BY Zenon, <3>1, FailPending
  <2>3. ASSUME NEW n \in Conns, ReadTimesOut(n) PROVE PromiseInv' /\ SetPromisesStay
    <3>1. \E h : fail_outstanding_futures(h) /\ UNCHANGED <<phase, rep>>
      BY Zenon, <2>3 DEF ReadTimesOut, ReaderHandlesException
    <3> QED
      BY Zenon, <3>1, FailPending
  <2>4. ASSUME NEW x \in Controllers, Reconnect(x) \/ Stop(x)
        PROVE  PromiseInv' /\ SetPromisesStay
    <3>1. \E h : fail_outstanding_futures(h) /\ UNCHANGED <<phase, rep>>
      BY Zenon, <2>4 DEF Reconnect, Stop, CloseGate
    <3> QED
      BY Zenon, <3>1, FailPending
  <2>5. ASSUME NEW n \in Conns, ReadUnknownSession(n) \/ ReadMalformed(n)
        PROVE  PromiseInv' /\ SetPromisesStay
    BY Zenon, <2>2, <2>5 DEF ReadUnknownSession, ReadMalformed
  <2> QED
    BY Zenon, <1>6, <2>1, <2>3, <2>4, <2>5
<1>7. ASSUME NEW n \in Conns, ReadThrows(n) PROVE PromiseInv' /\ SetPromisesStay
  BY Zenon, <1>1, <1>7, FailPending DEF ReadThrows, ReaderHandlesException, callVars, slotVars
<1> QED
  <2>1. CASE UNCHANGED vars
    BY Zenon, <2>1, <1>1 DEF vars, callVars, slotVars
  <2>2. CASE AcquireMemory \/ WriteHeader \/ WriteBody
    BY Zenon, <2>2, <1>1 DEF AcquireMemory, WriteHeader, WriteBody, callVars, slotVars
  <2>3. CASE \E n \in Conns : \/ ReadHeader(n) \/ PeerCloses(n)
                              \/ \E c \in Calls : PeerReply(n, c)
    BY Zenon, <2>3, <1>1 DEF ReadHeader, PeerCloses, PeerReply, callVars, slotVars
  <2>4. CASE \E x \in Controllers : \/ Connect(x) \/ Reopen(x) \/ Stopped(x)
                                    \/ ConnectOk(x) \/ ConnectFails(x)
    BY Zenon, <2>4, <1>1 DEF Connect, Reopen, Stopped, ConnectOk, ConnectFails, callVars, slotVars
  <2> QED
    BY Zenon, NextCases, <1>2, <1>3, <1>4, <1>5, <1>6, <1>7, <2>1, <2>2, <2>3, <2>4

(* The invariant of the promises holds throughout.                         *)
LEMMA PromiseAlways == Spec => []PromiseInv
<1>1. Init => PromiseInv
  BY DEF Init, PromiseInv, SlotsArePending, IdleHasNoPromise
<1> QED
  BY <1>1, PromiseNext, TypeCorrect, PTL DEF Spec

(* A registered call is unset and carries the id it is registered under.   *)
THEOREM RegisteredArePending == Spec => []SlotsArePending
<1>1. PromiseInv => SlotsArePending
  BY Zenon DEF PromiseInv
<1> QED
  BY <1>1, PromiseAlways, PTL

(* No promise is set twice, whatever order replies, timeouts, failures and *)
(* reconnects come in: seastar would end the process otherwise.            *)
THEOREM PromisesSetOnce == Spec => PromiseSetOnce
<1>1. TypeOK /\ PromiseInv /\ [Next]_vars =>
        [\A c \in Calls : pr[c] \in {"value", "exception"} =>
            pr'[c] = pr[c] /\ rep'[c] = rep[c]]_vars
  BY ZenonT(60), PromiseNext DEF SetPromisesStay
<1> QED
  BY <1>1, PromiseAlways, TypeCorrect, PTL DEF Spec, PromiseSetOnce

-----------------------------------------------------------------------------
(* One reader for a live connection.  This needs users that take turns:    *)
(* two calls of connect() at once leave two connections, each with a       *)
(* reader.  When they do, and replace a failed connection by reconnect()   *)
(* as they should, conn_ is null while a connection is being made, so the  *)
(* reader in the gate reads the current connection and reader n only ever  *)
(* reads connection n.                                                     *)

TakeTurns == \A x, y \in Controllers : ctl[x] # "idle" /\ ctl[y] # "idle" => x = y

ReaderInv ==
  /\ \A x \in Controllers : ctl[x] = "connecting" => cur = 0
  /\ \A n \in Conns : reader[n].st # "off" => reader[n].on = n
  /\ \A n \in Conns : reader[n].attached => reader[n].on = cur
  /\ is_conn_valid /\ ~gate_closed => reader[cur].attached

(* fail_outstanding_futures leaves no valid connection.                    *)
LEMMA FailInvalidates ==
  ASSUME TypeOK, NEW h \in Healths, fail_outstanding_futures(h), UNCHANGED cur
  PROVE  ~is_conn_valid'
  BY ClientConstants DEF TypeOK, ConnTypes, Healths, fail_outstanding_futures, is_conn_valid,
     Valid, Conns

(* When users take turns, every handler keeps the readers in order.        *)
LEMMA ReaderNext ==
  ASSUME ~ConnectAgain
  PROVE  TypeOK /\ TakeTurns /\ ReaderInv /\ [Next]_vars => ReaderInv'
<1> SUFFICES ASSUME TypeOK, TakeTurns, ReaderInv, [Next]_vars PROVE ReaderInv'
  BY Zenon
<1> USE ClientConstants
<1>t. /\ ctl \in [Controllers -> {"idle", "closing", "connecting", "stopping", "stopped"}]
      /\ reader \in [Conns -> {Off} \cup Reading]
      /\ health \in Healths /\ cur \in 0..made /\ made \in 0..MaxConns
  BY Zenon DEF TypeOK, CtlTypes, ReaderTypes, ConnTypes, Healths
<1>o. /\ Off.st = "off" /\ Off.attached = FALSE
      /\ \A r \in {Off} \cup Reading : r.attached => r.st # "off"
      /\ \A r \in {Off} \cup Reading : r.st # "off" => r.on \in Conns
  BY DEF Off, Reading
<1>1. CASE UNCHANGED <<ctl, cur, reader, health, gate_closed>>
  BY Zenon, <1>1 DEF ReaderInv, is_conn_valid, Valid
<1>2. ASSUME UNCHANGED <<ctl, cur, reader>>, ~is_conn_valid' PROVE ReaderInv'
  BY Zenon, <1>2 DEF ReaderInv
(* A reader goes on with another reading.                                  *)
<1>3. ASSUME NEW n \in Conns, NEW r \in {Off} \cup Reading,
             reader' = [reader EXCEPT ![n] = r], UNCHANGED <<ctl, cur>>,
             r.st # "off" => r.on = n,
             r.attached => r.on = cur,
             ~is_conn_valid' \/ (UNCHANGED <<health, gate_closed>> /\ (reader[n].attached => r.attached))
      PROVE  ReaderInv'
  <2>1. \A m \in Conns \ {n} : reader'[m] = reader[m]
    BY Zenon, <1>3, <1>t
  <2>2. reader'[n] = r
    BY ZenonT(60), <1>3, <1>t
  <2>3. \A m \in Conns : reader'[m].st # "off" => reader'[m].on = m
    BY SMTT(30), <1>3, <2>1, <2>2 DEF ReaderInv
  <2>4. \A m \in Conns : reader'[m].attached => reader'[m].on = cur'
    BY <1>3, <2>1, <2>2 DEF ReaderInv
  <2>5. \A x \in Controllers : ctl'[x] = "connecting" => cur' = 0
    BY Zenon, <1>3 DEF ReaderInv
  <2>6. is_conn_valid' /\ ~gate_closed' => reader'[cur'].attached
    <3> SUFFICES ASSUME is_conn_valid', ~gate_closed' PROVE reader'[cur].attached
      BY Zenon, <1>3
    <3>1. is_conn_valid /\ ~gate_closed /\ (reader[n].attached => r.attached)
      BY SMTT(60), <1>3 DEF is_conn_valid, Valid
    <3>2. reader[cur].attached /\ cur \in Conns
      BY <3>1, <1>t DEF ReaderInv, is_conn_valid, Valid, Conns
    <3> QED
      BY Zenon, <2>1, <2>2, <3>1, <3>2
  <2> QED
    BY Zenon, <2>3, <2>4, <2>5, <2>6 DEF ReaderInv
<1>4. ASSUME NEW n \in Conns, NEW h \in Healths, reader[n].st # "off"
      PROVE  /\ NextTurn(n, h) \in {Off} \cup Reading
             /\ NextTurn(n, h).st # "off" => NextTurn(n, h).on = n
             /\ NextTurn(n, h).attached => NextTurn(n, h).on = cur
             /\ NextTurn(n, h).attached <=> reader[n].attached /\ Valid(h, cur)
  <2>1. CASE reader[n].attached /\ Valid(h, cur)
    <3>1. reader[n].on = n /\ cur = n
      BY Zenon, <1>4, <2>1 DEF ReaderInv
    <3>2. NextTurn(n, h) = [st |-> "header", attached |-> TRUE, on |-> n]
      BY ZenonT(60), <2>1, <3>1 DEF NextTurn
    <3> QED
      BY SMTT(30), <2>1, <3>1, <3>2 DEF Reading
  <2>2. CASE ~(reader[n].attached /\ Valid(h, cur))
    <3>1. NextTurn(n, h) = Off
      BY Zenon, <2>2 DEF NextTurn
    <3> QED
      BY SMTT(60), <2>2, <3>1 DEF Off
  <2> QED
    BY ZenonT(60), <2>1, <2>2
<1>5. ASSUME NEW n \in Conns, reader[n].st # "off", ReaderSetsError(n) PROVE ReaderInv'
  <2> DEFINE h == [health EXCEPT ![reader[n].on] = "error"]
  <2>1. h \in Healths
    BY Zenon, <1>5, <1>o, <1>t DEF Healths
  <2>2. fail_outstanding_futures(h) /\ UNCHANGED <<cur, ctl>>
        /\ reader' = [reader EXCEPT ![n] = NextTurn(n, health')]
    BY Zenon, <1>5 DEF ReaderSetsError, ctlVars
  <2>3. health' \in Healths
    BY Zenon, <2>1, <2>2, FailTypes
  <2>4. ~is_conn_valid'
    BY Zenon, <2>1, <2>2, FailInvalidates
  <2> QED
    BY Zenon, <1>3, <1>4, <1>5, <2>2, <2>3, <2>4
<1>6. ASSUME NEW n \in Conns, NEW r \in {Off} \cup Reading, ReaderHandlesException(n, r),
             r.st # "off" => r.on = n, r.attached => r.on = cur
      PROVE  ReaderInv'
  <2>1. ~is_conn_valid'
    BY Zenon, <1>6, <1>t, FailInvalidates DEF ReaderHandlesException
  <2> QED
    BY Zenon, <1>3, <1>6, <2>1 DEF ReaderHandlesException, ctlVars
<1>7. ASSUME NEW n \in Conns, ReadHeader(n) PROVE ReaderInv'
  <2> DEFINE r == [st |-> "payload", attached |-> reader[n].attached, on |-> reader[n].on]
  <2>1. reader[n].st # "off" /\ reader' = [reader EXCEPT ![n] = r]
        /\ UNCHANGED <<ctl, cur, health, gate_closed>>
    BY ZenonT(60), <1>7 DEF ReadHeader, Same, ctlVars, connVars
  <2>2. r \in {Off} \cup Reading /\ r.on = n
    BY SMTT(30), <2>1, <1>t DEF Reading, Off, ReaderInv
  <2>3. (reader[n].attached => r.attached) /\ (r.attached => r.on = cur)
    BY Zenon DEF ReaderInv
  <2> HIDE DEF r
  <2> QED
    BY Zenon, <1>3, <2>1, <2>2, <2>3
<1>8. ASSUME NEW n \in Conns, ReadReply(n) PROVE ReaderInv'
  <2>1. reader[n].st # "off" /\ reader' = [reader EXCEPT ![n] = NextTurn(n, health)]
        /\ UNCHANGED <<ctl, cur, health, gate_closed>>
    BY Zenon, <1>8 DEF ReadReply, ctlVars, connVars
  <2>2. ~is_conn_valid' \/ (reader[n].attached => NextTurn(n, health).attached)
    <3>1. NextTurn(n, health).attached <=> reader[n].attached /\ is_conn_valid
      BY Zenon, <1>4, <2>1, <1>t DEF is_conn_valid
    <3>2. is_conn_valid' <=> is_conn_valid
      BY Zenon, <2>1 DEF is_conn_valid, Valid
    <3> QED
      BY Zenon, <3>1, <3>2
  <2> QED
    BY Zenon, <1>3, <1>4, <2>1, <2>2, <1>t
<1>9. ASSUME NEW n \in Conns, ReadUnknownSession(n) \/ ReadMalformed(n) PROVE ReaderInv'
  BY Zenon, <1>5, <1>9 DEF ReadUnknownSession, ReadMalformed
<1>10. ASSUME NEW n \in Conns, ReadThrows(n) PROVE ReaderInv'
  <2>1. CASE ReaderHandlesException(n, Off)
    BY Zenon, <1>6, <2>1, <1>o
  <2>2. CASE ~reader[n].attached
    BY Zenon, <1>3, <1>10, <2>2, <1>o DEF ReadThrows, ctlVars, connVars
  <2> QED
    BY Zenon, <1>10, <2>1, <2>2 DEF ReadThrows
<1>11. ASSUME NEW n \in Conns, ReadTimesOut(n) PROVE ReaderInv'
  <2> DEFINE r == [st |-> reader[n].st, attached |-> FALSE, on |-> reader[n].on]
  <2>1. ReaderHandlesException(n, r) /\ reader[n].attached
    BY ZenonT(60), <1>11 DEF ReadTimesOut, Same
  <2>2. r \in {Off} \cup Reading /\ r.on = n /\ ~r.attached
    BY <2>1, <1>t DEF Reading, Off, ReaderInv
  <2> HIDE DEF r
  <2> QED
    BY Zenon, <1>6, <2>1, <2>2
<1>12. CASE WriteFails
  <2>1. ~is_conn_valid'
    BY Zenon, <1>12, <1>t, FailInvalidates DEF WriteFails
  <2> QED
    BY Zenon, <1>2, <1>12, <2>1 DEF WriteFails, ctlVars
<1>13. ASSUME NEW x \in Controllers, Connect(x) PROVE ReaderInv'
  BY Zenon, <1>13, <1>t DEF Connect, ReaderInv, is_conn_valid, Valid, connVars
<1>14. ASSUME NEW x \in Controllers, Reconnect(x) \/ Stop(x) PROVE ReaderInv'
  <2>1. PICK next \in {"closing", "stopping"} : CloseGate(x, next)
    BY Zenon, <1>14 DEF Reconnect, Stop
  <2> QED
    BY Zenon, <2>1, <1>t DEF CloseGate, ReaderInv
<1>15. ASSUME NEW x \in Controllers, Reopen(x) PROVE ReaderInv'
  BY Zenon, <1>15, <1>t DEF Reopen, GateEmpty, ReaderInGate, ReaderInv, is_conn_valid, Valid
<1>16. ASSUME NEW x \in Controllers, Stopped(x) \/ ConnectFails(x) PROVE ReaderInv'
  BY ZenonT(60), <1>16, <1>t DEF Stopped, ConnectFails, ReaderInv, is_conn_valid, Valid, connVars
<1>17. ASSUME NEW x \in Controllers, ConnectOk(x) PROVE ReaderInv'
  <2> DEFINE n == made + 1
             r == [st |-> "header", attached |-> TRUE, on |-> n]
  <2>1. /\ ctl[x] = "connecting" /\ cur = 0 /\ n \in Conns /\ cur' = n
        /\ ctl' = [ctl EXCEPT ![x] = "idle"] /\ UNCHANGED gate_closed
        /\ reader' = IF gate_closed THEN reader ELSE [reader EXCEPT ![n] = r]
    BY <1>17, <1>t DEF ConnectOk, ReaderInv, Conns
  <2>2. r \in Reading /\ r.on = n /\ r.attached
    BY ZenonT(60), <2>1 DEF Reading
  <2> HIDE DEF r, n
  <2>3. \A m \in Conns : ~reader[m].attached
    BY SMTT(60), <2>1, <1>t, <1>o DEF ReaderInv, Conns
  <2>4. \A y \in Controllers : ctl'[y] # "connecting"
    BY Zenon, <2>1, <1>t DEF TakeTurns
  <2>5. \A m \in Conns : reader'[m].st # "off" => reader'[m].on = m
    BY Zenon, <2>1, <2>2, <1>t DEF ReaderInv
  <2>6. \A m \in Conns : reader'[m].attached => reader'[m].on = cur'
    BY Zenon, <2>1, <2>2, <2>3, <1>t
  <2>7. ~gate_closed' => reader'[cur'].attached
    BY Zenon, <2>1, <2>2, <1>t
  <2> QED
    BY ZenonT(60), <2>4, <2>5, <2>6, <2>7 DEF ReaderInv
<1> QED
  <2>1. CASE UNCHANGED vars
    BY Zenon, <2>1, <1>1 DEF vars, ctlVars, connVars
  <2>2. CASE \E c \in Calls : \/ SendRefused(c) \/ SendThrows(c) \/ SendAccepted(c)
                              \/ FilterThrows(c) \/ FiltersDone(c) \/ Resolve(c)
    BY ZenonT(60), <2>2, <1>1 DEF SendRefused, SendThrows, SendAccepted, FilterThrows, FiltersDone,
       Resolve, ctlVars, connVars
  <2>3. CASE AcquireMemory \/ WriteHeader \/ WriteBody
    BY Zenon, <2>3, <1>1 DEF AcquireMemory, WriteHeader, WriteBody, ctlVars, connVars
  <2>4. CASE \E n \in Conns : PeerCloses(n) \/ \E c \in Calls : PeerReply(n, c)
    BY Zenon, <2>4, <1>1 DEF PeerCloses, PeerReply, ctlVars, connVars
  <2> QED
    BY ZenonT(60), NextCases, <1>7, <1>8, <1>9, <1>10, <1>11, <1>12, <1>13, <1>14, <1>15, <1>16,
       <1>17,
       <2>1, <2>2, <2>3, <2>4

(* The invariant of the readers holds as long as users take turns.         *)
LEMMA ReaderAlways ==
  ASSUME ~ConnectAgain
  PROVE  Spec /\ []TakeTurns => []ReaderInv
<1>1. Init => ReaderInv
  BY DEF Init, ReaderInv, Off, is_conn_valid, Valid
<1>2. TypeOK /\ TakeTurns /\ ReaderInv /\ [Next]_vars => ReaderInv'
  BY Zenon, ReaderNext
<1> QED
  BY <1>1, <1>2, TypeCorrect, PTL DEF Spec

(* A connection the client would send on is read, by one fiber in the      *)
(* gate, if connect, reconnect and stop are called one at a time and       *)
(* failed connections are replaced by reconnect.                           *)
THEOREM LiveConnectionsAreRead ==
  ASSUME ~ConnectAgain
  PROVE  Spec /\ []TakeTurns => []LiveConnectionHasReader
<1>1. TypeOK /\ ReaderInv => LiveConnectionHasReader
  <2> SUFFICES ASSUME TypeOK, ReaderInv, is_conn_valid, ~gate_closed
               PROVE  /\ cur \in Conns /\ reader[cur].attached /\ reader[cur].on = cur
                      /\ \A m \in Conns \ {cur} : ~reader[m].attached
    BY Zenon DEF LiveConnectionHasReader
  <2>1. cur \in Conns
    BY SMTT(60), ClientConstants DEF TypeOK, ConnTypes, is_conn_valid, Valid, Conns
  <2>2. \A m \in Conns : reader[m].attached => reader[m].on = m /\ m = cur
    BY DEF TypeOK, ReaderTypes, Reading, Off, ReaderInv
  <2> QED
    BY Zenon, <2>1, <2>2 DEF ReaderInv
<1> QED
  BY <1>1, ReaderAlways, TypeCorrect, PTL

(* The assertion of parse_header holds under the same condition: no two    *)
(* fibers wait for a header on one stream, those that timed out included.  *)
THEOREM ReadsDoNotInterleave ==
  ASSUME ~ConnectAgain
  PROVE  Spec /\ []TakeTurns => []NoInterleavedReads
<1>1. ReaderInv => NoInterleavedReads
  BY ZenonT(60) DEF ReaderInv, NoInterleavedReads
<1> QED
  BY <1>1, ReaderAlways, PTL

(* And no call or write sees its connection replaced.                      *)
THEOREM SwitchesAreQuiet ==
  ASSUME ~ConnectAgain
  PROVE  Spec /\ []TakeTurns => SwitchIsQuiet
<1>1. TypeOK /\ InFlightHasConnection /\ ReaderInv /\ [Next]_vars => [cur' # cur => ~InFlight]_vars
  <2> SUFFICES ASSUME TypeOK, InFlightHasConnection, ReaderInv, Next, cur' # cur
               PROVE  ~InFlight
    BY Zenon
  <2>1. ASSUME NEW x \in Controllers, Reopen(x) PROVE ~InFlight
    BY Zenon, <2>1 DEF Reopen, GateEmpty, InFlight, CallInGate
  <2>2. ASSUME NEW x \in Controllers, ConnectOk(x) PROVE ~InFlight
    BY Zenon, <2>2 DEF ConnectOk, ReaderInv, InFlightHasConnection
  <2> QED
    BY Zenon, <2>1, <2>2, NextCases DEF SendRefused, SendThrows, SendAccepted,
     FilterThrows, FiltersDone, Resolve, AcquireMemory, WriteHeader, WriteBody, WriteFails,
     ReadHeader, ReadReply, ReadUnknownSession, ReadMalformed, ReadThrows, ReadTimesOut,
     ReaderSetsError, ReaderHandlesException, Connect, Reconnect, Stop, CloseGate, Stopped,
     ConnectFails, PeerReply, PeerCloses, connVars
<1> QED
  BY <1>1, ReaderAlways, InFlightConnected, TypeCorrect, PTL DEF Spec, SwitchIsQuiet

-----------------------------------------------------------------------------
(* The memory units are all back when no write is waiting or under way:    *)
(* what the writes in serq hold, added up in order, is what is not free.   *)

(* held[i] is what the first i writes of the queue q hold together.        *)
RunningSum(q, held) ==
  /\ held[0] = 0
  /\ \A i \in 1..Len(q) : held[i] = held[i - 1] + Size[q[i]]
  /\ \A i, j \in 0..Len(q) : i <= j => held[i] <= held[j]

UnitsInv ==
  \E held \in [0..Len(serq) -> 0..Memory] :
    RunningSum(serq, held) /\ avail = Memory - held[Len(serq)]

(* A write joins the queue with units that were free.                      *)
LEMMA SumAppend ==
  ASSUME NEW q \in Seq(Calls), NEW held \in [0..Len(q) -> 0..Memory], RunningSum(q, held),
         NEW c \in Calls, held[Len(q)] + Size[c] <= Memory
  PROVE  \E now \in [0..Len(Append(q, c)) -> 0..Memory] :
           /\ RunningSum(Append(q, c), now)
           /\ now[Len(Append(q, c))] = held[Len(q)] + Size[c]
<1> DEFINE p == Append(q, c)
           n == Len(q)
           now == [i \in 0..(n + 1) |-> IF i <= n THEN held[i] ELSE held[n] + Size[c]]
<1>1. /\ n \in Nat /\ Len(p) = n + 1 /\ p[n + 1] = c /\ \A i \in 1..n : p[i] = q[i]
  OBVIOUS
<1>2. Size[c] \in Nat /\ Memory \in Nat
  BY Zenon, ClientConstants
<1>3. held[n] + Size[c] \in 0..Memory
  BY SMTT(90), <1>1, <1>2
<1>4. now \in [0..(n + 1) -> 0..Memory]
  BY <1>1, <1>3
<1>5. now[0] = 0 /\ now[n + 1] = held[n] + Size[c]
  BY <1>1 DEF RunningSum
<1>6. \A i \in 1..(n + 1) : now[i] = now[i - 1] + Size[p[i]]
  BY SMTT(30), <1>1, <1>2 DEF RunningSum
<1>7. \A i, j \in 0..(n + 1) : i <= j => now[i] <= now[j]
  <2> SUFFICES ASSUME NEW i \in 0..(n + 1), NEW j \in 0..(n + 1), i <= j
               PROVE  now[i] <= now[j]
    BY ZenonT(60)
  <2>1. CASE j <= n
    BY SMTT(60), <2>1, <1>1 DEF RunningSum
  <2>2. CASE j = n + 1
    <3>a. \A k \in 0..n : k <= n /\ n \in 0..n
      BY <1>1
    <3>b. \A k \in 0..n : held[k] \in 0..Memory
      BY ZenonT(60)
    <3>1. \A k \in 0..n : held[k] <= held[n] /\ held[k] \in Nat
      BY SMTT(30), <3>a, <3>b, <1>2 DEF RunningSum
    <3>2. now[j] = held[n] + Size[c]
      BY SMTT(30), <2>2, <1>1
    <3>3. i <= n => now[i] = held[i] /\ i \in 0..n
      BY SMTT(30), <1>1
    <3>4. i > n => now[i] = held[n] + Size[c]
      BY SMTT(60), <1>1
    <3>5. n \in 0..n /\ held[n] + Size[c] \in Nat
      BY SMTT(30), <3>1, <1>1, <1>2
    <3> HIDE DEF now
    <3>6. CASE i <= n
      BY SMTT(90), <3>1, <3>2, <3>3, <3>5, <3>6, <1>2
    <3>7. CASE i > n
      BY <3>2, <3>4, <3>5, <3>7
    <3> QED
      BY SMTT(30), <3>6, <3>7, <1>1
  <2> QED
    BY <2>1, <2>2, <1>1
<1> HIDE DEF now, p
<1>8. RunningSum(p, now) /\ now \in [0..Len(p) -> 0..Memory] /\ now[Len(p)] = held[n] + Size[c]
  BY Zenon, <1>1, <1>4, <1>5, <1>6, <1>7 DEF RunningSum
<1> QED
  BY Zenon, <1>8 DEF p

(* The first write leaves the queue and takes its units out of the sum.    *)
LEMMA SumTail ==
  ASSUME NEW q \in Seq(Calls), NEW held \in [0..Len(q) -> 0..Memory], RunningSum(q, held),
         q # <<>>
  PROVE  \E now \in [0..Len(Tail(q)) -> 0..Memory] :
           /\ RunningSum(Tail(q), now)
           /\ now[Len(Tail(q))] = held[Len(q)] - Size[Head(q)]
<1> DEFINE p == Tail(q)
           n == Len(q)
           now == [i \in 0..(n - 1) |-> held[i + 1] - held[1]]
<1>1. /\ n \in Nat \ {0} /\ Len(p) = n - 1 /\ Head(q) = q[1] /\ \A i \in 1..(n - 1) : p[i] = q[i + 1]
  OBVIOUS
<1>2. /\ \A c \in Calls : Size[c] \in Nat
      /\ Memory \in Nat /\ Head(q) \in Calls /\ \A i \in 1..(n - 1) : p[i] \in Calls
  BY <1>1, ClientConstants
<1>h. \A i \in 0..n : held[i] \in 0..Memory
  BY Zenon, <1>1
<1>3. held[1] = Size[Head(q)]
  BY SMTT(30), <1>1, <1>2, <1>h DEF RunningSum
<1>4. \A i \in 0..(n - 1) : held[i + 1] - held[1] \in 0..Memory
  BY SMTT(60), <1>1, <1>2, <1>h DEF RunningSum
<1>5. now \in [0..(n - 1) -> 0..Memory]
  BY Zenon, <1>4
<1>6. now[0] = 0 /\ now[n - 1] = held[n] - Size[Head(q)]
  BY SMTT(30), <1>1, <1>2, <1>3, <1>h
<1>7. \A i \in 1..(n - 1) : now[i] = now[i - 1] + Size[p[i]]
  <2> SUFFICES ASSUME NEW i \in 1..(n - 1) PROVE now[i] = now[i - 1] + Size[p[i]]
    BY Zenon
  <2>1. held[i + 1] = held[i] + Size[q[i + 1]]
    BY SMTT(30), <1>1 DEF RunningSum
  <2> QED
    BY SMTT(90), <2>1, <1>1, <1>2, <1>h
<1>8. \A i, j \in 0..(n - 1) : i <= j => now[i] <= now[j]
  BY SMTT(30), <1>1, <1>2, <1>h DEF RunningSum
<1> HIDE DEF now, p
<1>9. RunningSum(p, now) /\ now \in [0..Len(p) -> 0..Memory] /\ now[Len(p)] = held[n] - Size[Head(q)]
  BY Zenon, <1>1, <1>5, <1>6, <1>7, <1>8 DEF RunningSum
<1> QED
  BY Zenon, <1>9 DEF p

(* Every handler keeps the account of the units.                           *)
LEMMA UnitsNext == TypeOK /\ UnitsInv /\ [Next]_vars => UnitsInv'
<1> SUFFICES ASSUME TypeOK, UnitsInv, [Next]_vars PROVE UnitsInv'
  BY Zenon
<1>t. memq \in Seq(Calls) /\ serq \in Seq(Calls) /\ avail \in Int /\ Memory \in Nat
      /\ \A c \in Calls : Size[c] \in Nat
  BY Zenon, ClientConstants DEF TypeOK, WriteTypes
<1>h. PICK held \in [0..Len(serq) -> 0..Memory] :
        RunningSum(serq, held) /\ avail = Memory - held[Len(serq)]
  BY Zenon DEF UnitsInv
<1>l. held[Len(serq)] \in 0..Memory
  BY <1>h, <1>t
<1>1. CASE UNCHANGED <<serq, avail>>
  BY Zenon, <1>1 DEF UnitsInv
<1>2. CASE AcquireMemory
  <2>1. /\ memq # <<>> /\ Size[Head(memq)] <= avail
        /\ avail' = avail - Size[Head(memq)] /\ serq' = Append(serq, Head(memq))
    BY Zenon, <1>2 DEF AcquireMemory, Fits
  <2>2. PICK c \in Calls : c = Head(memq)
    BY SMTT(60), <2>1, <1>t
  <2>3. held[Len(serq)] + Size[c] <= Memory
    BY SMTT(60), <2>1, <2>2, <1>h, <1>l, <1>t
  <2>4. PICK now \in [0..Len(serq') -> 0..Memory] :
          RunningSum(serq', now) /\ now[Len(serq')] = held[Len(serq)] + Size[c]
    BY ZenonT(60), <2>1, <2>2, <2>3, <1>h, <1>t, SumAppend
  <2>5. avail' = Memory - now[Len(serq')]
    BY SMTT(90), <2>1, <2>2, <2>4, <1>h, <1>l, <1>t
  <2> QED
    BY Zenon, <2>4, <2>5 DEF UnitsInv
<1>3. CASE serq # <<>> /\ ReleaseWriter
  <2>1. avail' = avail + Size[Head(serq)] /\ serq' = Tail(serq)
    BY Zenon, <1>3 DEF ReleaseWriter
  <2>2. PICK now \in [0..Len(serq') -> 0..Memory] :
          RunningSum(serq', now) /\ now[Len(serq')] = held[Len(serq)] - Size[Head(serq)]
    BY Zenon, <2>1, <1>3, <1>h, <1>t, SumTail
  <2>3. avail' = Memory - now[Len(serq')]
    <3>1. Size[Head(serq)] \in Nat
      BY <1>3, <1>t
    <3> QED
      BY SMTT(60), <2>1, <2>2, <3>1, <1>h, <1>l, <1>t
  <2> QED
    BY Zenon, <2>2, <2>3 DEF UnitsInv
<1> QED
  <2>1. CASE UNCHANGED vars
    BY Zenon, <2>1, <1>1 DEF vars, writeVars
  <2>2. CASE \E c \in Calls : \/ SendRefused(c) \/ SendThrows(c) \/ SendAccepted(c)
                              \/ FilterThrows(c) \/ FiltersDone(c) \/ Resolve(c)
    BY Zenon, <2>2, <1>1 DEF SendRefused, SendThrows, SendAccepted, FilterThrows, FiltersDone,
       Resolve, writeVars
  <2>3. CASE WriteHeader \/ WriteBody \/ WriteFails
    BY Zenon, <2>3, <1>1, <1>3 DEF WriteHeader, WriteBody, WriteFails
  <2>4. CASE \E n \in Conns : \/ ReadHeader(n) \/ ReadReply(n) \/ ReadUnknownSession(n)
                              \/ ReadMalformed(n) \/ ReadThrows(n) \/ ReadTimesOut(n)
    BY ZenonT(60), <2>4, <1>1 DEF ReadHeader, ReadReply, ReadUnknownSession, ReadMalformed,
       ReadThrows,
       ReadTimesOut, ReaderSetsError, ReaderHandlesException, writeVars
  <2>5. CASE \E n \in Conns : PeerCloses(n) \/ \E c \in Calls : PeerReply(n, c)
    BY Zenon, <2>5, <1>1 DEF PeerCloses, PeerReply, writeVars
  <2>6. CASE \E x \in Controllers : \/ Connect(x) \/ Reconnect(x) \/ Stop(x) \/ Reopen(x)
                                    \/ Stopped(x) \/ ConnectOk(x) \/ ConnectFails(x)
    BY Zenon, <2>6, <1>1 DEF Connect, Reconnect, Stop, CloseGate, Reopen, Stopped, ConnectOk,
       ConnectFails, writeVars
  <2> QED
    BY Zenon, NextCases, <1>2, <2>1, <2>2, <2>3, <2>4, <2>5, <2>6

(* No failed or abandoned write leaks units of resources_available, for    *)
(* any sizes and any number of calls.                                      *)
THEOREM UnitsComeBack == Spec => []UnitsReturned
<1>1. Init => UnitsInv
  <2> SUFFICES ASSUME Init PROVE UnitsInv
    BY Zenon
  <2> DEFINE held == [i \in 0..0 |-> 0]
  <2>1. serq = <<>> /\ avail = Memory /\ Memory \in Nat
    BY Zenon, ClientConstants DEF Init
  <2>2. held \in [0..Len(serq) -> 0..Memory] /\ RunningSum(serq, held)
        /\ avail = Memory - held[Len(serq)]
    BY SMTT(60), <2>1 DEF RunningSum
  <2> QED
    BY Zenon, <2>2 DEF UnitsInv
<1>2. UnitsInv => UnitsReturned
  BY ClientConstants DEF UnitsInv, RunningSum, UnitsReturned
<1> QED
  BY <1>1, <1>2, UnitsNext, TypeCorrect, PTL DEF Spec

=============================================================================

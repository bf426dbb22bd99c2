-------------------------- MODULE RpcServerProofs ---------------------------
(***************************************************************************)
(* Proofs about RpcServer, for every set of requests, bound on             *)
(* connections, memory limit and sizes: its types, its invariants, and     *)
(* where the memory units are.                                             *)
(***************************************************************************)
EXTENDS RpcServer, ProofFacts, TLAPS

(* Types.                                                                  *)

(* Next, one disjunct per handler.                                         *)
LEMMA NextCases ==
  ASSUME Next
  PROVE  \/ Accept \/ AcceptFails \/ Admit \/ Stop \/ StopCloses \/ StopReturns
         \/ \E n \in Conns : \/ ReadHeader(n) \/ BadHeader(n) \/ BadPayload(n)
                             \/ Dispatch(n) \/ DispatchNoRoute(n) \/ SessionThrows(n)
         \/ \E n \in Conns : WriteHeader(n) \/ WriteBody(n) \/ WriteFails(n)
         \/ \E r \in Requests : HandleThrows(r) \/ NoDecompressor(r) \/ HandleDone(r)
         \/ \E r \in Requests : Flush(r) \/ FlushFails(r) \/ Cleanup(r)
         \/ \E n \in Conns : PeerCloses(n)
         \/ \E n \in Conns, r \in Requests : PeerSends(n, r)
  BY Zenon DEF Next, Session, Write, Handle, Finish

(* A reader that waits for memory or a body has read the header of a       *)
(* request, which came on its connection; a fiber has a connection; the    *)
(* holder of serialize_writes is in its queue.                             *)
ReadInv ==
  /\ \A i \in 1..Len(memq) : reader[memq[i]] = "memory"
  /\ \A i, j \in 1..Len(memq) : memq[i] = memq[j] => i = j
  /\ \A n \in Conns : reader[n] \in {"memory", "payload"} => in[n] # <<>>
  /\ \A n \in Conns : reader[n] # "off" => n <= connection_idx
OnInv ==
  /\ \A n \in Conns : \A i \in 1..Len(in[n]) : on[in[n][i]] = n /\ fiber[in[n][i]] = "none"
  /\ \A n \in Conns : \A i, j \in 1..Len(in[n]) : in[n][i] = in[n][j] => i = j
  /\ \A r \in Requests : fiber[r] # "none" => on[r] \in Conns
LockInv ==
  /\ \A n \in Conns : \A i \in 1..Len(wq[n]) : on[wq[n][i]] = n /\ fiber[wq[n][i]] = "writing"
  /\ \A n \in Conns : \A i, j \in 1..Len(wq[n]) : wq[n][i] = wq[n][j] => i = j
  /\ \A n \in half : wq[n] # <<>>

TypeInv == TypeOK /\ ReadInv /\ OnInv /\ LockInv

(* A group of variables that a step leaves alone keeps its types.          *)
LEMMA Frame ==
  ASSUME TypeOK
  PROVE  /\ UNCHANGED stopVars => StopTypes'
         /\ UNCHANGED connVars => ConnTypes'
         /\ UNCHANGED srv => SrvTypes'
         /\ UNCHANGED memVars => MemTypes'
         /\ UNCHANGED reader => ReaderTypes'
         /\ UNCHANGED fiber => FiberTypes'
         /\ UNCHANGED writeVars => WriteTypes'
         /\ UNCHANGED envVars => EnvTypes'
<1> USE DEF TypeOK
<1>1. UNCHANGED stopVars => StopTypes'
  BY Zenon DEF StopTypes, stopVars
<1>2. UNCHANGED connVars => ConnTypes'
  BY Zenon DEF ConnTypes, connVars
<1>3. UNCHANGED srv => SrvTypes'
  BY Zenon DEF SrvTypes
<1>4. UNCHANGED memVars => MemTypes'
  BY Zenon DEF MemTypes, memVars
<1>5. UNCHANGED reader => ReaderTypes'
  BY Zenon DEF ReaderTypes
<1>6. UNCHANGED fiber => FiberTypes'
  BY Zenon DEF FiberTypes
<1>7. UNCHANGED writeVars => WriteTypes'
  BY Zenon DEF WriteTypes, writeVars
<1>8. UNCHANGED envVars => EnvTypes'
  BY Zenon DEF EnvTypes, envVars
<1> QED
  BY Zenon, <1>1, <1>2, <1>3, <1>4, <1>5, <1>6, <1>7, <1>8

(* cleanup_dispatch_rpc returns a table and counters.                      *)
Tables == [open : SUBSET Conns, bad_requests : Nat, completed_requests : Nat]
LEMMA CleanupTypes ==
  ASSUME NEW s \in Tables, NEW n, NEW err
  PROVE  cleanup_dispatch_rpc(s, n, err) \in Tables
<1>1. Reap(s, n) \in Tables
  BY DEF Reap, Tables
<1>2. Complete(s) \in Tables
  BY DEF Complete, Tables
<1> QED
  BY Zenon, <1>1, <1>2 DEF cleanup_dispatch_rpc

(* A session that ends keeps the types of the connection and the server.   *)
LEMMA SessionEndsTypes ==
  ASSUME TypeOK, NEW n \in Conns, SessionEnds(n),
         UNCHANGED <<connection_idx, drained, broken>>
  PROVE  ConnTypes' /\ SrvTypes' /\ ReaderTypes'
<1>1. ConnTypes'
  BY Zenon DEF TypeOK, ConnTypes, SessionEnds
<1>2. srv \in Tables
  BY Zenon DEF TypeOK, SrvTypes, Tables
<1>3. SrvTypes'
  BY Zenon, <1>2, CleanupTypes DEF SessionEnds, SrvTypes, Tables
<1>4. ReaderTypes'
  BY Zenon DEF TypeOK, ReaderTypes, SessionEnds
<1> QED
  BY Zenon, <1>1, <1>3, <1>4

(* The request at the head of a reader's input.                            *)
LEMMA HeadRequest ==
  ASSUME TypeInv, NEW n \in Conns, reader[n] \in {"memory", "payload"}
  PROVE  /\ in[n] \in Seq(Requests) /\ in[n] # <<>>
         /\ Head(in[n]) \in Requests /\ Tail(in[n]) \in Seq(Requests)
         /\ on[Head(in[n])] = n /\ fiber[Head(in[n])] = "none"
         /\ Size[Head(in[n])] \in Nat /\ AsInt32(Size[Head(in[n])]) \in Int
<1>1. in[n] \in Seq(Requests) /\ in[n] # <<>>
  BY Zenon DEF TypeInv, TypeOK, EnvTypes, ReadInv
<1>2. Head(in[n]) \in Requests /\ Tail(in[n]) \in Seq(Requests) /\ Head(in[n]) = in[n][1]
  BY <1>1
<1>3. on[Head(in[n])] = n /\ fiber[Head(in[n])] = "none"
  BY <1>1, <1>2 DEF TypeInv, OnInv
<1>4. Size[Head(in[n])] \in Nat /\ AsInt32(Size[Head(in[n])]) \in Int
  BY SMTT(60), <1>2, ServerConstants DEF AsInt32
<1> QED
  BY Zenon, <1>1, <1>2, <1>3, <1>4

(* The units of a request are numbers.                                     *)
LEMMA SignalTypes ==
  ASSUME TypeOK, NEW r \in Requests
  PROVE  Signalled(r) \in Int
  BY ServerConstants DEF TypeOK, MemTypes, Signalled, AsInt32

(* The accept loop, the semaphore, stop() and the peers keep the types.    *)
LEMMA ServerSteps ==
  ASSUME TypeInv,
         \/ Accept \/ AcceptFails \/ Admit \/ Stop \/ StopCloses \/ StopReturns
         \/ \E n \in Conns : PeerCloses(n)
         \/ \E n \in Conns, r \in Requests : PeerSends(n, r)
  PROVE  TypeOK'
<1>t. TypeOK
  BY Zenon DEF TypeInv
<1>1. CASE Accept
  <2>1. connection_idx + 1 \in Conns
    BY <1>t, <1>1, ServerConstants DEF Accept, Conns, TypeOK, ConnTypes
  <2>2. ConnTypes'
    BY <1>t, <1>1, <2>1, ServerConstants DEF Accept, TypeOK, ConnTypes, Conns
  <2>3. SrvTypes' /\ ReaderTypes'
    BY Zenon, <1>t, <1>1, <2>1 DEF Accept, TypeOK, SrvTypes, ReaderTypes
  <2> QED
    BY Zenon, <1>t, <1>1, <2>2, <2>3, Frame DEF Accept, TypeOK
<1>2. CASE AcceptFails
  <2>1. StopTypes'
    BY Zenon, <1>t, <1>2 DEF AcceptFails, TypeOK, StopTypes
  <2> QED
    BY Zenon, <1>t, <1>2, <2>1, Frame DEF AcceptFails, TypeOK
<1>3. CASE Admit
  <2>1. memq \in Seq(Conns) /\ memq # <<>> /\ Tail(memq) \in Seq(Conns)
    BY <1>t, <1>3 DEF Admit, TypeOK, MemTypes
  <2>2. Head(memq) \in Conns /\ reader[Head(memq)] = "memory"
    BY <2>1 DEF TypeInv, ReadInv
  <2>3. Size[Waiting] \in Nat
    BY Zenon, <2>2, HeadRequest DEF Waiting
  <2>4. MemTypes' /\ ReaderTypes'
    BY <1>t, <1>3, <2>1, <2>2, <2>3 DEF Admit, TypeOK, MemTypes, ReaderTypes
  <2> QED
    BY Zenon, <1>t, <1>3, <2>4, Frame DEF Admit, TypeOK
<1>4. CASE Stop
  <2>1. StopTypes'
    BY Zenon, <1>t, <1>4 DEF Stop, TypeOK, StopTypes
  <2> QED
    BY Zenon, <1>t, <1>4, <2>1, Frame DEF Stop, TypeOK
<1>5. CASE StopCloses
  <2>1. StopTypes' /\ ConnTypes'
    BY Zenon, <1>t, <1>5 DEF StopCloses, TypeOK, StopTypes, ConnTypes, SrvTypes
  <2> QED
    BY Zenon, <1>t, <1>5, <2>1, Frame DEF StopCloses, TypeOK
<1>6. CASE StopReturns
  <2>1. StopTypes'
    BY Zenon, <1>t, <1>6 DEF StopReturns, TypeOK, StopTypes
  <2> QED
    BY Zenon, <1>t, <1>6, <2>1, Frame DEF StopReturns, TypeOK
<1>7. ASSUME NEW n \in Conns, PeerCloses(n)
      PROVE  TypeOK'
  <2>1. EnvTypes'
    BY Zenon, <1>t, <1>7 DEF PeerCloses, TypeOK, EnvTypes
  <2> QED
    BY Zenon, <1>t, <1>7, <2>1, Frame DEF PeerCloses, TypeOK
<1>8. ASSUME NEW n \in Conns, NEW r \in Requests, PeerSends(n, r)
      PROVE  TypeOK'
  <2>1. Append(in[n], r) \in Seq(Requests)
    BY SMTT(60), <1>t DEF TypeOK, EnvTypes
  <2>2. EnvTypes'
    BY SMTT(60), <1>t, <1>8, <2>1, ServerConstants DEF PeerSends, TypeOK, EnvTypes, Conns
  <2> QED
    BY Zenon, <1>t, <1>8, <2>2, Frame DEF PeerSends, TypeOK
<1> QED
  BY Zenon, <1>1, <1>2, <1>3, <1>4, <1>5, <1>6, <1>7, <1>8

(* The readers keep the types.                                             *)
LEMMA ReaderSteps ==
  ASSUME TypeInv, NEW n \in Conns, Session(n)
  PROVE  TypeOK'
<1>t. TypeOK
  BY Zenon DEF TypeInv
<1>1. CASE ReadHeader(n)
  <2>1. Append(memq, n) \in Seq(Conns)
    BY <1>t DEF TypeOK, MemTypes
  <2>2. MemTypes' /\ ReaderTypes'
    BY Zenon, <1>t, <1>1, <2>1 DEF ReadHeader, TypeOK, MemTypes, ReaderTypes
  <2> QED
    BY Zenon, <1>t, <1>1, <2>2, Frame DEF ReadHeader, TypeOK
<1>2. CASE BadHeader(n)
  <2>1. ConnTypes' /\ SrvTypes' /\ ReaderTypes'
    BY Zenon, <1>t, <1>2, SessionEndsTypes DEF BadHeader
  <2> QED
    BY Zenon, <1>t, <1>2, <2>1, Frame DEF BadHeader, TypeOK
<1>3. CASE BadPayload(n)
  <2>1. ConnTypes' /\ SrvTypes' /\ ReaderTypes'
    BY Zenon, <1>t, <1>3, SessionEndsTypes DEF BadPayload
  <2>2. Head(in[n]) \in Requests /\ Tail(in[n]) \in Seq(Requests)
    BY Zenon, <1>3, HeadRequest DEF BadPayload
  <2>3. Signalled(Head(in[n])) \in Int
    BY Zenon, <1>t, <2>2, SignalTypes
  <2>4. MemTypes' /\ EnvTypes'
    BY Zenon, <1>t, <1>3, <2>2, <2>3 DEF BadPayload, TypeOK, MemTypes, EnvTypes
  <2> QED
    BY Zenon, <1>t, <1>3, <2>1, <2>4, Frame DEF BadPayload, TypeOK
<1>4. CASE Dispatch(n)
  <2> DEFINE r == Head(in[n])
  <2>1. r \in Requests /\ Tail(in[n]) \in Seq(Requests) /\ Size[r] \in Nat
    BY Zenon, <1>4, HeadRequest DEF Dispatch
  <2>2. ConnTypes' /\ SrvTypes' /\ ReaderTypes'
    <3>1. CASE n \in error
      BY Zenon, <1>t, <1>4, <3>1, SessionEndsTypes DEF Dispatch, NextTurn
    <3>2. CASE n \notin error
      BY Zenon, <1>t, <1>4, <3>2 DEF Dispatch, NextTurn, TypeOK, ConnTypes, SrvTypes, ReaderTypes
    <3> QED
      BY Zenon, <3>1, <3>2
  <2>3. EnterGate(r)
    BY Zenon, <1>4 DEF Dispatch
  <2>4. EnvTypes'
    BY Zenon, <1>t, <1>4, <2>1 DEF Dispatch, TypeOK, EnvTypes
  <2> HIDE DEF r
  <2>5. MemTypes' /\ FiberTypes'
    BY SMTT(60), <1>t, <1>4, <2>1, <2>3 DEF Dispatch, EnterGate, memVars, TypeOK, MemTypes,
       FiberTypes
  <2> QED
    BY Zenon, <1>t, <1>4, <2>2, <2>4, <2>5, Frame DEF Dispatch, TypeOK
<1>5. CASE DispatchNoRoute(n)
  <2>1. ConnTypes' /\ SrvTypes' /\ ReaderTypes'
    BY Zenon, <1>t, <1>5, SessionEndsTypes DEF DispatchNoRoute
  <2>2. Head(in[n]) \in Requests /\ Tail(in[n]) \in Seq(Requests)
    BY Zenon, <1>5, HeadRequest DEF DispatchNoRoute
  <2>3. FiberTypes' /\ EnvTypes'
    BY Zenon, <1>t, <1>5, <2>2 DEF DispatchNoRoute, TypeOK, FiberTypes, EnvTypes
  <2> QED
    BY Zenon, <1>t, <1>5, <2>1, <2>3, Frame DEF DispatchNoRoute, TypeOK
<1>6. CASE SessionThrows(n)
  <2>1. ConnTypes' /\ ReaderTypes'
    BY Zenon, <1>t, <1>6 DEF SessionThrows, TypeOK, ConnTypes, ReaderTypes
  <2>2. srv \in Tables
    BY Zenon, <1>t DEF TypeOK, SrvTypes, Tables
  <2>3. cleanup_dispatch_rpc(srv, n, error) \in Tables
    BY Zenon, <2>2, CleanupTypes
  <2>4. SrvTypes'
    BY Zenon, <1>6, <2>3, CleanupTypes DEF SessionThrows, SrvTypes, Tables
  <2>5. reader[n] = "payload" => Size[Head(in[n])] \in Nat
    BY Zenon, HeadRequest
  <2>6. MemTypes'
    BY SMTT(60), <1>t, <1>6, <2>5 DEF SessionThrows, TypeOK, MemTypes
  <2> QED
    BY Zenon, <1>t, <1>6, <2>1, <2>4, <2>6, Frame DEF SessionThrows, TypeOK
<1> QED
  BY Zenon, <1>1, <1>2, <1>3, <1>4, <1>5, <1>6 DEF Session

(* The fibers of the requests keep the types.                              *)
LEMMA FiberSteps ==
  ASSUME TypeInv, NEW r \in Requests, Handle(r) \/ Finish(r)
  PROVE  TypeOK'
<1>t. TypeOK /\ Signalled(r) \in Int
  BY Zenon, SignalTypes DEF TypeInv
<1>o. fiber[r] # "none" => on[r] \in Conns
  BY Zenon DEF TypeInv, OnInv
<1>1. CASE HandleThrows(r)
  <2>1. FiberTypes' /\ MemTypes'
    BY Zenon, <1>t, <1>1 DEF HandleThrows, TypeOK, FiberTypes, MemTypes
  <2> QED
    BY Zenon, <1>t, <1>1, <2>1, Frame DEF HandleThrows, TypeOK
<1>2. CASE NoDecompressor(r)
  <2>1. FiberTypes' /\ ConnTypes'
    BY Zenon, <1>t, <1>o, <1>2 DEF NoDecompressor, TypeOK, FiberTypes, ConnTypes
  <2> QED
    BY Zenon, <1>t, <1>2, <2>1, Frame DEF NoDecompressor, TypeOK
<1>3. CASE HandleDone(r)
  <2>1. FiberTypes'
    BY Zenon, <1>t, <1>3 DEF HandleDone, TypeOK, FiberTypes
  <2>2. on[r] \in Conns
    BY Zenon, <1>o, <1>3 DEF HandleDone
  <2>3. Append(wq[on[r]], r) \in Seq(Requests)
    BY <1>t, <2>2 DEF TypeOK, WriteTypes
  <2>4. WriteTypes'
    BY Zenon, <1>t, <1>3, <2>2, <2>3 DEF HandleDone, TypeOK, WriteTypes
  <2> QED
    BY Zenon, <1>t, <1>3, <2>1, <2>4, Frame DEF HandleDone, TypeOK
<1>4. CASE Flush(r)
  <2>1. FiberTypes'
    BY Zenon, <1>t, <1>4 DEF Flush, TypeOK, FiberTypes
  <2> QED
    BY Zenon, <1>t, <1>4, <2>1, Frame DEF Flush, TypeOK
<1>5. CASE FlushFails(r)
  <2>1. FiberTypes' /\ MemTypes'
    BY Zenon, <1>t, <1>5 DEF FlushFails, TypeOK, FiberTypes, MemTypes
  <2> QED
    BY Zenon, <1>t, <1>5, <2>1, Frame DEF FlushFails, TypeOK
<1>6. CASE Cleanup(r)
  <2>1. FiberTypes' /\ MemTypes'
    BY Zenon, <1>t, <1>6 DEF Cleanup, TypeOK, FiberTypes, MemTypes
  <2>2. srv \in Tables
    BY Zenon, <1>t DEF TypeOK, SrvTypes, Tables
  <2>3. SrvTypes'
    BY Zenon, <1>6, <2>2, CleanupTypes DEF Cleanup, SrvTypes, Tables
  <2> QED
    BY Zenon, <1>t, <1>6, <2>1, <2>3, Frame DEF Cleanup, TypeOK
<1> QED
  BY Zenon, <1>1, <1>2, <1>3, <1>4, <1>5, <1>6 DEF Handle, Finish

(* The first request queued for serialize_writes.                          *)
LEMMA HeadWriter ==
  ASSUME TypeInv, NEW n \in Conns, wq[n] # <<>>
  PROVE  Head(wq[n]) \in Requests /\ Tail(wq[n]) \in Seq(Requests)
  BY DEF TypeInv, TypeOK, WriteTypes

(* The writes keep the types.                                              *)
LEMMA WriteSteps ==
  ASSUME TypeInv, NEW n \in Conns, Write(n)
  PROVE  TypeOK'
<1>t. TypeOK
  BY Zenon DEF TypeInv
<1>w. wq[n] # <<>>
  BY Zenon DEF TypeInv, LockInv, Write, WriteHeader, WriteBody, WriteFails
<1> DEFINE r == Head(wq[n])
<1>r. r \in Requests /\ Tail(wq[n]) \in Seq(Requests) /\ Signalled(r) \in Int
  BY Zenon, <1>t, <1>w, HeadWriter, SignalTypes
<1>p. <<"header", r>> \in Parts /\ <<"body", r>> \in Parts
  BY Zenon, <1>r DEF Parts
<1>a. Append(wire[n], <<"header", r>>) \in Seq(Parts) /\ Append(wire[n], <<"body", r>>) \in Seq(Parts)
  BY <1>t, <1>p DEF TypeOK, WriteTypes
<1>1. CASE WriteHeader(n)
  <2>1. WriteTypes'
    BY Zenon, <1>t, <1>1, <1>a DEF WriteHeader, TypeOK, WriteTypes
  <2> QED
    BY Zenon, <1>t, <1>1, <2>1, Frame DEF WriteHeader, TypeOK
<1>2. CASE WriteBody(n)
  <2>1. WriteTypes'
    BY Zenon, <1>t, <1>2, <1>a, <1>r DEF WriteBody, TypeOK, WriteTypes
  <2>2. FiberTypes'
    BY Zenon, <1>t, <1>2, <1>r DEF WriteBody, TypeOK, FiberTypes
  <2> QED
    BY Zenon, <1>t, <1>2, <2>1, <2>2, Frame DEF WriteBody, TypeOK
<1>3. CASE WriteFails(n)
  <2>1. WriteTypes' /\ ConnTypes'
    BY Zenon, <1>t, <1>3, <1>r DEF WriteFails, TypeOK, WriteTypes, ConnTypes
  <2>2. FiberTypes' /\ MemTypes'
    BY Zenon, <1>t, <1>3, <1>r DEF WriteFails, TypeOK, FiberTypes, MemTypes
  <2> QED
    BY Zenon, <1>t, <1>3, <2>1, <2>2, Frame DEF WriteFails, TypeOK
<1> QED
  BY Zenon, <1>1, <1>2, <1>3 DEF Write

(* Every step keeps the types.                                             *)
LEMMA TypeNext ==
  ASSUME TypeInv, Next
  PROVE  TypeOK'
  BY ServerSteps, ReaderSteps, FiberSteps, WriteSteps, Zenon DEF Next

-----------------------------------------------------------------------------
(* The queue of the semaphore holds the readers in "memory", each once.    *)
LEMMA ReadNext ==
  ASSUME TypeInv, Next
  PROVE  ReadInv'
<1>t. /\ memq \in Seq(Conns) /\ reader \in [Conns -> {"off", "header", "memory", "payload", "done"}]
      /\ in \in [Conns -> Seq(Requests)] /\ connection_idx \in Nat
  BY DEF TypeInv, TypeOK, MemTypes, ReaderTypes, EnvTypes, ConnTypes
<1>i. ReadInv
  BY Zenon DEF TypeInv
<1>0. ASSUME UNCHANGED <<memq, reader, in, connection_idx>>
      PROVE  ReadInv'
  BY Zenon, <1>i, <1>0 DEF ReadInv
<1>1. CASE Accept
  <2>1. reader' = [reader EXCEPT ![connection_idx + 1] = "header"] /\ UNCHANGED <<memq, in>>
    BY Zenon, <1>1 DEF Accept, memVars, envVars
  <2>2. connection_idx + 1 \in Conns /\ connection_idx' = connection_idx + 1
    BY SMTT(60), <1>t, <1>1, ServerConstants DEF Accept, Conns
  <2>3. reader[connection_idx + 1] = "off"
    BY <1>t, <1>i, <2>2 DEF ReadInv
  <2>4. \A i \in 1..Len(memq) : memq[i] \in Conns /\ memq[i] # connection_idx + 1
    BY <1>t, <1>i, <2>2, <2>3 DEF ReadInv
  <2>5. \A i \in 1..Len(memq') : reader'[memq'[i]] = "memory"
    BY Zenon, <1>t, <1>i, <2>1, <2>4 DEF ReadInv
  <2>6. \A n \in Conns : reader'[n] \in {"memory", "payload"} => in'[n] # <<>>
    BY Zenon, <1>t, <1>i, <2>1, <2>2 DEF ReadInv
  <2>7. \A n \in Conns : reader'[n] # "off" => n <= connection_idx'
    BY SMTT(60), <1>t, <1>i, <2>1, <2>2, ServerConstants DEF ReadInv, Conns
  <2> QED
    BY ZenonT(60), <1>i, <2>1, <2>5, <2>6, <2>7 DEF ReadInv
<1>2. CASE Admit
  <2>1. memq # <<>> /\ memq' = Tail(memq) /\ in' = in
        /\ reader' = [reader EXCEPT ![Head(memq)] = "payload"]
    BY Zenon, <1>2 DEF Admit, memVars, envVars
  <2>2. /\ Head(memq) = memq[1] /\ Head(memq) \in Conns /\ Len(memq') = Len(memq) - 1
        /\ \A i \in 1..Len(memq') : memq'[i] = memq[i + 1] /\ i + 1 \in 1..Len(memq)
    BY <1>t, <2>1
  <2>3. Len(memq) \in Nat /\ Len(memq) >= 1
    BY <1>t, <2>1
  <2>4. \A i \in 1..Len(memq') : memq'[i] \in Conns /\ memq'[i] # memq[1]
    <3> TAKE i \in 1..Len(memq')
    <3>1. i + 1 \in 1..Len(memq) /\ 1 \in 1..Len(memq) /\ i + 1 # 1 /\ memq'[i] = memq[i + 1]
      BY SMTT(60), <2>2, <2>3
    <3> QED
      BY SMTT(60), <1>t, <1>i, <3>1 DEF ReadInv
  <2>5. \A i \in 1..Len(memq') : reader'[memq'[i]] = "memory"
    BY SMTT(60), <1>t, <1>i, <2>1, <2>2, <2>4 DEF ReadInv
  <2>6. \A i, j \in 1..Len(memq') : memq'[i] = memq'[j] => i = j
    BY SMTT(60), <1>i, <2>2, <2>3 DEF ReadInv
  <2>7. reader[Head(memq)] = "memory"
    BY <1>i, <2>2, <2>3 DEF ReadInv
  <2>8. \A n \in Conns : reader'[n] \in {"memory", "payload"} => in'[n] # <<>>
    BY Zenon, <1>t, <1>i, <2>1, <2>7 DEF ReadInv
  <2>9. \A n \in Conns : reader'[n] # "off" => n <= connection_idx'
    BY Zenon, <1>t, <1>i, <1>2, <2>1, <2>7 DEF ReadInv, Admit, connVars
  <2> QED
    BY Zenon, <2>5, <2>6, <2>8, <2>9 DEF ReadInv
<1>3. ASSUME NEW n \in Conns, ReadHeader(n)
      PROVE  ReadInv'
  <2>1. reader[n] = "header" /\ in[n] # <<>> /\ memq' = Append(memq, n) /\ in' = in
        /\ reader' = [reader EXCEPT ![n] = "memory"]
    BY Zenon, <1>3 DEF ReadHeader, envVars
  <2>2. /\ Len(memq') = Len(memq) + 1 /\ memq'[Len(memq) + 1] = n /\ Len(memq) \in Nat
        /\ \A i \in 1..Len(memq) : memq'[i] = memq[i] /\ memq[i] \in Conns
    BY <1>t, <2>1
  <2>3. \A i \in 1..Len(memq) : memq'[i] # n /\ reader'[memq'[i]] = "memory"
    BY ZenonT(60), <1>t, <1>i, <2>1, <2>2 DEF ReadInv
  <2>4. \A i \in 1..Len(memq') : i \in 1..Len(memq) \/ i = Len(memq) + 1
    BY <2>2
  <2>5. \A i \in 1..Len(memq') : reader'[memq'[i]] = "memory"
    <3>1. reader'[n] = "memory"
      BY Zenon, <1>t, <2>1
    <3> QED
      BY Zenon, <2>2, <2>3, <2>4, <3>1
  <2>6. \A i, j \in 1..Len(memq') : memq'[i] = memq'[j] => i = j
    BY <1>i, <2>2, <2>3, <2>4 DEF ReadInv
  <2>7. \A m \in Conns : reader'[m] \in {"memory", "payload"} => in'[m] # <<>>
    BY Zenon, <1>t, <1>i, <2>1 DEF ReadInv
  <2>8. \A m \in Conns : reader'[m] # "off" => m <= connection_idx'
    BY Zenon, <1>t, <1>i, <1>3, <2>1 DEF ReadInv, ReadHeader, connVars
  <2> QED
    BY Zenon, <2>5, <2>6, <2>7, <2>8 DEF ReadInv
<1>4. ASSUME NEW n \in Conns, NEW x \in {"header", "done"}, reader[n] \in {"header", "payload"},
             reader' = [reader EXCEPT ![n] = x],
             memq' = memq, connection_idx' = connection_idx,
             in' = in \/ in' = [in EXCEPT ![n] = Tail(@)]
      PROVE  ReadInv'
  <2>1. \A i \in 1..Len(memq) : memq[i] \in Conns /\ memq[i] # n
    BY <1>t, <1>i, <1>4 DEF ReadInv
  <2>2. \A i \in 1..Len(memq') : reader'[memq'[i]] = "memory"
    BY Zenon, <1>t, <1>i, <1>4, <2>1 DEF ReadInv
  <2>3. \A m \in Conns : reader'[m] \in {"memory", "payload"} => in'[m] # <<>>
    BY Zenon, <1>t, <1>i, <1>4 DEF ReadInv
  <2>4. \A m \in Conns : reader'[m] # "off" => m <= connection_idx'
    BY Zenon, <1>t, <1>i, <1>4 DEF ReadInv
  <2> QED
    BY ZenonT(60), <1>i, <1>4, <2>2, <2>3, <2>4 DEF ReadInv
<1>5. ASSUME NEW n \in Conns, BadHeader(n) \/ BadPayload(n) \/ DispatchNoRoute(n) \/ SessionThrows(n)
      PROVE  ReadInv'
  BY Zenon, <1>4, <1>5 DEF BadHeader, BadPayload, DispatchNoRoute, SessionThrows, Throws,
     SessionEnds, memVars, envVars, connVars
<1>6. ASSUME NEW n \in Conns, Dispatch(n)
      PROVE  ReadInv'
  BY Zenon, <1>4, <1>6 DEF Dispatch, NextTurn, SessionEnds, memVars
<1>7. ASSUME NEW n \in Conns, NEW r \in Requests, PeerSends(n, r)
      PROVE  ReadInv'
  <2>1. /\ in' = [in EXCEPT ![n] = Append(in[n], r)]
        /\ UNCHANGED <<memq, reader, connection_idx>>
    BY Zenon, <1>7 DEF PeerSends, memVars, connVars
  <2>2. in[n] \in Seq(Requests)
    BY Zenon, <1>t
  <2>3. Append(in[n], r) # <<>>
    BY <2>2
  <2> QED
    BY Zenon, <1>t, <1>i, <2>1, <2>3 DEF ReadInv
<1>8. CASE \/ AcceptFails \/ Stop \/ StopCloses \/ StopReturns
           \/ \E n \in Conns : PeerCloses(n) \/ Write(n)
           \/ \E r \in Requests : Handle(r) \/ Finish(r)
  BY <1>0, <1>8, ZenonT(60) DEF AcceptFails, Stop, StopCloses, StopReturns, PeerCloses, Write,
     WriteHeader,
     WriteBody, WriteFails, Handle, HandleThrows, NoDecompressor, HandleDone, Finish, Flush,
     FlushFails, Cleanup, memVars, envVars, connVars
<1> QED
  BY <1>1, <1>2, <1>3, <1>5, <1>6, <1>7, <1>8, Zenon DEF Next, Session

(* The requests on a connection's input came on it, once, and have no      *)
(* fiber yet; the requests of fibers have a connection.                    *)
LEMMA OnNext ==
  ASSUME TypeInv, Next
  PROVE  OnInv'
<1>t. on \in [Requests -> 0..MaxConns] /\ in \in [Conns -> Seq(Requests)] /\ DOMAIN fiber = Requests
  BY Zenon DEF TypeInv, TypeOK, EnvTypes, FiberTypes
<1>i. OnInv
  BY Zenon DEF TypeInv
<1>0. ASSUME UNCHANGED <<on, in>>, NEW r \in Requests, NEW x, fiber[r] # "none",
             fiber' = [fiber EXCEPT ![r] = x]
      PROVE  OnInv'
  <2>1. ASSUME NEW n \in Conns, NEW i \in 1..Len(in[n])
        PROVE  on'[in'[n][i]] = n /\ fiber'[in'[n][i]] = "none"
    <3>1. in[n][i] \in Requests
      BY <1>t
    <3> QED
      BY SMTT(60), <1>t, <1>i, <1>0, <3>1 DEF OnInv
  <2>2. \A q \in Requests : fiber'[q] # "none" => on'[q] \in Conns
    BY Zenon, <1>t, <1>i, <1>0 DEF OnInv
  <2> QED
    BY ZenonT(60), <1>i, <1>0, <2>1, <2>2 DEF OnInv
<1>1. ASSUME NEW n \in Conns, NEW r \in Requests, PeerSends(n, r)
      PROVE  OnInv'
  <2>1. /\ on[r] = 0 /\ on' = [on EXCEPT ![r] = n] /\ fiber' = fiber
        /\ in' = [in EXCEPT ![n] = Append(in[n], r)]
    BY Zenon, <1>1 DEF PeerSends
  <2>2. \A q \in Requests : fiber'[q] # "none" => on'[q] \in Conns
    BY Zenon, <1>t, <1>i, <2>1 DEF OnInv
  <2>3. ASSUME NEW m \in Conns, NEW i \in 1..Len(in[m])
        PROVE  in[m][i] \in Requests /\ in[m][i] # r
    BY SMTT(90), <1>t, <1>i, <2>1, <2>3 DEF OnInv, Conns
  <2>4. fiber[r] = "none"
    BY <1>i, <2>1 DEF OnInv, Conns
  <2>5. ASSUME NEW m \in Conns, NEW i \in 1..Len(in'[m])
        PROVE  \/ m = n /\ i = Len(in[n]) + 1 /\ in'[m][i] = r
               \/ i \in 1..Len(in[m]) /\ in'[m][i] = in[m][i]
    BY <1>t, <2>1, <2>5
  <2>6. ASSUME NEW m \in Conns, NEW i \in 1..Len(in'[m])
        PROVE  on'[in'[m][i]] = m /\ fiber'[in'[m][i]] = "none"
    BY SMTT(90), <1>t, <1>i, <2>1, <2>3, <2>4, <2>5, <2>6 DEF OnInv
  <2>7. ASSUME NEW m \in Conns, NEW i \in 1..Len(in'[m]), NEW j \in 1..Len(in'[m]),
               in'[m][i] = in'[m][j]
        PROVE  i = j
    BY SMTT(60), <1>i, <2>3, <2>5, <2>7 DEF OnInv
  <2> QED
    BY Zenon, <2>2, <2>6, <2>7 DEF OnInv
<1>2. ASSUME NEW n \in Conns, reader[n] = "payload", on' = on, in' = [in EXCEPT ![n] = Tail(@)],
             fiber' = fiber \/ \E x : fiber' = [fiber EXCEPT ![Head(in[n])] = x]
      PROVE  OnInv'
  <2>1. Head(in[n]) \in Requests /\ on[Head(in[n])] = n /\ in[n] # <<>> /\ Head(in[n]) = in[n][1]
    BY <1>t, <1>2, HeadRequest
  <2>2. \A r \in Requests : fiber'[r] # "none" => on'[r] \in Conns
    BY ZenonT(60), <1>t, <1>i, <1>2, <2>1 DEF OnInv
  <2>3. ASSUME NEW m \in Conns, NEW i \in 1..Len(in'[m])
        PROVE  \/ m # n /\ i \in 1..Len(in[m]) /\ in'[m][i] = in[m][i]
               \/ m = n /\ i + 1 \in 2..Len(in[m]) /\ in'[m][i] = in[m][i + 1]
    <3>1. CASE m = n
      BY <1>t, <1>2, <2>1, <2>3, <3>1
    <3>2. CASE m # n
      BY Zenon, <1>t, <1>2, <2>3, <3>2
    <3> QED
      BY Zenon, <3>1, <3>2
  <2>4. ASSUME NEW m \in Conns, NEW i \in 1..Len(in'[m])
        PROVE  in'[m][i] \in Requests /\ on[in'[m][i]] = m /\ fiber[in'[m][i]] = "none"
    <3>0. Len(in[m]) \in Nat /\ (i + 1 \in 2..Len(in[m]) => i + 1 \in 1..Len(in[m]))
      BY <1>t
    <3>1. PICK k \in 1..Len(in[m]) : in'[m][i] = in[m][k]
      BY Zenon, <2>3, <3>0
    <3> QED
      BY <1>t, <1>i, <3>1 DEF OnInv
  <2>5. ASSUME NEW m \in Conns, NEW i \in 1..Len(in'[m])
        PROVE  in'[m][i] # Head(in[n])
    <3>1. CASE m = n
      <4>1. 1 \in 1..Len(in[n]) /\ i + 1 \in 1..Len(in[n]) /\ i + 1 # 1 /\ in'[m][i] = in[n][i + 1]
        BY SMTT(60), <1>t, <2>1, <2>3, <2>5, <3>1
      <4> QED
        BY Zenon, <1>i, <2>1, <4>1 DEF OnInv
    <3>2. CASE m # n
      BY ZenonT(60), <2>1, <2>4, <2>5, <3>2
    <3> QED
      BY Zenon, <3>1, <3>2
  <2>6. ASSUME NEW m \in Conns, NEW i \in 1..Len(in'[m])
        PROVE  on'[in'[m][i]] = m /\ fiber'[in'[m][i]] = "none"
    BY SMTT(90), <1>t, <1>2, <2>4, <2>5, <2>6
  <2>7. ASSUME NEW m \in Conns, NEW i \in 1..Len(in'[m]), NEW j \in 1..Len(in'[m]),
               in'[m][i] = in'[m][j]
        PROVE  i = j
    BY SMTT(60), <1>i, <2>3, <2>7 DEF OnInv
  <2> QED
    BY Zenon, <2>2, <2>6, <2>7 DEF OnInv
<1>3. ASSUME NEW n \in Conns, BadPayload(n) \/ Dispatch(n) \/ DispatchNoRoute(n)
      PROVE  OnInv'
  BY Zenon, <1>2, <1>3 DEF BadPayload, Dispatch, EnterGate, DispatchNoRoute
<1>4. ASSUME NEW r \in Requests, Handle(r) \/ Finish(r)
      PROVE  OnInv'
  <2>1. UNCHANGED <<on, in>> /\ fiber[r] # "none" /\ \E x : fiber' = [fiber EXCEPT ![r] = x]
    BY Zenon, <1>4 DEF Handle, HandleThrows, NoDecompressor, HandleDone, Finish, Flush, FlushFails,
       Cleanup, envVars
  <2> QED
    BY Zenon, <1>0, <2>1
<1>5. ASSUME NEW n \in Conns, WriteBody(n) \/ WriteFails(n)
      PROVE  OnInv'
  <2>1. wq[n] # <<>> /\ wq[n] \in Seq(Requests)
    BY Zenon, <1>5 DEF TypeInv, LockInv, WriteBody, WriteFails, TypeOK, WriteTypes
  <2>2. Head(wq[n]) \in Requests /\ fiber[Head(wq[n])] = "writing"
    BY <2>1 DEF TypeInv, LockInv
  <2>3. UNCHANGED <<on, in>> /\ \E x : fiber' = [fiber EXCEPT ![Head(wq[n])] = x]
    BY Zenon, <1>5 DEF WriteBody, WriteFails, envVars
  <2> QED
    BY Zenon, <1>0, <2>2, <2>3
<1>6. CASE UNCHANGED <<on, in, fiber>>
  BY ZenonT(90), <1>i, <1>6 DEF OnInv
<1>7. CASE \/ Accept \/ AcceptFails \/ Admit \/ Stop \/ StopCloses \/ StopReturns
           \/ \E n \in Conns : PeerCloses(n) \/ ReadHeader(n) \/ BadHeader(n) \/ SessionThrows(n)
                              \/ WriteHeader(n)
  BY <1>6, <1>7, ZenonT(60) DEF Accept, AcceptFails, Admit, Stop, StopCloses, StopReturns,
     PeerCloses,
     ReadHeader, BadHeader, SessionThrows, WriteHeader, envVars
<1> QED
  BY <1>1, <1>3, <1>4, <1>5, <1>7, Zenon DEF Next, Session, Write

(* The fibers queued for serialize_writes are writing on the connection of *)
(* the queue, each is queued once, and the holder is queued.               *)
LEMMA LockNext ==
  ASSUME TypeInv, Next
  PROVE  LockInv'
<1>t. /\ on \in [Requests -> 0..MaxConns] /\ in \in [Conns -> Seq(Requests)]
      /\ wq \in [Conns -> Seq(Requests)] /\ half \in SUBSET Conns /\ DOMAIN fiber = Requests
  BY Zenon DEF TypeInv, TypeOK, EnvTypes, FiberTypes, WriteTypes
<1>i. LockInv
  BY Zenon DEF TypeInv
<1>q. ASSUME NEW n \in Conns, NEW i \in 1..Len(wq[n])
      PROVE  wq[n][i] \in Requests /\ on[wq[n][i]] = n /\ fiber[wq[n][i]] = "writing"
  BY <1>t, <1>i DEF LockInv
<1>0. ASSUME wq' = wq, half' \subseteq half, UNCHANGED on,
             fiber' = fiber \/ \E r \in Requests : \E x : fiber[r] # "writing" /\ fiber' = [fiber EXCEPT ![r] = x]
      PROVE  LockInv'
  <2>1. ASSUME NEW n \in Conns, NEW i \in 1..Len(wq[n])
        PROVE  on'[wq'[n][i]] = n /\ fiber'[wq'[n][i]] = "writing"
    BY <1>t, <1>q, <1>0, <2>1
  <2> QED
    BY ZenonT(60), <1>i, <1>0, <2>1 DEF LockInv
<1>1. ASSUME NEW n \in Conns, NEW r \in Requests, PeerSends(n, r)
      PROVE  LockInv'
  <2>1. on[r] = 0 /\ on' = [on EXCEPT ![r] = n] /\ UNCHANGED <<fiber, wq, half>>
    BY Zenon, <1>1 DEF PeerSends, writeVars
  <2>2. ASSUME NEW m \in Conns, NEW i \in 1..Len(wq[m])
        PROVE  on'[wq'[m][i]] = m /\ fiber'[wq'[m][i]] = "writing"
    <3>1. m # 0
      BY DEF Conns
    <3> QED
      BY ZenonT(60), <1>t, <1>q, <2>1, <2>2, <3>1
  <2> QED
    BY <1>i, <2>1, <2>2 DEF LockInv
<1>2. ASSUME NEW r \in Requests, HandleDone(r)
      PROVE  LockInv'
  <2>1. CASE on[r] \in error
    BY Zenon, <1>0, <1>2, <2>1 DEF HandleDone, envVars
  <2>2. CASE on[r] \notin error
    <3> DEFINE n == on[r]
    <3>1. /\ fiber[r] = "handling" /\ fiber' = [fiber EXCEPT ![r] = "writing"]
          /\ wq' = [wq EXCEPT ![n] = Append(wq[n], r)] /\ UNCHANGED <<half, on>>
      BY Zenon, <1>2, <2>2 DEF HandleDone, envVars
    <3>2. n \in Conns
      BY Zenon, <3>1 DEF TypeInv, OnInv
    <3>3. ASSUME NEW m \in Conns, NEW i \in 1..Len(wq'[m])
          PROVE  \/ m = n /\ i = Len(wq[n]) + 1 /\ wq'[m][i] = r
                 \/ i \in 1..Len(wq[m]) /\ wq'[m][i] = wq[m][i]
      BY SMTT(30), <1>t, <3>1, <3>2, <3>3
    <3>4. ASSUME NEW m \in Conns, NEW i \in 1..Len(wq'[m])
          PROVE  on'[wq'[m][i]] = m /\ fiber'[wq'[m][i]] = "writing"
      BY SMTT(30), <1>t, <1>q, <3>1, <3>3, <3>4
    <3>5. ASSUME NEW m \in Conns, NEW i \in 1..Len(wq'[m]), NEW j \in 1..Len(wq'[m]),
                 wq'[m][i] = wq'[m][j]
          PROVE  i = j
      BY SMTT(60), <1>i, <1>q, <3>1, <3>3, <3>5 DEF LockInv
    <3>6. Append(wq[n], r) # <<>>
      <4>1. wq[n] \in Seq(Requests)
        BY Zenon, <1>t, <3>2
      <4> HIDE DEF n
      <4> QED
        BY <4>1
    <3>7. \A m \in half' : wq'[m] # <<>>
      BY Zenon, <1>t, <1>i, <3>1, <3>2, <3>6 DEF LockInv
    <3> QED
      BY Zenon, <3>4, <3>5, <3>7 DEF LockInv
  <2> QED
    BY Zenon, <2>1, <2>2
<1>3. ASSUME NEW n \in Conns, WriteBody(n) \/ WriteFails(n)
      PROVE  LockInv'
  <2> DEFINE r == Head(wq[n])
  <2>1. /\ wq' = [wq EXCEPT ![n] = Tail(wq[n])] /\ half' = half \ {n} /\ on' = on
        /\ \E x : fiber' = [fiber EXCEPT ![r] = x]
    BY Zenon, <1>3 DEF WriteBody, WriteFails, envVars
  <2>2. wq[n] # <<>>
    BY Zenon, <1>3, <1>i DEF LockInv, WriteBody, WriteFails
  <2>3. 1 \in 1..Len(wq[n]) /\ r = wq[n][1] /\ r \in Requests /\ on[r] = n
    BY SMTT(30), <1>t, <1>q, <2>2
  <2> HIDE DEF r
  <2>4. ASSUME NEW m \in Conns, NEW i \in 1..Len(wq'[m])
        PROVE  \/ m # n /\ i \in 1..Len(wq[m]) /\ wq'[m][i] = wq[m][i]
               \/ m = n /\ i + 1 \in 1..Len(wq[m]) /\ i + 1 # 1 /\ wq'[m][i] = wq[m][i + 1]
    <3>1. CASE m = n
      BY SMTT(60), <1>t, <2>1, <2>2, <2>4, <3>1
    <3>2. CASE m # n
      BY ZenonT(60), <1>t, <2>1, <2>4, <3>2
    <3> QED
      BY Zenon, <3>1, <3>2
  <2>5. ASSUME NEW m \in Conns, NEW i \in 1..Len(wq'[m])
        PROVE  on'[wq'[m][i]] = m /\ fiber'[wq'[m][i]] = "writing"
    <3>1. PICK k \in 1..Len(wq[m]) : wq'[m][i] = wq[m][k] /\ (m = n => k # 1)
      BY ZenonT(60), <2>4, <2>5
    <3>2. wq[m][k] # r
      BY SMTT(60), <1>i, <1>q, <2>3, <3>1 DEF LockInv
    <3> QED
      BY SMTT(90), <1>t, <1>q, <2>1, <3>1, <3>2
  <2>6. ASSUME NEW m \in Conns, NEW i \in 1..Len(wq'[m]), NEW j \in 1..Len(wq'[m]),
               wq'[m][i] = wq'[m][j]
        PROVE  i = j
    BY SMTT(60), <1>i, <2>4, <2>6 DEF LockInv
  <2>7. \A m \in half' : wq'[m] # <<>>
    BY Zenon, <1>t, <1>i, <2>1 DEF LockInv
  <2> QED
    BY Zenon, <2>5, <2>6, <2>7 DEF LockInv
<1>4. ASSUME NEW n \in Conns, WriteHeader(n)
      PROVE  LockInv'
  <2>1. wq[n] # <<>> /\ half' = half \cup {n} /\ UNCHANGED <<wq, on, fiber>>
    BY Zenon, <1>4 DEF WriteHeader, envVars
  <2> QED
    BY <1>i, <2>1 DEF LockInv
<1>5. ASSUME NEW n \in Conns, Dispatch(n) \/ DispatchNoRoute(n)
      PROVE  LockInv'
  <2>1. in[n] # <<>> /\ Head(in[n]) \in Requests
    BY Zenon, <1>5, HeadRequest DEF Dispatch, DispatchNoRoute
  <2>2. fiber[Head(in[n])] = "none"
    BY SMTT(30), <1>t, <2>1 DEF TypeInv, OnInv
  <2> QED
    BY Zenon, <1>0, <1>5, <2>1, <2>2 DEF Dispatch, EnterGate, DispatchNoRoute, writeVars
<1>6. ASSUME NEW r \in Requests, HandleThrows(r) \/ NoDecompressor(r) \/ Finish(r)
      PROVE  LockInv'
  BY ZenonT(60), <1>0, <1>6 DEF HandleThrows, NoDecompressor, Finish, Flush, FlushFails, Cleanup,
     envVars,
     writeVars
<1>7. CASE UNCHANGED <<on, fiber, wq, half>>
  BY <1>i, <1>7 DEF LockInv
<1>8. CASE \/ Accept \/ AcceptFails \/ Admit \/ Stop \/ StopCloses \/ StopReturns
           \/ \E n \in Conns : PeerCloses(n) \/ ReadHeader(n) \/ BadHeader(n) \/ BadPayload(n)
                              \/ SessionThrows(n)
  BY <1>7, <1>8, ZenonT(60) DEF Accept, AcceptFails, Admit, Stop, StopCloses, StopReturns,
     PeerCloses,
     ReadHeader, BadHeader, BadPayload, SessionThrows, envVars, writeVars
<1> QED
  BY <1>1, <1>2, <1>3, <1>4, <1>5, <1>6, <1>8, Zenon DEF Next, Session, Write, Handle

(* The server starts with nothing read, dispatched or written.             *)
LEMMA InitTypes ==
  ASSUME Init
  PROVE  TypeInv
<1>1. TypeOK
  <2>0. StopTypes
    BY Zenon DEF Init, StopTypes
  <2>1. ConnTypes /\ SrvTypes
    BY ServerConstants DEF Init, ConnTypes, SrvTypes
  <2>2. ReaderTypes /\ FiberTypes
    BY Zenon DEF Init, ReaderTypes, FiberTypes
  <2>3. WriteTypes
    BY SMTT(60) DEF Init, WriteTypes
  <2>4. EnvTypes
    BY SMTT(60), ServerConstants DEF Init, EnvTypes
  <2>5. MemTypes
    BY SMTT(60), ServerConstants DEF Init, MemTypes
  <2> QED
    BY Zenon, <2>0, <2>1, <2>2, <2>3, <2>4, <2>5 DEF TypeOK
<1>2. ReadInv
  BY SMTT(60) DEF Init, ReadInv
<1>3. OnInv
  BY SMTT(60) DEF Init, OnInv
<1>4. LockInv
  BY DEF Init, LockInv
<1> QED
  BY Zenon, <1>1, <1>2, <1>3, <1>4 DEF TypeInv

(* Every step keeps the types and what the queues hold.                    *)
LEMMA StepTypes ==
  ASSUME TypeInv, [Next]_vars
  PROVE  TypeInv'
<1>1. CASE Next
  BY Zenon, <1>1, TypeNext, ReadNext, OnNext, LockNext DEF TypeInv
<1>2. CASE UNCHANGED vars
  <2>1. TypeOK'
    BY Zenon, <1>2, Frame DEF vars, TypeInv, TypeOK, connVars
  <2>2. ReadInv'
    BY ZenonT(60), <1>2 DEF vars, connVars, memVars, envVars, TypeInv, ReadInv
  <2>3. OnInv'
    BY SMTT(60), <1>2 DEF vars, envVars, TypeInv, OnInv
  <2>4. LockInv'
    BY <1>2 DEF vars, writeVars, envVars, TypeInv, LockInv
  <2> QED
    BY Zenon, <2>1, <2>2, <2>3, <2>4 DEF TypeInv
<1> QED
  BY Zenon, <1>1, <1>2

(* The types and the queues of the server are right in every state.        *)
THEOREM TypeInvariant == Spec => []TypeInv
  BY InitTypes, StepTypes, PTL DEF Spec

(* Every variable of the server has its type.                              *)
THEOREM TypeCorrect == Spec => []TypeOK
<1>1. TypeInv => TypeOK
  BY Zenon DEF TypeInv
<1> QED
  BY <1>1, TypeInvariant, PTL

-----------------------------------------------------------------------------
(* stop() has closed reply_gate_ and, once it has returned, no fiber is in *)
(* it.                                                                     *)
QuietInv ==
  /\ stopping \in {"gate", "done"} => gate_closed
  /\ stopping = "done" => \A r \in Requests : ~InGate(r)

(* Once stop() has returned no step moves a fiber or writes: a new request *)
(* is refused by the gate, and a write would need a fiber in the gate.     *)
LEMMA QuietStep ==
  ASSUME TypeInv, QuietInv, Next, stopping = "done"
  PROVE  UNCHANGED <<fiber, wire>>
<1>1. gate_closed /\ \A r \in Requests : ~InGate(r)
  BY Zenon DEF QuietInv
<1>2. \A n \in Conns : wq[n] = <<>>
  <2> SUFFICES ASSUME NEW n \in Conns, wq[n] # <<>>
               PROVE  FALSE
    BY Zenon
  <2>1. wq[n] \in Seq(Requests) /\ 1 \in 1..Len(wq[n])
    BY SMTT(60) DEF TypeInv, TypeOK, WriteTypes
  <2>2. wq[n][1] \in Requests /\ fiber[wq[n][1]] = "writing"
    BY <2>1 DEF TypeInv, LockInv
  <2> QED
    BY Zenon, <1>1, <2>2 DEF InGate
<1>3. \A n \in Conns : ~Write(n)
  BY Zenon, <1>2 DEF Write, WriteHeader, WriteBody, WriteFails, TypeInv, LockInv
<1>4. \A r \in Requests : ~Handle(r) /\ ~Finish(r)
  BY Zenon, <1>1 DEF InGate, Handle, HandleThrows, NoDecompressor, HandleDone, Finish, Flush,
     FlushFails,
     Cleanup
<1>5. ASSUME NEW n \in Conns, Session(n)
      PROVE  UNCHANGED <<fiber, wire>>
  BY Zenon, <1>1, <1>5 DEF Session, ReadHeader, BadHeader, BadPayload, Dispatch, EnterGate,
     DispatchNoRoute, SessionThrows, writeVars
<1>6. CASE \/ Accept \/ AcceptFails \/ Admit \/ Stop \/ StopCloses \/ StopReturns
           \/ \E n \in Conns : PeerCloses(n) \/ \E r \in Requests : PeerSends(n, r)
  BY <1>6, Zenon DEF Accept, AcceptFails, Admit, Stop, StopCloses, StopReturns, PeerCloses,
     PeerSends, writeVars
<1> QED
  BY <1>3, <1>4, <1>5, <1>6, Zenon DEF Next

(* The gate stays closed and empty.                                        *)
LEMMA QuietNext ==
  ASSUME TypeInv, QuietInv, [Next]_vars
  PROVE  QuietInv'
<1>1. CASE UNCHANGED <<stopping, gate_closed>>
  <2>1. stopping = "done" => fiber' = fiber
    BY Zenon, QuietStep DEF vars
  <2> QED
    BY Zenon, <1>1, <2>1 DEF QuietInv, InGate
<1>2. CASE Stop \/ StopCloses \/ StopReturns
  BY Zenon, <1>2 DEF Stop, StopCloses, StopReturns, QuietInv, InGate
<1>3. CASE \/ Accept \/ AcceptFails \/ Admit \/ UNCHANGED vars
           \/ \E n \in Conns : \/ PeerCloses(n) \/ Session(n) \/ Write(n)
                               \/ \E r \in Requests : PeerSends(n, r)
           \/ \E r \in Requests : Handle(r) \/ Finish(r)
  BY <1>1, <1>3, ZenonT(60) DEF Accept, AcceptFails, Admit, PeerCloses, PeerSends, Session,
     ReadHeader,
     BadHeader, BadPayload, Dispatch, DispatchNoRoute, SessionThrows, Write, WriteHeader, WriteBody,
     WriteFails, Handle, HandleThrows, NoDecompressor, HandleDone, Finish, Flush, FlushFails,
     Cleanup, stopVars, vars
<1> QED
  BY <1>2, <1>3, Zenon DEF Next

(* When stop() has returned no request starts or goes on and nothing is    *)
(* written, although readers are still running.                            *)
THEOREM StopIsQuiet == Spec => QuietAfterStop
<1>1. Init => QuietInv
  BY Zenon DEF Init, QuietInv
<1>2. TypeInv /\ QuietInv /\ [Next]_vars => QuietInv'
  BY Zenon, QuietNext
<1>3. TypeInv /\ QuietInv /\ [Next]_vars => [stopping = "done" => UNCHANGED <<fiber, wire>>]_vars
  BY Zenon, QuietStep
<1> QED
  BY <1>1, <1>2, <1>3, TypeInvariant, PTL DEF Spec, QuietAfterStop

-----------------------------------------------------------------------------
(* A table s over k accepted connections counts those that have left it.   *)
Counts(s, k) ==
  /\ s \in Tables /\ s.open \subseteq 1..k
  /\ s.bad_requests = Cardinality((1..k) \ s.open)

(* cleanup_dispatch_rpc counts the connection it erases, and only then.    *)
LEMMA CleanupCounts ==
  ASSUME SetsAreCounted, NEW s, NEW k \in Nat, Counts(s, k), NEW n, NEW err
  PROVE  Counts(cleanup_dispatch_rpc(s, n, err), k)
<1>1. cleanup_dispatch_rpc(s, n, err) \in Tables
  BY Zenon, CleanupTypes DEF Counts
<1>2. CASE n \in err /\ n \in s.open
  <2>1. (1..k) \ (s.open \ {n}) = ((1..k) \ s.open) \cup {n} /\ n \notin (1..k) \ s.open
    BY Zenon, <1>2 DEF Counts
  <2>2. IsFiniteSet((1..k) \ s.open)
    <3>1. IsFiniteSet(1..k)
      BY DEF SetsAreCounted, IntervalsAreFinite
    <3> QED
      BY Zenon, <3>1 DEF SetsAreCounted, SubsetsAreFinite
  <2>3. Cardinality((1..k) \ (s.open \ {n})) = Cardinality((1..k) \ s.open) + 1
    BY Zenon, <2>1, <2>2 DEF SetsAreCounted, CountsGrow
  <2>4. cleanup_dispatch_rpc(s, n, err) = Reap(s, n)
    BY Zenon, <1>2 DEF cleanup_dispatch_rpc
  <2> QED
    BY <1>1, <2>3, <2>4 DEF Counts, Reap
<1>3. CASE n \in err /\ n \notin s.open
  BY Zenon, <1>3 DEF cleanup_dispatch_rpc
<1>4. CASE n \notin err
  BY Zenon, <1>1, <1>4 DEF cleanup_dispatch_rpc, Complete, Counts
<1> QED
  BY Zenon, <1>2, <1>3, <1>4

(* Every step keeps the count of erased connections.                       *)
LEMMA CountsNext ==
  ASSUME SetsAreCounted, TypeInv, Counts(srv, connection_idx), [Next]_vars
  PROVE  Counts(srv, connection_idx)'
<1>t. connection_idx \in Nat
  BY DEF TypeInv, TypeOK, ConnTypes
<1>1. CASE UNCHANGED <<srv, connection_idx>>
  BY Zenon, <1>1 DEF Counts
<1>2. CASE connection_idx' = connection_idx /\ \E n, err : srv' = cleanup_dispatch_rpc(srv, n, err)
  BY Zenon, <1>t, <1>2, CleanupCounts
<1>3. CASE Accept
  <2>1. /\ connection_idx' = connection_idx + 1
        /\ srv' = [open |-> srv.open \cup {connection_idx + 1}, bad_requests |-> srv.bad_requests,
                   completed_requests |-> srv.completed_requests]
    BY ZenonT(60), <1>3 DEF Accept
  <2>2. (1..connection_idx') \ srv'.open = (1..connection_idx) \ srv.open
    BY SMTT(60), <1>t, <2>1 DEF Counts
  <2>3. connection_idx + 1 \in Conns
    BY SMTT(60), <1>t, <1>3, ServerConstants DEF Accept, Conns
  <2>4. srv' \in Tables /\ srv'.open \subseteq 1..connection_idx'
    BY SMTT(30), <1>t, <2>1, <2>3 DEF Counts, Tables
  <2> QED
    BY Zenon, <2>1, <2>2, <2>4 DEF Counts
<1>4. ASSUME NEW n \in Conns, BadHeader(n) \/ BadPayload(n) \/ DispatchNoRoute(n) \/ Dispatch(n)
      PROVE  Counts(srv, connection_idx)'
  BY Zenon, <1>1, <1>2, <1>4 DEF BadHeader, BadPayload, Dispatch, DispatchNoRoute, NextTurn,
     SessionEnds
<1>5. ASSUME NEW n \in Conns, SessionThrows(n)
      PROVE  Counts(srv, connection_idx)'
  <2>1. /\ connection_idx' = connection_idx
        /\ srv' = cleanup_dispatch_rpc(cleanup_dispatch_rpc(srv, n, error), n, error')
    BY Zenon, <1>5 DEF SessionThrows
  <2>2. Counts(cleanup_dispatch_rpc(srv, n, error), connection_idx)
    BY Zenon, <1>t, CleanupCounts
  <2> QED
    BY Zenon, <1>t, <2>1, <2>2, CleanupCounts
<1>6. ASSUME NEW r \in Requests, Cleanup(r)
      PROVE  Counts(srv, connection_idx)'
  BY Zenon, <1>2, <1>6 DEF Cleanup, connVars
<1>7. CASE \/ AcceptFails \/ Admit \/ UNCHANGED vars \/ Stop \/ StopCloses \/ StopReturns
           \/ \E n \in Conns : \/ PeerCloses(n) \/ ReadHeader(n) \/ Write(n)
                               \/ \E r \in Requests : PeerSends(n, r)
           \/ \E r \in Requests : Handle(r) \/ Flush(r) \/ FlushFails(r)
  BY <1>1, <1>7, ZenonT(60) DEF AcceptFails, Admit, Stop, StopCloses, StopReturns, PeerCloses,
     PeerSends,
     ReadHeader, Write, WriteHeader, WriteBody, WriteFails, Handle, HandleThrows, NoDecompressor,
     HandleDone, Flush, FlushFails, connVars, vars
<1> QED
  BY <1>3, <1>4, <1>5, <1>6, <1>7, Zenon DEF Next, Session, Finish

-----------------------------------------------------------------------------
(* A fiber comes to the last flush with its reply written, and to          *)
(* cleanup_dispatch_rpc with its reply written or on a connection with an  *)
(* error.                                                                  *)
ReplyInv ==
  \A r \in Requests :
    /\ fiber[r] = "flushing" => Replied(r)
    /\ fiber[r] \in {"cleanup", "done"} => Replied(r) \/ on[r] \in error

(* What is written stays written.                                          *)
LEMMA RepliedStays ==
  ASSUME TypeInv, Next, NEW r \in Requests, Replied(r)
  PROVE  Replied(r)'
<1>t. wire \in [Conns -> Seq(Parts)]
  BY Zenon DEF TypeInv, TypeOK, WriteTypes
<1>0. PICK n \in Conns : \E i \in 1..Len(wire[n]) : wire[n][i] = <<"body", r>>
  BY Zenon DEF Replied
<1>1. PICK i \in 1..Len(wire[n]) : wire[n][i] = <<"body", r>>
  BY Zenon, <1>0
<1>2. CASE wire' = wire
  BY Zenon, <1>1, <1>2 DEF Replied
<1>3. ASSUME NEW m \in Conns, NEW p, wire' = [wire EXCEPT ![m] = Append(wire[m], p)]
      PROVE  Replied(r)'
  <2>1. wire'[n] = wire[n] \/ wire'[n] = Append(wire[n], p)
    BY Zenon, <1>t, <1>3
  <2>2. i \in 1..Len(wire'[n]) /\ wire'[n][i] = wire[n][i]
    BY SMTT(90), <1>t, <2>1
  <2> QED
    BY Zenon, <1>1, <2>2 DEF Replied
<1>4. ASSUME NEW m \in Conns, Write(m)
      PROVE  Replied(r)'
  BY Zenon, <1>2, <1>3, <1>4 DEF Write, WriteHeader, WriteBody, WriteFails
<1>5. CASE \/ Accept \/ AcceptFails \/ Admit \/ Stop \/ StopCloses \/ StopReturns
           \/ \E m \in Conns : \/ PeerCloses(m) \/ Session(m) \/ \E q \in Requests : PeerSends(m, q)
           \/ \E q \in Requests : Handle(q) \/ Finish(q)
  BY <1>2, <1>5, ZenonT(60) DEF Accept, AcceptFails, Admit, Stop, StopCloses, StopReturns, PeerCloses,
     PeerSends, Session, ReadHeader, BadHeader, BadPayload, Dispatch, DispatchNoRoute,
     SessionThrows, Handle, HandleThrows, NoDecompressor, HandleDone, Finish, Flush, FlushFails,
     Cleanup, writeVars
<1> QED
  BY <1>4, <1>5, Zenon DEF Next

(* A connection keeps its error, a request with a fiber its connection.    *)
LEMMA ErrorStays ==
  ASSUME TypeInv, Next
  PROVE  /\ error \subseteq error'
         /\ \A r \in Requests : fiber[r] # "none" => on'[r] = on[r]
<1>1. error' = error \/ \E n : error' = error \cup {n}
  BY NextCases, Zenon DEF Accept, AcceptFails, Admit, Stop, StopCloses, StopReturns, PeerCloses,
     PeerSends, ReadHeader, BadHeader, BadPayload, Dispatch, NextTurn, SessionEnds,
     DispatchNoRoute, SessionThrows, WriteHeader, WriteBody, WriteFails, HandleThrows,
     NoDecompressor, HandleDone, Flush, FlushFails, Cleanup, connVars
<1>2. ASSUME NEW n \in Conns, NEW q \in Requests, PeerSends(n, q)
      PROVE  \A r \in Requests : fiber[r] # "none" => on'[r] = on[r]
  BY <1>2 DEF PeerSends, TypeInv, OnInv, Conns, TypeOK, EnvTypes
<1>3. (\E n \in Conns, q \in Requests : PeerSends(n, q)) \/ on' = on
  BY NextCases, ZenonT(60) DEF Accept, AcceptFails, Admit, Stop, StopCloses, StopReturns, PeerCloses,
     ReadHeader, BadHeader, BadPayload, Dispatch, DispatchNoRoute, SessionThrows, WriteHeader,
     WriteBody, WriteFails, HandleThrows, NoDecompressor, HandleDone, Flush, FlushFails, Cleanup,
     envVars
<1> QED
  BY Zenon, <1>1, <1>2, <1>3

(* Every step keeps the replies of the fibers that are past them.          *)
LEMMA ReplyNext ==
  ASSUME TypeInv, ReplyInv, [Next]_vars
  PROVE  ReplyInv'
<1>t. \A r \in Requests : \A x : [fiber EXCEPT ![r] = x] = [q \in Requests |-> IF q = r THEN x ELSE fiber[q]]
  BY Zenon DEF TypeInv, TypeOK, FiberTypes
<1>k. ASSUME Next, NEW r \in Requests, fiber[r] # "none"
      PROVE  (Replied(r) => Replied(r)') /\ (on[r] \in error => on'[r] \in error')
  BY Zenon, <1>k, RepliedStays, ErrorStays
<1>1. ASSUME Next, fiber' = fiber
      PROVE  ReplyInv'
  BY Zenon, <1>k, <1>1 DEF ReplyInv
<1>2. ASSUME Next, NEW r \in Requests, NEW x, fiber' = [fiber EXCEPT ![r] = x],
             x = "flushing" => Replied(r)',
             x \in {"cleanup", "done"} => Replied(r)' \/ on'[r] \in error'
      PROVE  ReplyInv'
  <2>1. fiber' = [q \in Requests |-> IF q = r THEN x ELSE fiber[q]]
    BY Zenon, <1>t, <1>2
  <2>2. fiber'[r] = x /\ \A q \in Requests : q # r => fiber'[q] = fiber[q]
    BY Zenon, <2>1
  <2> QED
    BY Zenon, <1>k, <1>2, <2>2 DEF ReplyInv
<1>3. ASSUME Next, NEW r \in Requests, HandleThrows(r) \/ FlushFails(r)
      PROVE  ReplyInv'
  BY Zenon, <1>2, <1>3 DEF HandleThrows, FlushFails
<1>4. ASSUME Next, NEW r \in Requests, NoDecompressor(r)
      PROVE  ReplyInv'
  <2>1. on'[r] \in error' /\ fiber' = [fiber EXCEPT ![r] = "cleanup"]
    BY Zenon, <1>4 DEF NoDecompressor, envVars
  <2> QED
    BY Zenon, <1>2, <1>4, <2>1
<1>5. ASSUME Next, NEW r \in Requests, HandleDone(r)
      PROVE  ReplyInv'
  BY Zenon, <1>2, <1>5 DEF HandleDone, connVars, envVars
<1>6. ASSUME Next, NEW r \in Requests, Flush(r) \/ Cleanup(r)
      PROVE  ReplyInv'
  <2>1. fiber[r] \in {"flushing", "cleanup"}
        /\ \E x \in {"cleanup", "done"} : fiber' = [fiber EXCEPT ![r] = x]
    BY Zenon, <1>6 DEF Flush, Cleanup
  <2>2. Replied(r)' \/ on'[r] \in error'
    BY Zenon, <1>k, <1>6, <2>1 DEF ReplyInv
  <2> QED
    BY Zenon, <1>2, <1>6, <2>1, <2>2
<1>7. ASSUME Next, NEW n \in Conns, WriteBody(n)
      PROVE  ReplyInv'
  <2>1. wq[n] # <<>>
    BY Zenon, <1>7 DEF TypeInv, LockInv, WriteBody
  <2>2. PICK r \in Requests : r = Head(wq[n])
    BY Zenon, <2>1, HeadWriter
  <2>3. /\ wire' = [wire EXCEPT ![n] = Append(wire[n], <<"body", r>>)]
        /\ fiber' = [fiber EXCEPT ![r] = "flushing"]
    BY Zenon, <1>7, <2>2 DEF WriteBody
  <2>4. wire[n] \in Seq(Parts) /\ wire'[n] = Append(wire[n], <<"body", r>>)
    BY Zenon, <2>3 DEF TypeInv, TypeOK, WriteTypes
  <2>5. Len(wire[n]) + 1 \in 1..Len(wire'[n]) /\ wire'[n][Len(wire[n]) + 1] = <<"body", r>>
    BY <2>4
  <2>6. Replied(r)'
    BY Zenon, <2>5 DEF Replied
  <2> QED
    BY Zenon, <1>2, <1>7, <2>3, <2>6
<1>8. ASSUME Next, NEW n \in Conns, WriteFails(n)
      PROVE  ReplyInv'
  <2>1. Head(wq[n]) \in Requests
    BY Zenon, <1>8, HeadWriter DEF WriteFails
  <2> QED
    BY Zenon, <1>2, <1>8, <2>1 DEF WriteFails
<1>9. ASSUME Next, NEW n \in Conns, Dispatch(n)
      PROVE  ReplyInv'
  <2>1. Head(in[n]) \in Requests
    BY Zenon, <1>9, HeadRequest DEF Dispatch
  <2>2. EnterGate(Head(in[n]))
    BY Zenon, <1>9 DEF Dispatch
  <2> QED
    BY Zenon, <1>1, <1>2, <1>9, <2>1, <2>2 DEF EnterGate
<1>10. ASSUME Next, NEW n \in Conns, DispatchNoRoute(n)
       PROVE  ReplyInv'
  <2>1. Head(in[n]) \in Requests /\ on[Head(in[n])] = n
    BY Zenon, <1>10, HeadRequest DEF DispatchNoRoute
  <2>2. on'[Head(in[n])] \in error' /\ fiber' = [fiber EXCEPT ![Head(in[n])] = "cleanup"]
    BY Zenon, <1>10, <2>1 DEF DispatchNoRoute, SessionEnds
  <2> QED
    BY Zenon, <1>2, <1>10, <2>1, <2>2
<1>11. CASE \/ Accept \/ AcceptFails \/ Admit \/ Stop \/ StopCloses \/ StopReturns
            \/ \E n \in Conns : \/ PeerCloses(n) \/ ReadHeader(n) \/ BadHeader(n) \/ BadPayload(n)
                                \/ SessionThrows(n) \/ WriteHeader(n)
                                \/ \E r \in Requests : PeerSends(n, r)
  <2>1. fiber' = fiber
    BY <1>11, Zenon DEF Accept, AcceptFails, Admit, Stop, StopCloses, StopReturns, PeerCloses,
       PeerSends, ReadHeader, BadHeader, BadPayload, SessionThrows, WriteHeader
  <2>2. Next
    BY <1>11, Zenon DEF Next, Session, Write
  <2> QED
    BY Zenon, <1>1, <2>1, <2>2
<1>12. CASE UNCHANGED vars
  BY Zenon, <1>12 DEF vars, connVars, writeVars, envVars, ReplyInv, Replied
<1> QED
  BY <1>3, <1>4, <1>5, <1>6, <1>7, <1>8, <1>9, <1>10, <1>11, <1>12, NextCases, Zenon

(* A request whose fiber ends without an exception was answered, unless    *)
(* its connection has an error.                                            *)
THEOREM EndsReplied == Spec => []DoneMeansReplied
<1>1. Init => ReplyInv
  BY Zenon DEF Init, ReplyInv
<1>2. TypeInv /\ ReplyInv /\ [Next]_vars => ReplyInv'
  BY Zenon, ReplyNext
<1>3. ReplyInv => DoneMeansReplied
  BY Zenon DEF ReplyInv, DoneMeansReplied
<1> QED
  BY <1>1, <1>2, <1>3, TypeInvariant, PTL DEF Spec


-----------------------------------------------------------------------------
(* Replies are framed on every connection.  A connection whose last part   *)
(* is a header is one on which the head of serialize_writes is half way,   *)
(* or a write on it has failed and none succeeds again.                    *)
FrameInv ==
  \A n \in Conns :
    /\ Framed(wire[n])
    /\ Len(wire[n]) % 2 = 1 => n \in half \cup broken
    /\ n \in half => Len(wire[n]) % 2 = 1 /\ wire[n][Len(wire[n])][2] = Head(wq[n])

(* Every step keeps the connections framed.                                *)
LEMMA FrameNext ==
  ASSUME FramesGrow(Requests), TypeInv, FrameInv, [Next]_vars
  PROVE  FrameInv'
<1>p. Parts = PartsOf(Requests)
  BY Zenon DEF Parts, PartsOf
<1>t. /\ wire \in [Conns -> Seq(PartsOf(Requests))] /\ wq \in [Conns -> Seq(Requests)]
      /\ half \in SUBSET Conns /\ \A n \in half : wq[n] # <<>>
  BY Zenon, <1>p DEF TypeInv, TypeOK, WriteTypes, LockInv
<1>1. CASE UNCHANGED <<wq, half, wire>> /\ broken' = broken
  BY <1>1, Zenon DEF FrameInv
<1>2. ASSUME NEW r \in Requests, HandleDone(r)
      PROVE  FrameInv'
  <2>1. UNCHANGED <<half, wire, broken>> /\ (wq' = wq \/ wq' = [wq EXCEPT ![on[r]] = Append(wq[on[r]], r)])
    BY Zenon, <1>2 DEF HandleDone, connVars
  <2>2. ASSUME NEW n \in half
        PROVE  Head(wq'[n]) = Head(wq[n])
    <3>1. wq[n] \in Seq(Requests) /\ wq[n] # <<>>
      BY Zenon, <1>t
    <3>2. wq'[n] = wq[n] \/ wq'[n] = Append(wq[n], r)
      BY Zenon, <1>t, <2>1
    <3> QED
      BY <3>1, <3>2
  <2> QED
    BY Zenon, <2>1, <2>2 DEF FrameInv
<1>3. ASSUME NEW n \in Conns, WriteHeader(n)
      PROVE  FrameInv'
  <2>1. /\ wq[n] # <<>> /\ n \notin half /\ n \notin broken /\ half' = half \cup {n}
        /\ wire' = [wire EXCEPT ![n] = Append(wire[n], <<"header", Head(wq[n])>>)]
        /\ UNCHANGED <<wq, broken>>
    BY Zenon, <1>3 DEF WriteHeader, Writable, connVars
  <2>2. PICK w \in Seq(PartsOf(Requests)), r \in Requests :
          w = wire[n] /\ r = Head(wq[n]) /\ Framed(w) /\ Len(w) % 2 = 0
    <3>1. /\ wire[n] \in Seq(PartsOf(Requests)) /\ Head(wq[n]) \in Requests
          /\ Framed(wire[n]) /\ Len(wire[n]) % 2 # 1
      BY Zenon, <1>t, <2>1, HeadWriter DEF FrameInv
    <3>2. Len(wire[n]) \in Nat /\ \A k \in Nat : k % 2 # 1 => k % 2 = 0
      BY <3>1
    <3> QED
      BY Zenon, <3>1, <3>2
  <2>3. PICK v \in Seq(PartsOf(Requests)) : /\ v = Append(w, <<"header", r>>)
                                /\ Framed(v) /\ Len(v) % 2 = 1 /\ v[Len(v)][2] = r
    BY Zenon, <2>2 DEF FramesGrow
  <2>4. wire'[n] = v /\ \A m \in Conns \ {n} : wire'[m] = wire[m]
    BY Zenon, <1>t, <2>1, <2>2, <2>3
  <2> QED
    BY Zenon, <2>1, <2>2, <2>3, <2>4 DEF FrameInv
<1>4. ASSUME NEW n \in Conns, WriteBody(n)
      PROVE  FrameInv'
  <2>1. /\ n \in half /\ half' = half \ {n} /\ wq' = [wq EXCEPT ![n] = Tail(@)]
        /\ wire' = [wire EXCEPT ![n] = Append(wire[n], <<"body", Head(wq[n])>>)]
        /\ broken' = broken
    BY Zenon, <1>4 DEF WriteBody, connVars
  <2>2. PICK w \in Seq(PartsOf(Requests)), r \in Requests :
          w = wire[n] /\ r = Head(wq[n]) /\ Framed(w) /\ Len(w) % 2 = 1 /\ w[Len(w)][2] = r
    BY Zenon, <1>t, <2>1, HeadWriter DEF FrameInv
  <2>3. PICK v \in Seq(PartsOf(Requests)) : v = Append(w, <<"body", r>>) /\ Framed(v) /\ Len(v) % 2 = 0
    BY Zenon, <2>2 DEF FramesGrow
  <2>4. wire'[n] = v /\ \A m \in Conns \ {n} : wire'[m] = wire[m] /\ wq'[m] = wq[m]
    BY Zenon, <1>t, <2>1, <2>2, <2>3
  <2>5. Framed(wire'[n]) /\ Len(wire'[n]) % 2 = 0 /\ n \notin half'
    BY Zenon, <2>1, <2>3, <2>4
  <2>6. \A m \in Conns \ {n} : wire'[m] = wire[m] /\ wq'[m] = wq[m] /\ (m \in half' <=> m \in half)
    BY Zenon, <2>1, <2>4
  <2>7. Len(wire'[n]) % 2 # 1
    BY <2>3, <2>4
  <2>8. ASSUME NEW m \in Conns \ {n}
        PROVE  /\ Framed(wire'[m])
               /\ Len(wire'[m]) % 2 = 1 => m \in half' \cup broken'
               /\ m \in half' => Len(wire'[m]) % 2 = 1 /\ wire'[m][Len(wire'[m])][2] = Head(wq'[m])
    <3>1. wire'[m] = wire[m] /\ wq'[m] = wq[m] /\ (m \in half' <=> m \in half) /\ broken' = broken
      BY Zenon, <2>1, <2>6
    <3> QED
      BY Zenon, <3>1 DEF FrameInv
  <2> QED
    BY Zenon, <2>5, <2>7, <2>8 DEF FrameInv
<1>5. ASSUME NEW n \in Conns, WriteFails(n)
      PROVE  FrameInv'
  <2>1. /\ half' = half \ {n} /\ broken' = broken \cup {n} /\ wire' = wire
        /\ wq' = [wq EXCEPT ![n] = Tail(@)]
    BY Zenon, <1>5 DEF WriteFails
  <2>2. \A m \in Conns \ {n} : wq'[m] = wq[m]
    BY Zenon, <1>t, <2>1
  <2> QED
    BY Zenon, <2>1, <2>2 DEF FrameInv
<1>6. CASE \/ Accept \/ AcceptFails \/ Admit \/ Stop \/ StopCloses \/ StopReturns \/ UNCHANGED vars
           \/ \E n \in Conns : \/ PeerCloses(n) \/ Session(n) \/ \E r \in Requests : PeerSends(n, r)
           \/ \E r \in Requests : HandleThrows(r) \/ NoDecompressor(r) \/ Finish(r)
  BY <1>1, <1>6, ZenonT(60) DEF Accept, AcceptFails, Admit, Stop, StopCloses, StopReturns,
     PeerCloses,
     PeerSends, Session, ReadHeader, BadHeader, BadPayload, Dispatch, DispatchNoRoute,
     SessionThrows, HandleThrows, NoDecompressor, Finish, Flush, FlushFails, Cleanup, connVars,
     writeVars, vars
<1> QED
  BY <1>2, <1>3, <1>4, <1>5, <1>6, Zenon DEF Next, Write, Handle

-----------------------------------------------------------------------------
(* Every unit of memory is free, held or lost.  The fibers in the gate     *)
(* hold the sizes of their requests, the readers of a body that of the     *)
(* request they read.  dispatch_rpc returns a size as an int32_t, so the   *)
(* requests that the semaphore can admit must be smaller than 2^31.        *)

Admissible == \A r \in Requests : Size[r] <= Memory => Size[r] < Int32Half

Gated == {r \in Requests : InGate(r)}
Reading == [n \in Conns |-> IF reader[n] = "payload" THEN Size[Head(in[n])] ELSE 0]
FiberUnits == SumFunctionOnSet(Size, Gated)
ReaderUnits == SumFunctionOnSet(Reading, Conns)

UnitsInv ==
  /\ IsFiniteSet(Gated)
  /\ avail + (FiberUnits + ReaderUnits) + lost = Memory
  /\ \A r \in Gated : Size[r] < Int32Half
  /\ \A n \in Conns : reader[n] = "payload" => Size[Head(in[n])] < Int32Half

(* What a sum over a finite set does when an element or a value changes.   *)
SumsAreNatural ==
  \A S, f : IsFiniteSet(S) /\ (\A y \in S : f[y] \in Nat) => SumFunctionOnSet(f, S) \in Nat

SumsGrow ==
  \A S, f, x : IsFiniteSet(S) /\ x \notin S /\ (\A y \in S \cup {x} : f[y] \in Nat) =>
    SumFunctionOnSet(f, S \cup {x}) = f[x] + SumFunctionOnSet(f, S)

SumsShrink ==
  \A S, f : IsFiniteSet(S) /\ (\A y \in S : f[y] \in Nat) =>
    \A x \in S : SumFunctionOnSet(f, S) = f[x] + SumFunctionOnSet(f, S \ {x})

SumsChange ==
  \A S, f, e : IsFiniteSet(S) /\ (\A y \in S : f[y] \in Nat /\ e[y] \in Nat) =>
    \A x \in S : (\A y \in S \ {x} : f[y] = e[y]) =>
      SumFunctionOnSet(e, S) = SumFunctionOnSet(f, S) - f[x] + e[x]

SumsAddUp == SumsAreNatural /\ SumsGrow /\ SumsShrink /\ SumsChange

ReadingTyped == \A n \in Conns : Reading[n] \in Nat

(* What the readers hold are natural numbers.                              *)
LEMMA ReadingTypes == TypeInv => ReadingTyped
<1> SUFFICES ASSUME TypeInv, NEW n \in Conns PROVE Reading[n] \in Nat
  BY Zenon DEF ReadingTyped
<1>1. CASE reader[n] = "payload"
  BY Zenon, <1>1, HeadRequest DEF Reading
<1> QED
  BY Zenon, <1>1 DEF Reading

(* What the fibers and the readers hold are natural numbers.               *)
LEMMA HeldTypes ==
  ASSUME SetsAreCounted, SumsAddUp, TypeInv, IsFiniteSet(Gated)
  PROVE  FiberUnits \in Nat /\ ReaderUnits \in Nat
<1>1. \A r \in Gated : Size[r] \in Nat
  BY ServerConstants DEF Gated
<1>2. IsFiniteSet(Conns)
  BY ServerConstants DEF Conns, SetsAreCounted, IntervalsAreFinite
<1>3. \A n \in Conns : Reading[n] \in Nat
  BY Zenon, ReadingTypes DEF ReadingTyped
<1> QED
  BY Zenon, <1>1, <1>2, <1>3 DEF FiberUnits, ReaderUnits, SumsAddUp, SumsAreNatural

(* A request enters the gate, or leaves it, with its units.                *)
LEMMA FiberMoves ==
  ASSUME SetsAreCounted, SumsAddUp, IsFiniteSet(Gated), NEW r \in Requests
  PROVE  /\ r \notin Gated /\ Gated' = Gated \cup {r} =>
              IsFiniteSet(Gated') /\ FiberUnits' = FiberUnits + Size[r]
         /\ r \in Gated /\ Gated' = Gated \ {r} =>
              IsFiniteSet(Gated') /\ FiberUnits' = FiberUnits - Size[r]
<1>s. \A e \in Requests : Size[e] \in Nat
  BY ServerConstants
<1>g. Gated \subseteq Requests
  BY Zenon DEF Gated
<1>n. FiberUnits \in Nat
  BY Zenon, <1>s, <1>g DEF FiberUnits, SumsAddUp, SumsAreNatural
<1>1. CASE r \notin Gated /\ Gated' = Gated \cup {r}
  <2>1. IsFiniteSet(Gated')
    BY Zenon, <1>1 DEF SetsAreCounted, CountsGrow
  <2>2. SumFunctionOnSet(Size, Gated \cup {r}) = Size[r] + SumFunctionOnSet(Size, Gated)
    <3>1. \A y \in Gated \cup {r} : Size[y] \in Nat
      BY Zenon, <1>s, <1>g
    <3> QED
      BY Zenon, <1>1, <3>1 DEF SumsAddUp, SumsGrow
  <2> QED
    BY <1>1, <1>s, <1>n, <2>1, <2>2 DEF FiberUnits
<1>2. CASE r \in Gated /\ Gated' = Gated \ {r}
  <2>1. IsFiniteSet(Gated \ {r})
    BY Zenon DEF SetsAreCounted, SubsetsAreFinite
  <2>2. SumFunctionOnSet(Size, Gated) = Size[r] + SumFunctionOnSet(Size, Gated \ {r})
    BY Zenon, <1>2, <1>s, <1>g DEF SumsAddUp, SumsShrink
  <2>3. FiberUnits' = SumFunctionOnSet(Size, Gated \ {r})
    BY Zenon, <1>2 DEF FiberUnits
  <2>4. FiberUnits' \in Nat
    BY Zenon, <1>s, <1>g, <1>2, <2>1, <2>3 DEF SumsAddUp, SumsAreNatural
  <2>5. FiberUnits = Size[r] + FiberUnits'
    BY Zenon, <2>2, <2>3 DEF FiberUnits
  <2>6. FiberUnits' = FiberUnits - Size[r]
    BY SMTT(30), <1>s, <2>4, <2>5
  <2> QED
    BY Zenon, <1>2, <2>1, <2>6
<1> QED
  BY Zenon, <1>1, <1>2

(* A reader takes units or hands them on.                                  *)
LEMMA ReaderMoves ==
  ASSUME SetsAreCounted, SumsAddUp, TypeInv, TypeInv', NEW n \in Conns,
         \A m \in Conns \ {n} : Reading'[m] = Reading[m]
  PROVE  ReaderUnits' = ReaderUnits - Reading[n] + Reading'[n]
<1>1. IsFiniteSet(Conns)
  BY ServerConstants DEF Conns, SetsAreCounted, IntervalsAreFinite
<1>2. ReadingTyped /\ ReadingTyped'
  BY ReadingTypes, PTL
<1>3. \A m \in Conns : Reading[m] \in Nat /\ Reading'[m] \in Nat
  BY Zenon, <1>2 DEF ReadingTyped
<1> QED
  BY <1>1, <1>3 DEF ReaderUnits, SumsAddUp, SumsChange

(* Units move between the places where they are.                           *)
LEMMA Balance ==
  ASSUME NEW a \in Int, NEW f \in Int, NEW h \in Int, NEW l \in Int, NEW s \in Int
  PROVE  /\ (a + s) + ((f - s) + h) + l = a + (f + h) + l
         /\ a + ((f + s) + (h - s)) + l = a + (f + h) + l
         /\ (a - s) + (f + (h - 0 + s)) + l = a + (f + h) + l
         /\ (a + s) + (f + (h - s)) + l = a + (f + h) + l
         /\ a + (f + (h - s)) + (l + s) = a + (f + h) + l
  OBVIOUS

(* Every step accounts for the units it moves.                             *)
LEMMA UnitsNext ==
  ASSUME SetsAreCounted, SumsAddUp, Admissible, TypeInv, TypeInv', UnitsInv, [Next]_vars
  PROVE  UnitsInv'
<1>t. /\ fiber \in [Requests -> {"none", "handling", "writing", "flushing", "cleanup",
                                 "done", "threw", "failed"}]
      /\ reader \in [Conns -> {"off", "header", "memory", "payload", "done"}]
      /\ avail \in Int /\ lost \in Nat /\ memq \in Seq(Conns) /\ Memory \in Nat
      /\ in \in [Conns -> Seq(Requests)]
  BY Zenon, ServerConstants DEF TypeInv, TypeOK, FiberTypes, ReaderTypes, MemTypes, EnvTypes
<1>s. \A r \in Requests : Size[r] \in Nat /\ (Size[r] < Int32Half => AsInt32(Size[r]) = Size[r])
  BY ServerConstants DEF AsInt32
<1>h. FiberUnits \in Nat /\ ReaderUnits \in Nat
  BY Zenon, HeldTypes DEF UnitsInv
<1>u. avail + (FiberUnits + ReaderUnits) + lost = Memory
  BY Zenon DEF UnitsInv
<1>i. avail \in Int /\ lost \in Int /\ FiberUnits \in Int /\ ReaderUnits \in Int
  BY <1>t, <1>h
<1> DEFINE Small == \A n \in Conns : reader[n] = "payload" => Size[Head(in[n])] < Int32Half
           Kept == Gated' = Gated /\ UNCHANGED <<avail, lost>>
           Still == ReaderUnits' = ReaderUnits /\ Small'
<1>k. Gated' = Gated => FiberUnits' = FiberUnits
  BY Zenon DEF FiberUnits
<1>f. (\A r \in Requests : InGate(r)' <=> InGate(r)) => Gated' = Gated
  BY Zenon DEF Gated
<1>r. UNCHANGED <<reader, in>> => Still
  BY Zenon DEF UnitsInv, ReaderUnits, Reading
<1>q. Kept /\ Still => UnitsInv'
  BY Zenon, <1>k DEF UnitsInv
<1>1. CASE UNCHANGED <<fiber, reader, in, avail, lost>>
  BY Zenon, <1>1, <1>f, <1>r, <1>q DEF InGate
<1>2. ASSUME NEW r \in Requests, NEW p \in {"handling", "writing", "flushing", "cleanup"},
             InGate(r), fiber' = [fiber EXCEPT ![r] = p], UNCHANGED <<reader, in, avail, lost>>
      PROVE  UnitsInv'
  <2>1. Gated' = Gated
    BY Zenon, <1>2, <1>t, <1>f DEF InGate
  <2> QED
    BY Zenon, <2>1, <1>2, <1>r, <1>q
<1>3. ASSUME NEW r \in Requests, NEW p \in {"done", "threw", "failed"}, InGate(r),
             fiber' = [fiber EXCEPT ![r] = p], avail' = Signalled(r), UNCHANGED <<reader, in, lost>>
      PROVE  UnitsInv'
  <2>1. r \in Gated /\ Gated' = Gated \ {r}
    BY Zenon, <1>3, <1>t DEF Gated, InGate
  <2>2. IsFiniteSet(Gated') /\ FiberUnits' = FiberUnits - Size[r]
    BY Zenon, <2>1, FiberMoves DEF UnitsInv
  <2>3. Size[r] \in Nat /\ avail' = avail + Size[r]
    BY Zenon, <1>3, <1>s, <2>1 DEF Signalled, UnitsInv
  <2>4. Still
    BY Zenon, <1>3, <1>r
  <2>5. avail' + (FiberUnits' + ReaderUnits') + lost' = Memory
    <3>1. lost' = lost /\ ReaderUnits' = ReaderUnits
      BY ZenonT(60), <1>3, <2>4
    <3>2. (avail + Size[r]) + ((FiberUnits - Size[r]) + ReaderUnits) + lost
            = avail + (FiberUnits + ReaderUnits) + lost
      BY <2>3, <1>i, Balance
    <3> QED
      BY Zenon, <3>1, <3>2, <2>2, <2>3, <1>u
  <2>6. \A e \in Gated' : Size[e] < Int32Half
    BY Zenon, <2>1 DEF UnitsInv
  <2> QED
    BY Zenon, <2>2, <2>4, <2>5, <2>6 DEF UnitsInv
(* A reader that is at no body does nothing to the units.                  *)
<1>4. ASSUME NEW n \in Conns, NEW p \in {"header", "memory", "done"}, reader[n] # "payload",
             reader' = [reader EXCEPT ![n] = p], UNCHANGED in
      PROVE  Still
  <2>1. Reading' = Reading
    BY Zenon, <1>4, <1>t DEF Reading
  <2>2. Small'
    BY Zenon, <1>4, <1>t DEF UnitsInv
  <2> QED
    BY Zenon, <2>1, <2>2 DEF ReaderUnits
(* A reader that leaves a body behind hands its units on.                  *)
<1>5. ASSUME NEW n \in Conns, NEW p \in {"header", "done"}, reader[n] = "payload",
             reader' = [reader EXCEPT ![n] = p],
             in' \in {in, [in EXCEPT ![n] = Tail(@)]}
      PROVE  ReaderUnits' = ReaderUnits - Size[Head(in[n])] /\ Small'
  <2>1. \A m \in Conns \ {n} : in'[m] = in[m] /\ reader'[m] = reader[m]
    BY Zenon, <1>5, <1>t
  <2>2. \A m \in Conns \ {n} : Reading'[m] = Reading[m]
    BY Zenon, <2>1 DEF Reading
  <2>3. Reading[n] = Size[Head(in[n])] /\ Reading'[n] = 0
    BY Zenon, <1>5, <1>t DEF Reading
  <2>4. ReaderUnits' = ReaderUnits - Size[Head(in[n])] + 0
    BY Zenon, <2>2, <2>3, ReaderMoves
  <2>5. Size[Head(in[n])] \in Nat
    BY Zenon, <1>5, HeadRequest
  <2>6. Small'
    BY Zenon, <2>1, <1>5, <1>t DEF UnitsInv
  <2> QED
    BY <2>4, <2>5, <2>6, <1>h
(* The fiber of a request whose body was read enters the gate.             *)
<1>6. ASSUME NEW n \in Conns, NEW p \in {"header", "done"}, NEW q \in {"handling", "cleanup"},
             reader[n] = "payload", reader' = [reader EXCEPT ![n] = p],
             in' = [in EXCEPT ![n] = Tail(@)],
             fiber' = [fiber EXCEPT ![Head(in[n])] = q], UNCHANGED <<avail, lost>>
      PROVE  UnitsInv'
  <2> DEFINE r == Head(in[n])
  <2>1. r \in Requests
    BY Zenon, <1>6, HeadRequest
  <2>2. fiber[r] = "none"
    BY Zenon, <1>6, HeadRequest
  <2>3. Size[r] < Int32Half /\ Size[r] \in Nat
    BY Zenon, <1>6, <1>s, <2>1 DEF UnitsInv
  <2>4. ReaderUnits' = ReaderUnits - Size[r] /\ Small'
    BY Zenon, <1>5, <1>6
  <2>a. fiber' = [fiber EXCEPT ![r] = q]
    BY Zenon, <1>6
  <2> HIDE DEF r
  <2>5. r \notin Gated /\ Gated' = Gated \cup {r}
    BY ZenonT(60), <2>a, <1>6, <2>1, <2>2, <1>t DEF Gated, InGate
  <2>6. IsFiniteSet(Gated') /\ FiberUnits' = FiberUnits + Size[r]
    BY Zenon, <2>1, <2>5, FiberMoves DEF UnitsInv
  <2>7. avail' + (FiberUnits' + ReaderUnits') + lost' = Memory
    <3>1. avail' = avail /\ lost' = lost
      BY Zenon, <1>6
    <3>2. Size[r] \in Int
      BY SMTT(30), <2>3
    <3>3. avail + ((FiberUnits + Size[r]) + (ReaderUnits - Size[r])) + lost
            = avail + (FiberUnits + ReaderUnits) + lost
      BY SMTT(30), <3>2, <1>i
    <3> QED
      BY Zenon, <3>1, <3>3, <2>4, <2>6, <1>u
  <2>8. \A e \in Gated' : Size[e] < Int32Half
    BY Zenon, <2>3, <2>5 DEF UnitsInv
  <2> QED
    BY Zenon, <2>4, <2>6, <2>7, <2>8 DEF UnitsInv
(* The units of a request whose body was read are returned or lost.        *)
<1>7. ASSUME NEW n \in Conns, NEW p \in {"header", "done"}, reader[n] = "payload",
             reader' = [reader EXCEPT ![n] = p],
             in' \in {in, [in EXCEPT ![n] = Tail(@)]}, UNCHANGED fiber,
             \/ avail' = Signalled(Head(in[n])) /\ lost' = lost
             \/ lost' = lost + Size[Head(in[n])] /\ avail' = avail
      PROVE  UnitsInv'
  <2> DEFINE r == Head(in[n])
  <2>1. r \in Requests
    BY Zenon, <1>7, HeadRequest
  <2>2. Size[r] \in Nat /\ Size[r] < Int32Half
    BY Zenon, <1>7, <1>s, <2>1 DEF UnitsInv
  <2>3. \/ avail' = avail + Size[r] /\ lost' = lost
        \/ lost' = lost + Size[r] /\ avail' = avail
    BY Zenon, <1>7, <1>s, <1>t, <2>1, <2>2 DEF Signalled
  <2>4. ReaderUnits' = ReaderUnits - Size[r] /\ Small'
    BY Zenon, <1>5, <1>7
  <2>5. Gated' = Gated
    BY Zenon, <1>7, <1>f DEF InGate
  <2> HIDE DEF r
  <2>6. avail' + (FiberUnits' + ReaderUnits') + lost' = Memory
    BY SMTT(30), <2>2, <2>3, <2>4, <2>5, <1>k, <1>i, <1>h, <1>u, Balance
  <2> QED
    BY Zenon, <2>4, <2>5, <2>6 DEF UnitsInv
<1>8. CASE Admit
  <2> DEFINE n == Head(memq)
             r == Head(in[n])
  <2>1. /\ memq # <<>> /\ Size[r] <= avail /\ avail' = avail - Size[r]
        /\ reader' = [reader EXCEPT ![n] = "payload"] /\ UNCHANGED <<lost, fiber, in>>
    BY Zenon, <1>8 DEF Admit, Waiting, envVars
  <2>2. n \in Conns /\ n = memq[1] /\ 1 \in 1..Len(memq)
    BY SMTT(30), <2>1, <1>t
  <2>3. reader[n] = "memory"
    BY Zenon, <2>2 DEF TypeInv, ReadInv
  <2>4. r \in Requests /\ Size[r] \in Nat
    BY Zenon, <2>2, <2>3, HeadRequest
  <2>5. Size[r] < Int32Half
    <3>1. avail <= Memory
      BY <1>t, <1>h DEF UnitsInv
    <3> QED
      BY SMTT(60), <2>1, <2>4, <3>1, <1>t DEF Admissible
  <2> HIDE DEF n
  <2>6. \A m \in Conns \ {n} : Reading'[m] = Reading[m]
    BY Zenon, <2>1, <2>2, <1>t DEF Reading
  <2>7. Reading[n] = 0 /\ Reading'[n] = Size[r]
    BY Zenon, <2>1, <2>2, <2>3, <1>t DEF Reading
  <2> HIDE DEF r
  <2>8. ReaderUnits' = ReaderUnits - 0 + Size[r]
    BY Zenon, <2>2, <2>6, <2>7, ReaderMoves
  <2>9. Small'
    BY Zenon, <2>1, <2>2, <2>5, <1>t DEF UnitsInv, r
  <2>10. Gated' = Gated
    BY Zenon, <2>1, <1>f DEF InGate
  <2>11. avail' + (FiberUnits' + ReaderUnits') + lost' = Memory
    <3>1. avail' = avail - Size[r] /\ lost' = lost /\ FiberUnits' = FiberUnits
      BY Zenon, <2>1, <2>10, <1>k
    <3>2. (avail - Size[r]) + (FiberUnits + (ReaderUnits - 0 + Size[r])) + lost
            = avail + (FiberUnits + ReaderUnits) + lost
      BY SMTT(30), <2>4, <1>i, Balance
    <3> QED
      BY Zenon, <3>1, <3>2, <2>8, <1>u
  <2> QED
    BY Zenon, <2>9, <2>10, <2>11 DEF UnitsInv
<1>9. ASSUME NEW n \in Conns, NEW r \in Requests, PeerSends(n, r) PROVE UnitsInv'
  <2>1. in' = [in EXCEPT ![n] = Append(@, r)] /\ UNCHANGED <<reader, fiber, avail, lost>>
    BY Zenon, <1>9 DEF PeerSends, memVars
  <2>2. \A m \in Conns : reader[m] = "payload" => Head(in'[m]) = Head(in[m])
    BY SMTT(60), <2>1, <1>t DEF TypeInv, ReadInv
  <2>3. Reading' = Reading
    BY <2>1, <2>2 DEF Reading
  <2>4. Still
    BY Zenon, <2>1, <2>2, <2>3 DEF UnitsInv, ReaderUnits
  <2> QED
    BY Zenon, <2>1, <2>4, <1>f, <1>q DEF InGate
<1>10. CASE Accept
  <2>1. connection_idx + 1 \in Conns /\ reader[connection_idx + 1] = "off"
    BY SMTT(30), <1>10, <1>t, ServerConstants DEF Accept, Conns, TypeInv, TypeOK, ConnTypes, ReadInv
  <2>2. /\ reader' = [reader EXCEPT ![connection_idx + 1] = "header"]
        /\ UNCHANGED <<in, fiber, avail, lost>>
    BY Zenon, <1>10 DEF Accept, memVars, envVars
  <2>3. Still
    BY Zenon, <2>1, <2>2, <1>4
  <2> QED
    BY ZenonT(60), <2>2, <2>3, <1>f, <1>q DEF InGate
<1>11. ASSUME NEW n \in Conns, ReadHeader(n) \/ BadHeader(n) PROVE UnitsInv'
  <2>1. PICK p \in {"memory", "done"} :
          /\ reader[n] = "header" /\ reader' = [reader EXCEPT ![n] = p]
          /\ UNCHANGED <<in, fiber, avail, lost>>
    BY Zenon, <1>11 DEF ReadHeader, BadHeader, SessionEnds, memVars, envVars
  <2>2. Still
    BY Zenon, <2>1, <1>4
  <2> QED
    BY Zenon, <2>1, <2>2, <1>f, <1>q DEF InGate
<1>12. ASSUME NEW n \in Conns, BadPayload(n) PROVE UnitsInv'
  BY Zenon, <1>7, <1>12 DEF BadPayload, SessionEnds
<1>13. ASSUME NEW n \in Conns, Dispatch(n) PROVE UnitsInv'
  <2>1. PICK p \in {"header", "done"} :
          /\ reader[n] = "payload" /\ reader' = [reader EXCEPT ![n] = p]
          /\ in' = [in EXCEPT ![n] = Tail(@)] /\ UNCHANGED <<avail, lost>>
    BY Zenon, <1>13 DEF Dispatch, NextTurn, SessionEnds, memVars
  <2> QED
    BY Zenon, <2>1, <1>6, <1>13 DEF Dispatch, EnterGate
<1>14. ASSUME NEW n \in Conns, DispatchNoRoute(n) PROVE UnitsInv'
  BY Zenon, <1>6, <1>14 DEF DispatchNoRoute, SessionEnds, memVars
<1>15. ASSUME NEW n \in Conns, SessionThrows(n) PROVE UnitsInv'
  <2>1. /\ reader' = [reader EXCEPT ![n] = "done"] /\ UNCHANGED <<avail, fiber, in>>
        /\ lost' = IF reader[n] = "payload" THEN lost + Size[Head(in[n])] ELSE lost
        /\ reader[n] \in {"payload", "header"}
    BY Zenon, <1>15 DEF SessionThrows, Throws, envVars
  <2>2. CASE reader[n] = "payload"
    BY Zenon, <2>1, <2>2, <1>7
  <2>3. CASE reader[n] = "header"
    <3>1. Still /\ lost' = lost
      BY Zenon, <2>1, <2>3, <1>4
    <3> QED
      BY Zenon, <2>1, <3>1, <1>f, <1>q DEF InGate
  <2> QED
    BY Zenon, <2>1, <2>2, <2>3
<1>16. ASSUME NEW r \in Requests,
              HandleThrows(r) \/ NoDecompressor(r) \/ HandleDone(r) \/ Flush(r) \/ FlushFails(r)
              \/ Cleanup(r)
       PROVE  UnitsInv'
  <2>1. InGate(r)
    BY Zenon, <1>16 DEF HandleThrows, NoDecompressor, HandleDone, Flush, FlushFails, Cleanup, InGate
  <2>2. CASE NoDecompressor(r) \/ HandleDone(r) \/ Flush(r)
    BY Zenon, <2>1, <2>2, <1>2 DEF NoDecompressor, HandleDone, Flush, memVars, envVars
  <2>3. CASE HandleThrows(r) \/ FlushFails(r) \/ Cleanup(r)
    BY Zenon, <2>1, <2>3, <1>3 DEF HandleThrows, FlushFails, Cleanup, envVars
  <2> QED
    BY Zenon, <1>16, <2>2, <2>3
<1>17. ASSUME NEW n \in Conns, WriteBody(n) \/ WriteFails(n) PROVE UnitsInv'
  <2> DEFINE r == Head(wq[n])
  <2>1. wq[n] # <<>>
    BY Zenon, <1>17 DEF WriteBody, WriteFails, TypeInv, LockInv
  <2>2. r \in Requests /\ r = wq[n][1] /\ 1 \in 1..Len(wq[n])
    BY SMTT(30), <2>1, HeadWriter DEF TypeInv, TypeOK, WriteTypes
  <2>3. InGate(r)
    BY <2>2 DEF InGate, TypeInv, LockInv
  <2>4. CASE WriteBody(n)
    BY Zenon, <2>2, <2>3, <2>4, <1>2 DEF WriteBody, memVars, envVars
  <2>5. CASE WriteFails(n)
    BY ZenonT(60), <2>2, <2>3, <2>5, <1>3 DEF WriteFails, envVars
  <2> QED
    BY Zenon, <1>17, <2>4, <2>5
<1>18. CASE \/ AcceptFails \/ Stop \/ StopCloses \/ StopReturns \/ UNCHANGED vars
            \/ \E n \in Conns : PeerCloses(n) \/ WriteHeader(n)
  BY ZenonT(60), <1>1, <1>18 DEF AcceptFails, Stop, StopCloses, StopReturns, PeerCloses,
     WriteHeader,
     memVars, envVars, vars
<1> QED
  BY ZenonT(60), NextCases, <1>8, <1>9, <1>10, <1>11, <1>12, <1>13, <1>14, <1>15, <1>16, <1>17,
     <1>18

-----------------------------------------------------------------------------
(* The theorems that rest on a fact about sequences, finite sets or sums.  *)

INSTANCE ProofLemmas

(* Whatever readers and fibers meet the error of a connection, it is       *)
(* erased from open_connections_ and counted in bad_requests exactly once. *)
THEOREM ErasedOnce == Spec => []ReapedOnce
<1>1. Init => Counts(srv, connection_idx)
  <2> SUFFICES ASSUME Init
               PROVE  Counts(srv, connection_idx)
    BY ZenonT(60)
  <2>1. (1..connection_idx) \ srv.open = {}
    BY DEF Init
  <2> QED
    BY ZenonT(60), <2>1, FS_EmptySet DEF Init, Counts, Tables
<1>2. TypeInv /\ Counts(srv, connection_idx) /\ [Next]_vars => Counts(srv, connection_idx)'
  BY ZenonT(60), CountsNext, SetsAreCountedAlways
<1>3. Counts(srv, connection_idx) => ReapedOnce
  BY ZenonT(60) DEF Counts, ReapedOnce, Reaped, Accepted
<1> QED
  BY <1>1, <1>2, <1>3, TypeInvariant, PTL DEF Spec

(* On every connection the replies of concurrent fibers do not interleave, *)
(* also when a write fails between a header and its body.                  *)
THEOREM RepliesAreFramed == Spec => []RepliesFramed
<1>1. Init => FrameInv
  BY DEF Init, FrameInv, Framed
<1>2. TypeInv /\ FrameInv /\ [Next]_vars => FrameInv'
  BY ZenonT(60), FrameNext, FramesGrowAlways
<1>3. FrameInv => RepliesFramed
  BY Zenon DEF FrameInv, Framed, RepliesFramed
<1> QED
  BY <1>1, <1>2, <1>3, TypeInvariant, PTL DEF Spec

(* Every unit of resources_available is free, held by the reader or the    *)
(* fiber of one request, or was lost in one of the two places that drop it *)
(* (a closed gate, a body that does not come), provided that no request    *)
(* the semaphore can admit has 2^31 bytes or more.                         *)
THEOREM UnitsAreAccounted == ASSUME Admissible PROVE Spec => []UnitsAccounted
<1>s. SumsAddUp
  <2>1. SumsAreNatural
    BY Zenon, SumNat DEF SumsAreNatural
  <2>2. SumsGrow
    BY Zenon, SumAdd DEF SumsGrow
  <2>3. SumsShrink
    BY ZenonT(60), SumRemove DEF SumsShrink
  <2>4. SumsChange
    <3> SUFFICES ASSUME NEW S, NEW f, NEW e, IsFiniteSet(S), NEW x \in S,
                        \A y \in S : f[y] \in Nat /\ e[y] \in Nat,
                        \A y \in S \ {x} : f[y] = e[y]
                 PROVE  SumFunctionOnSet(e, S) = SumFunctionOnSet(f, S) - f[x] + e[x]
      BY SMTT(30) DEF SumsChange
    <3> QED
      BY SMTT(30), SumChange
  <2> QED
    BY ZenonT(60), <2>1, <2>2, <2>3, <2>4 DEF SumsAddUp
<1>1. Init => UnitsInv
  <2> SUFFICES ASSUME Init PROVE UnitsInv
    BY Zenon
  <2>1. Gated = {} /\ \A n \in Conns : Reading[n] = 0
    BY Zenon DEF Init, Gated, InGate, Reading
  <2>2. IsFiniteSet(Gated) /\ FiberUnits = 0
    BY ZenonT(60), <2>1, FS_EmptySet, SumEmpty DEF FiberUnits
  <2>3. ReaderUnits = 0
    <3>1. IsFiniteSet(Conns)
      BY SMTT(60), ServerConstants, FS_Interval DEF Conns
    <3> QED
      BY ZenonT(60), <2>1, <3>1, SumZero DEF ReaderUnits
  <2> QED
    BY SMTT(60), <2>1, <2>2, <2>3, ServerConstants DEF Init, UnitsInv
<1>2. TypeInv /\ TypeInv' /\ UnitsInv /\ [Next]_vars => UnitsInv'
  BY ZenonT(60), UnitsNext, SetsAreCountedAlways, <1>s
<1>3. UnitsInv => UnitsAccounted
  BY Zenon DEF UnitsInv, UnitsAccounted, Held, FiberUnits, ReaderUnits, Gated, Reading
<1> QED
  BY <1>1, <1>2, <1>3, TypeInvariant, PTL DEF Spec

=============================================================================

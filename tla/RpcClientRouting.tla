-------------------------- MODULE RpcClientRouting --------------------------
(***************************************************************************)
(* Proofs that the replies RpcClient delivers reach their own calls, that  *)
(* they are counted, and that the client implements RpcCalls.              *)
(***************************************************************************)
EXTENDS RpcClientProofs, ProofFacts

(* Replies reach their own calls as long as the session ids have not       *)
(* wrapped around.  Ids are then distinct, and whatever is queued, written *)
(* or answered belongs to a call that has been sent and kept its id.       *)

Sent(c) == pr[c] # "none"

SentStays == \A c \in Calls : Sent(c) => Sent(c)' /\ sess'[c] = sess[c]

NothingSent == sess' = sess /\ \A c \in Calls : Sent(c)' <=> Sent(c)

(* fail_outstanding_futures sends no call.                                 *)
LEMMA FailSendsNothing ==
  ASSUME TypeOK, PromiseInv, NEW h, fail_outstanding_futures(h), UNCHANGED sess
  PROVE  NothingSent
  BY ClientConstants DEF fail_outstanding_futures, NothingSent, Sent, TypeOK, CallTypes,
     PromiseInv, SlotsArePending

(* Only raw_send, when it accepts a call, sends one.                       *)
LEMMA SentByAccept ==
  TypeOK /\ PromiseInv /\ [Next]_vars =>
    NothingSent \/ \E c \in Calls : SendAccepted(c)
<1> SUFFICES ASSUME TypeOK, PromiseInv, [Next]_vars, ~ \E c \in Calls : SendAccepted(c)
             PROVE  NothingSent
  BY Zenon
<1> USE DEF NothingSent, Sent
<1>t. /\ pr \in [Calls -> {"none", "pending", "value", "exception"}]
      /\ sess \in [Calls -> Sessions]
      /\ rpc_slots \in [Sessions -> Calls \cup {NoCall}]
  BY Zenon DEF TypeOK, CallTypes, SlotTypes
<1>1. CASE UNCHANGED <<pr, sess>>
  BY Zenon, <1>1
<1>3. ASSUME NEW c \in Calls, FiltersDone(c) PROVE NothingSent
  BY Zenon, <1>3, <1>t DEF FiltersDone
<1>4. ASSUME NEW n \in Conns, ReadReply(n) PROVE NothingSent
  <2> DEFINE s == Head(stream[reader[n].on]).sess
             c == rpc_slots[s]
  <2>1. c # NoCall /\ pr' = [pr EXCEPT ![c] = "value"] /\ UNCHANGED sess
    BY Zenon, <1>4 DEF ReadReply
  <2>2. s \in Sessions
    <3>1. reader[n].st = "payload" /\ stream[reader[n].on] # <<>>
      BY Zenon, <1>4 DEF ReadReply
    <3>2. reader[n].on \in Conns
      BY <3>1 DEF TypeOK, ReaderTypes, Reading, Off
    <3>3. Head(stream[reader[n].on]) \in Replies
      BY SMTT(40), <3>1, <3>2 DEF TypeOK, EnvTypes
    <3> QED
      BY Zenon, <3>3 DEF Replies
  <2>3. c \in Calls /\ pr[c] = "pending"
    BY Zenon, <1>t, <2>1, <2>2 DEF PromiseInv, SlotsArePending
  <2> QED
    BY Zenon, <1>t, <2>1, <2>3
<1>5. ASSUME NEW n \in Conns, ReaderSetsError(n) PROVE NothingSent
  BY Zenon, <1>5, FailSendsNothing DEF ReaderSetsError
<1>6. ASSUME NEW n \in Conns, ReadThrows(n) \/ ReadTimesOut(n) PROVE NothingSent
  BY Zenon, <1>1, <1>6, FailSendsNothing DEF ReadThrows, ReadTimesOut, ReaderHandlesException,
     callVars
<1>7. CASE WriteFails \/ \E x \in Controllers : Reconnect(x) \/ Stop(x)
  BY Zenon, <1>7, FailSendsNothing DEF WriteFails, Reconnect, Stop, CloseGate
<1> QED
  <2>1. CASE UNCHANGED callVars
    BY Zenon, <2>1, <1>1 DEF callVars
  <2>2. CASE \E c \in Calls : SendRefused(c) \/ SendThrows(c) \/ FilterThrows(c) \/ Resolve(c)
    BY Zenon, <2>2, <1>1 DEF SendRefused, SendThrows, FilterThrows, Resolve
  <2>3. CASE AcquireMemory \/ WriteHeader \/ WriteBody
    BY Zenon, <2>3, <2>1 DEF AcquireMemory, WriteHeader, WriteBody
  <2>4. CASE \E n \in Conns : \/ ReadHeader(n) \/ PeerCloses(n)
                              \/ \E c \in Calls : PeerReply(n, c)
    BY Zenon, <2>4, <2>1 DEF ReadHeader, PeerCloses, PeerReply
  <2>5. CASE \E x \in Controllers : \/ Connect(x) \/ Reopen(x) \/ Stopped(x)
                                    \/ ConnectOk(x) \/ ConnectFails(x)
    BY Zenon, <2>5, <2>1 DEF Connect, Reopen, Stopped, ConnectOk, ConnectFails
  <2> QED
    BY Zenon, NextCases, <1>3, <1>4, <1>5, <1>6, <1>7, <2>1, <2>2, <2>3, <2>4, <2>5
       DEF vars, ReadUnknownSession, ReadMalformed

(* A call that was sent keeps its session id.                              *)
LEMMA SentNext == TypeOK /\ PromiseInv /\ [Next]_vars => SentStays
<1> SUFFICES ASSUME TypeOK, PromiseInv, [Next]_vars PROVE SentStays
  BY Zenon
<1>1. CASE NothingSent
  BY Zenon, <1>1 DEF NothingSent, SentStays
<1>2. ASSUME NEW c \in Calls, SendAccepted(c) PROVE SentStays
  BY Zenon, <1>2 DEF SendAccepted, PromiseInv, IdleHasNoPromise, SentStays, Sent, TypeOK, CallTypes
<1> QED
  BY Zenon, <1>1, <1>2, SentByAccept

(* Requests that are queued or written.                                    *)
RequestsSent ==
  /\ \A c \in Calls : phase[c] = "filtering" => Sent(c)
  /\ \A i \in 1..Len(memq) : Sent(memq[i])
  /\ \A i \in 1..Len(serq) : Sent(serq[i])
  /\ \A n \in Conns : \A i \in 1..Len(wire[n]) : Sent(wire[n][i][2])

(* Only calls that were sent are queued and written.                       *)
LEMMA RequestsNext ==
  TypeOK /\ PromiseInv /\ RequestsSent /\ [Next]_vars => RequestsSent'
<1> SUFFICES ASSUME TypeOK, PromiseInv, RequestsSent, [Next]_vars PROVE RequestsSent'
  BY Zenon
<1>s. SentStays
  BY Zenon, SentNext
<1>t. /\ phase \in [Calls -> {"idle", "filtering", "awaiting", "done"}]
      /\ memq \in Seq(Calls) /\ serq \in Seq(Calls)
      /\ wire \in [Conns -> Seq(Parts)]
  BY Zenon DEF TypeOK, CallTypes, WriteTypes, EnvTypes
<1>p. \A p \in Parts : p[2] \in Calls
  BY Zenon DEF Parts
<1> DEFINE Filtering == \A c \in Calls : phase[c] = "filtering" => Sent(c)
           Waiting == \A i \in 1..Len(memq) : Sent(memq[i])
           Writing == \A i \in 1..Len(serq) : Sent(serq[i])
           Written == \A n \in Conns : \A i \in 1..Len(wire[n]) : Sent(wire[n][i][2])
<1>h. Filtering /\ Waiting /\ Writing /\ Written
  BY Zenon DEF RequestsSent
<1>f. (\A c \in Calls : phase'[c] = "filtering" => phase[c] = "filtering") => Filtering'
  BY Zenon, <1>h, <1>s DEF SentStays
<1>a. memq' = memq => Waiting'
  BY <1>h, <1>s, <1>t DEF SentStays
<1>b. serq' = serq => Writing'
  BY <1>h, <1>s, <1>t DEF SentStays
<1>w. wire' = wire => Written'
  BY <1>h, <1>s, <1>t, <1>p DEF SentStays
<1>q. Filtering' /\ Waiting' /\ Writing' /\ Written' => RequestsSent'
  BY Zenon DEF RequestsSent
<1>1. CASE UNCHANGED <<phase, memq, serq, wire>>
  BY Zenon, <1>1, <1>f, <1>a, <1>b, <1>w, <1>q
<1>2. ASSUME NEW c \in Calls, SendRefused(c) \/ SendThrows(c) \/ FilterThrows(c) \/ Resolve(c)
      PROVE  RequestsSent'
  <2>1. phase' = [phase EXCEPT ![c] = "done"] /\ UNCHANGED <<memq, serq, wire>>
    BY Zenon, <1>2 DEF SendRefused, SendThrows, FilterThrows, Resolve, writeVars, envVars
  <2>2. Filtering'
    BY Zenon, <2>1, <1>f, <1>t
  <2> QED
    BY Zenon, <2>1, <2>2, <1>a, <1>b, <1>w, <1>q
<1>3. ASSUME NEW c \in Calls, SendAccepted(c) PROVE RequestsSent'
  <2>1. UNCHANGED <<memq, serq, wire>>
    BY Zenon, <1>3 DEF SendAccepted, writeVars, envVars
  <2>2. Filtering'
    BY ZenonT(60), <1>3, <1>t, <1>h, <1>s DEF SendAccepted, Sent, SentStays, TypeOK, CallTypes
  <2> QED
    BY Zenon, <2>1, <2>2, <1>a, <1>b, <1>w, <1>q
<1>4. ASSUME NEW c \in Calls, FiltersDone(c) PROVE RequestsSent'
  <2>1. UNCHANGED <<serq, wire>> /\ phase[c] = "filtering"
        /\ phase' = [phase EXCEPT ![c] = "awaiting"]
        /\ memq' \in {memq, Append(memq, c)}
    BY Zenon, <1>4 DEF FiltersDone, envVars
  <2>2. Filtering'
    BY Zenon, <2>1, <1>f, <1>t
  <2>3. Sent(c)'
    BY Zenon, <2>1, <1>h, <1>s DEF SentStays
  <2>4. Waiting'
    BY SMTT(60), <2>1, <2>3, <1>h, <1>s, <1>t DEF SentStays
  <2> QED
    BY Zenon, <2>1, <2>2, <2>4, <1>b, <1>w, <1>q
<1>5. CASE AcquireMemory
  <2>1. UNCHANGED <<phase, wire>> /\ memq # <<>>
        /\ memq' = Tail(memq) /\ serq' = Append(serq, Head(memq))
    BY Zenon, <1>5 DEF AcquireMemory, Fits, callVars, envVars
  <2>2. Waiting'
    BY SMTT(60), <2>1, <1>h, <1>s, <1>t DEF SentStays
  <2>3. PICK c \in Calls : c = Head(memq) /\ Sent(c)
    BY <2>1, <1>h, <1>t
  <2>4. Writing'
    BY <2>1, <2>3, <1>h, <1>s, <1>t DEF SentStays
  <2> QED
    BY Zenon, <2>1, <2>2, <2>4, <1>f, <1>w, <1>q
<1>6. CASE WriteHeader \/ WriteBody
  <2>1. PICK n \in Conns, part \in {"header", "body"} :
          /\ serq # <<>>
          /\ wire' = [wire EXCEPT ![n] = Append(@, <<part, Head(serq)>>)]
          /\ UNCHANGED <<phase, memq>>
          /\ serq' \in {serq, Tail(serq)}
    BY Zenon, <1>6 DEF WriteHeader, WriteBody, Writable, ReleaseWriter, callVars
  <2>2. PICK c \in Calls : c = Head(serq) /\ Sent(c)
    BY <2>1, <1>h, <1>t
  <2>3. Writing'
    <3>1. CASE serq' = Tail(serq)
      BY SMTT(60), <2>1, <3>1, <1>h, <1>s, <1>t DEF SentStays
    <3> QED
      BY Zenon, <2>1, <3>1, <1>b
  <2>4. Written'
    BY SMTT(60), <2>1, <2>2, <1>h, <1>s, <1>t, <1>p DEF SentStays
  <2> QED
    BY Zenon, <2>1, <2>3, <2>4, <1>f, <1>a, <1>q
<1>7. CASE WriteFails
  <2>1. UNCHANGED <<phase, memq, wire>> /\ serq # <<>> /\ serq' = Tail(serq)
    BY Zenon, <1>7 DEF WriteFails, ReleaseWriter, envVars
  <2>2. Writing'
    BY SMTT(60), <2>1, <1>h, <1>s, <1>t DEF SentStays
  <2> QED
    BY Zenon, <2>1, <2>2, <1>f, <1>a, <1>w, <1>q
<1> QED
  <2>1. CASE UNCHANGED vars
    BY Zenon, <2>1, <1>1 DEF vars, callVars, writeVars, envVars
  <2>2. CASE \E n \in Conns : \/ ReadHeader(n) \/ ReadReply(n) \/ ReadUnknownSession(n)
                              \/ ReadMalformed(n) \/ ReadThrows(n) \/ ReadTimesOut(n)
    BY ZenonT(40), <2>2, <1>1 DEF ReadHeader, ReadReply, ReadUnknownSession, ReadMalformed,
       ReadThrows,
       ReadTimesOut, ReaderSetsError, ReaderHandlesException, callVars, writeVars, envVars
  <2>3. CASE \E n \in Conns : PeerCloses(n) \/ \E c \in Calls : PeerReply(n, c)
    BY Zenon, <2>3, <1>1 DEF PeerCloses, PeerReply, callVars, writeVars
  <2>4. CASE \E x \in Controllers : \/ Connect(x) \/ Reconnect(x) \/ Stop(x) \/ Reopen(x)
                                    \/ Stopped(x) \/ ConnectOk(x) \/ ConnectFails(x)
    BY Zenon, <2>4, <1>1 DEF Connect, Reconnect, Stop, CloseGate, Reopen, Stopped, ConnectOk,
       ConnectFails, callVars, writeVars, envVars
  <2> QED
    BY Zenon, NextCases, <1>2, <1>3, <1>4, <1>5, <1>6, <1>7, <2>1, <2>2, <2>3, <2>4

(* Answers carry the session id of the call they answer.                   *)
RepliesOwnId ==
  \A n \in Conns : \A i \in 1..Len(stream[n]) :
    Sent(stream[n][i].call) /\ stream[n][i].sess = sess[stream[n][i].call]

(* Every handler keeps the answers consistent with the ids.                *)
LEMMA RepliesNext ==
  TypeOK /\ PromiseInv /\ RequestsSent /\ RepliesOwnId /\ [Next]_vars => RepliesOwnId'
<1> SUFFICES ASSUME TypeOK, PromiseInv, RequestsSent, RepliesOwnId, [Next]_vars
             PROVE  RepliesOwnId'
  BY Zenon
<1>s. SentStays
  BY Zenon, SentNext
<1>t. stream \in [Conns -> Seq(Replies)]
  BY Zenon DEF TypeOK, EnvTypes
<1>r. \A f \in Replies : f.call \in Calls
  BY Zenon DEF Replies
<1>1. CASE UNCHANGED stream
  BY SMTT(60), <1>1, <1>s, <1>t, <1>r DEF RepliesOwnId, SentStays
<1>2. ASSUME NEW m \in Conns, stream[m] # <<>>, stream' = [stream EXCEPT ![m] = Tail(@)]
      PROVE  RepliesOwnId'
  BY SMTT(90), <1>2, <1>s, <1>t, <1>r DEF RepliesOwnId, SentStays
<1>3. ASSUME NEW n \in Conns, NEW c \in Calls, PeerReply(n, c) PROVE RepliesOwnId'
  <2>1. Sent(c)
    BY <1>3 DEF PeerReply, RequestsSent
  <2> DEFINE f == [call |-> c, sess |-> sess[c]]
  <2>2. f \in Replies /\ f.call = c /\ f.sess = sess[c]
    BY Zenon DEF TypeOK, CallTypes, Replies
  <2>3. stream' = [stream EXCEPT ![n] = Append(@, f)]
    BY Zenon, <1>3 DEF PeerReply
  <2> HIDE DEF f
  <2>4. Sent(c)' /\ sess'[c] = sess[c]
    BY Zenon, <2>1, <1>s DEF SentStays
  <2> QED
    BY SMTT(40), <2>2, <2>3, <2>4, <1>s, <1>t, <1>r DEF RepliesOwnId, SentStays
<1>4. ASSUME NEW n \in Conns, ReadReply(n) \/ ReadUnknownSession(n) PROVE RepliesOwnId'
  <2>1. /\ reader[n].st = "payload" /\ stream[reader[n].on] # <<>>
        /\ stream' = [stream EXCEPT ![reader[n].on] = Tail(@)]
    BY Zenon, <1>4 DEF ReadReply, ReadUnknownSession
  <2>2. reader[n].on \in Conns
    BY <2>1 DEF TypeOK, ReaderTypes, Reading, Off
  <2> QED
    BY Zenon, <2>1, <2>2, <1>2
<1> QED
  <2>1. CASE UNCHANGED envVars
    BY Zenon, <2>1, <1>1 DEF envVars
  <2>2. CASE \E c \in Calls : \/ SendRefused(c) \/ SendThrows(c) \/ SendAccepted(c)
                              \/ FilterThrows(c) \/ FiltersDone(c) \/ Resolve(c)
    BY Zenon, <2>2, <2>1 DEF SendRefused, SendThrows, SendAccepted, FilterThrows, FiltersDone,
       Resolve
  <2>3. CASE AcquireMemory \/ WriteHeader \/ WriteBody \/ WriteFails
    BY Zenon, <2>3, <1>1 DEF AcquireMemory, WriteHeader, WriteBody, WriteFails, envVars
  <2>4. CASE \E n \in Conns : \/ ReadHeader(n) \/ ReadMalformed(n) \/ ReadThrows(n)
                              \/ ReadTimesOut(n) \/ PeerCloses(n)
    BY Zenon, <2>4, <1>1 DEF ReadHeader, ReadMalformed, ReadThrows, ReadTimesOut,
       ReaderHandlesException, PeerCloses, envVars
  <2>5. CASE \E x \in Controllers : \/ Connect(x) \/ Reconnect(x) \/ Stop(x) \/ Reopen(x)
                                    \/ Stopped(x) \/ ConnectOk(x) \/ ConnectFails(x)
    BY Zenon, <2>5, <2>1 DEF Connect, Reconnect, Stop, CloseGate, Reopen, Stopped, ConnectOk,
       ConnectFails
  <2> QED
    BY Zenon, NextCases, <1>3, <1>4, <2>1, <2>2, <2>3, <2>4, <2>5 DEF vars

NoWrap == issued < SessionModulus

IdsDistinct ==
  NoWrap =>
    /\ session_idx = issued
    /\ \A c \in Calls : Sent(c) => sess[c] <= issued
    /\ \A c, e \in Calls : Sent(c) /\ Sent(e) /\ sess[c] = sess[e] => c = e

(* Ids stay distinct until they wrap around.                               *)
LEMMA IdsNext == TypeOK /\ PromiseInv /\ IdsDistinct /\ [Next]_vars => IdsDistinct'
<1> SUFFICES ASSUME TypeOK, PromiseInv, IdsDistinct, [Next]_vars PROVE IdsDistinct'
  BY Zenon
<1> USE ClientConstants
<1>t. /\ issued \in Nat /\ session_idx \in 0..(SessionModulus - 1)
      /\ sess \in [Calls -> 0..(SessionModulus - 1)]
  BY Zenon DEF TypeOK, CallTypes, SlotTypes, Sessions
<1>n. issued + 1 < SessionModulus => NoWrap /\ (issued + 1) % SessionModulus = issued + 1
  BY <1>t DEF NoWrap
<1>1. CASE NothingSent /\ UNCHANGED <<issued, session_idx>>
  BY Zenon, <1>1 DEF IdsDistinct, NothingSent, NoWrap
<1>2. ASSUME NEW c \in Calls, SendThrows(c) PROVE IdsDistinct'
  <2>1. /\ UNCHANGED <<pr, sess>>
        /\ session_idx' = (session_idx + 1) % SessionModulus /\ issued' = issued + 1
    BY Zenon, <1>2 DEF SendThrows, TakeSession, NextSession
  <2> QED
    BY <2>1, <1>t, <1>n DEF IdsDistinct, NoWrap, Sent
<1>3. ASSUME NEW c \in Calls, SendAccepted(c) PROVE IdsDistinct'
  <2>1. /\ sess' = [sess EXCEPT ![c] = (session_idx + 1) % SessionModulus]
        /\ pr' = [pr EXCEPT ![c] = "pending"]
        /\ session_idx' = (session_idx + 1) % SessionModulus /\ issued' = issued + 1
    BY Zenon, <1>3 DEF SendAccepted, TakeSession, NextSession
  <2>2. pr \in [Calls -> {"none", "pending", "value", "exception"}]
    BY Zenon DEF TypeOK, CallTypes
  <2> SUFFICES ASSUME NoWrap' PROVE IdsDistinct'
    BY Zenon DEF IdsDistinct
  <2>3. session_idx' = issued + 1 /\ session_idx = issued /\ sess'[c] = issued + 1
    BY Zenon, <2>1, <1>t, <1>n DEF IdsDistinct, NoWrap
  <2>4. \A e \in Calls : e # c /\ Sent(e)' => Sent(e) /\ sess'[e] = sess[e] /\ sess[e] <= issued
    BY Zenon, <2>1, <2>2, <1>t, <1>n DEF IdsDistinct, NoWrap, Sent
  <2>5. \A e \in Calls : e # c /\ Sent(e)' => sess'[e] # sess'[c]
    BY <2>3, <2>4, <1>t
  <2> QED
    BY <2>1, <2>3, <2>4, <2>5, <1>t, <1>n DEF IdsDistinct, NoWrap
<1> QED
  <2>1. CASE \A c \in Calls : ~SendThrows(c) /\ ~SendAccepted(c)
    <3>1. NothingSent
      BY Zenon, <2>1, SentByAccept
    <3>2. UNCHANGED <<issued, session_idx>>
      BY Zenon, <2>1, NextCases DEF vars, slotVars, SendRefused, FilterThrows, FiltersDone, Resolve,
         AcquireMemory, WriteHeader, WriteBody, WriteFails, ReadHeader, ReadReply,
         ReadUnknownSession, ReadMalformed, ReadThrows, ReadTimesOut, ReaderSetsError,
         ReaderHandlesException, Connect, Reconnect, Stop, CloseGate, Reopen, Stopped,
         ConnectOk, ConnectFails, PeerReply, PeerCloses
    <3> QED
      BY Zenon, <3>1, <3>2, <1>1
  <2> QED
    BY Zenon, <2>1, <1>2, <1>3

RoutedReplies == NoWrap => ReplyMatches

(* Every handler hands a reply only to its own call.                       *)
LEMMA RoutedNext ==
  /\ TypeOK /\ PromiseInv /\ RepliesOwnId /\ IdsDistinct /\ RoutedReplies /\ [Next]_vars
  => RoutedReplies'
<1> SUFFICES ASSUME TypeOK, PromiseInv, RepliesOwnId, IdsDistinct, RoutedReplies, [Next]_vars
             PROVE  RoutedReplies'
  BY Zenon
<1>t. /\ rep \in [Calls -> Calls \cup {NoCall}]
      /\ rpc_slots \in [Sessions -> Calls \cup {NoCall}]
      /\ issued \in Nat
  BY Zenon DEF TypeOK, CallTypes, SlotTypes
<1>1. CASE UNCHANGED rep /\ issued' \in {issued, issued + 1}
  BY <1>1, <1>t, ClientConstants DEF RoutedReplies, NoWrap, ReplyMatches
<1>2. ASSUME NEW n \in Conns, ReadReply(n) PROVE RoutedReplies'
  <2> DEFINE m == reader[n].on
             f == Head(stream[m])
             c == rpc_slots[f.sess]
  <2>a. reader[n].st = "payload" /\ stream[m] # <<>>
    BY ZenonT(40), <1>2 DEF ReadReply
  <2>1. c # NoCall /\ rep' = [rep EXCEPT ![c] = f.call] /\ UNCHANGED issued
    BY Zenon, <1>2 DEF ReadReply
  <2>2. m \in Conns
    BY SMTT(60), <2>a DEF TypeOK, ReaderTypes, Reading, Off
  <2>3. f \in Replies /\ f = stream[m][1] /\ 1 \in 1..Len(stream[m])
    BY SMTT(40), <2>a, <2>2 DEF TypeOK, EnvTypes
  <2>4. Sent(f.call) /\ f.sess = sess[f.call]
    BY Zenon, <2>2, <2>3 DEF RepliesOwnId
  <2>5. f.call \in Calls /\ f.sess \in Sessions
    BY Zenon, <2>3 DEF Replies
  <2> HIDE DEF f
  <2>6. c \in Calls /\ Sent(c) /\ sess[c] = f.sess
    BY <2>1, <2>5, <1>t DEF PromiseInv, SlotsArePending, Sent
  <2>7. NoWrap => c = f.call
    BY Zenon, <2>4, <2>5, <2>6 DEF IdsDistinct
  <2> QED
    BY Zenon, <2>1, <2>5, <2>6, <2>7, <1>t DEF RoutedReplies, NoWrap, ReplyMatches
<1> QED
  <2>1. CASE \A n \in Conns : ~ReadReply(n)
    BY Zenon, <2>1, <1>1, NextCases DEF vars, callVars, slotVars, SendRefused, SendThrows,
       SendAccepted, TakeSession, FilterThrows, FiltersDone, Resolve, AcquireMemory, WriteHeader,
       WriteBody, WriteFails, ReadHeader, ReadUnknownSession, ReadMalformed, ReadThrows,
       ReadTimesOut, ReaderSetsError, ReaderHandlesException, Connect, Reconnect, Stop,
       CloseGate, Reopen, Stopped, ConnectOk, ConnectFails, PeerReply, PeerCloses
  <2> QED
    BY Zenon, <2>1, <1>2

(* Until 2^16 requests have been sent, a call that receives a reply        *)
(* receives the reply to its own request, across reconnects, timed-out     *)
(* reads that end late, and answers in any order.                          *)
THEOREM RepliesReachTheirCalls == Spec => [](NoWrap => ReplyMatches)
<1>1. Init => RequestsSent /\ RepliesOwnId
  BY DEF Init, RequestsSent, RepliesOwnId, Sent
<1>3. Init => IdsDistinct /\ RoutedReplies
  BY DEF Init, IdsDistinct, RoutedReplies, ReplyMatches, Sent
<1>2. RoutedReplies <=> (NoWrap => ReplyMatches)
  BY Zenon DEF RoutedReplies
<1> QED
  BY <1>1, <1>2, <1>3, RequestsNext, RepliesNext, IdsNext, RoutedNext, PromiseAlways, TypeCorrect,
     PTL DEF Spec

-----------------------------------------------------------------------------
(* read_counter_ is positive when a reply arrives.  It counts the ids      *)
(* handed out less the replies delivered.  The peer answers a request      *)
(* once, so the answers that are delivered and the one that arrives are    *)
(* answers to different requests, and each request took an id.             *)

Undelivered(e) == e \in answered /\ \A c \in Calls : rep[c] # e

AnswersInv ==
  /\ \A c \in answered : Sent(c)
  /\ \A c \in Calls : rep[c] # NoCall => pr[c] = "value" /\ rep[c] \in answered
  /\ \A n \in Conns : \A i \in 1..Len(stream[n]) : Undelivered(stream[n][i].call)
  /\ \A n, m \in Conns : \A i \in 1..Len(stream[n]), j \in 1..Len(stream[m]) :
       stream[n][i].call = stream[m][j].call => n = m /\ i = j

(* A read takes the first reply off a stream; the others keep their        *)
(* relation to what was delivered and to one another.                      *)
LEMMA AnswersTail ==
  ASSUME TypeOK, AnswersInv, NEW m \in Conns, stream[m] # <<>>,
         stream' = [stream EXCEPT ![m] = Tail(@)], UNCHANGED answered,
         \A c \in Calls : rep'[c] \in {rep[c], Head(stream[m]).call}
  PROVE  /\ \A n \in Conns : \A i \in 1..Len(stream'[n]) : Undelivered(stream[n][i].call)'
         /\ \A n, k \in Conns : \A i \in 1..Len(stream'[n]), j \in 1..Len(stream'[k]) :
              stream'[n][i].call = stream'[k][j].call => n = k /\ i = j
<1>t. stream \in [Conns -> Seq(Replies)]
  BY Zenon DEF TypeOK, EnvTypes
<1> DEFINE at(n, i) == IF n = m THEN i + 1 ELSE i
<1>1. ASSUME NEW n \in Conns, NEW i \in 1..Len(stream'[n])
      PROVE  /\ at(n, i) \in 1..Len(stream[n]) /\ stream'[n][i] = stream[n][at(n, i)]
             /\ i \in Int /\ (n = m => at(n, i) # 1)
  BY SMTT(40), <1>t
<1> HIDE DEF at
<1>2. 1 \in 1..Len(stream[m]) /\ Head(stream[m]) = stream[m][1]
  BY <1>t
<1>3. ASSUME NEW n \in Conns, NEW i \in 1..Len(stream'[n]) PROVE Undelivered(stream[n][i].call)'
  <2>1. Undelivered(stream'[n][i].call)
    BY SMTT(30), <1>1 DEF AnswersInv
  <2>2. stream'[n][i].call # Head(stream[m]).call
    BY SMTT(60), <1>1, <1>2 DEF AnswersInv
  <2> QED
    BY Zenon, <2>1, <2>2 DEF Undelivered
<1>4. ASSUME NEW n \in Conns, NEW k \in Conns,
             NEW i \in 1..Len(stream'[n]), NEW j \in 1..Len(stream'[k]),
             stream'[n][i].call = stream'[k][j].call
      PROVE  n = k /\ i = j
  <2>a. /\ at(n, i) \in 1..Len(stream[n]) /\ at(k, j) \in 1..Len(stream[k])
        /\ stream[n][at(n, i)].call = stream[k][at(k, j)].call
    BY Zenon, <1>1, <1>4
  <2>1. n = k /\ at(n, i) = at(k, j)
    BY SMTT(60), <2>a DEF AnswersInv
  <2> QED
    BY <2>1, <1>1 DEF at
<1> QED
  BY Zenon, <1>3, <1>4

(* Every handler keeps the answers apart.                                  *)
LEMMA AnswersNext ==
  TypeOK /\ PromiseInv /\ RequestsSent /\ AnswersInv /\ [Next]_vars => AnswersInv'
<1> SUFFICES ASSUME TypeOK, PromiseInv, RequestsSent, AnswersInv, [Next]_vars
             PROVE  AnswersInv'
  BY Zenon
<1> USE ClientConstants
<1>t. /\ stream \in [Conns -> Seq(Replies)] /\ answered \in SUBSET Calls
      /\ rep \in [Calls -> Calls \cup {NoCall}]
      /\ pr \in [Calls -> {"none", "pending", "value", "exception"}]
      /\ rpc_slots \in [Sessions -> Calls \cup {NoCall}]
  BY Zenon DEF TypeOK, EnvTypes, CallTypes, SlotTypes
<1>r. \A f \in Replies : f.call \in Calls /\ f.sess \in Sessions
  BY Zenon DEF Replies
<1>s. SentStays /\ SetPromisesStay
  BY Zenon, SentNext, PromiseNext
<1>a. UNCHANGED answered => \A c \in answered' : Sent(c)'
  BY Zenon, <1>s, <1>t DEF SentStays, AnswersInv
<1>b. UNCHANGED <<rep, answered>> =>
        \A c \in Calls : rep'[c] # NoCall => pr'[c] = "value" /\ rep'[c] \in answered'
  BY Zenon, <1>s DEF SetPromisesStay, AnswersInv
<1>1. CASE UNCHANGED <<rep, stream, answered>>
  BY <1>1, <1>a, <1>b DEF AnswersInv, Undelivered
<1>2. ASSUME NEW n \in Conns, ReadReply(n) PROVE AnswersInv'
  <2> DEFINE m == reader[n].on
             f == Head(stream[m])
             c == rpc_slots[f.sess]
  <2>a. reader[n].st = "payload" /\ stream[m] # <<>>
    BY ZenonT(40), <1>2 DEF ReadReply
  <2>1. /\ c # NoCall /\ rep' = [rep EXCEPT ![c] = f.call] /\ pr' = [pr EXCEPT ![c] = "value"]
        /\ UNCHANGED answered /\ stream' = [stream EXCEPT ![m] = Tail(@)]
    BY Zenon, <1>2 DEF ReadReply
  <2>2. m \in Conns
    BY SMTT(60), <2>a DEF TypeOK, ReaderTypes, Reading, Off
  <2>3. f \in Replies /\ f = stream[m][1] /\ 1 \in 1..Len(stream[m])
    BY SMTT(40), <2>a, <2>2, <1>t
  <2>4. f.call \in answered
    BY ZenonT(60), <2>2, <2>3 DEF AnswersInv, Undelivered
  <2>5. f.call \in Calls /\ f.sess \in Sessions
    BY Zenon, <2>3, <1>r
  <2>6. \A e \in Calls : rep'[e] \in {rep[e], f.call}
    BY Zenon, <2>1, <1>t
  <2>7. /\ \A k \in Conns : \A i \in 1..Len(stream'[k]) : Undelivered(stream[k][i].call)'
        /\ \A p, k \in Conns : \A i \in 1..Len(stream'[p]), j \in 1..Len(stream'[k]) :
             stream'[p][i].call = stream'[k][j].call => p = k /\ i = j
    BY Zenon, AnswersTail, <2>a, <2>1, <2>2, <2>6
  <2> HIDE DEF f
  <2>8. c \in Calls
    BY Zenon, <2>1, <2>5, <1>t
  <2>9. \A e \in Calls : rep'[e] # NoCall => pr'[e] = "value" /\ rep'[e] \in answered'
    BY ZenonT(60), <2>1, <2>4, <2>8, <1>t DEF AnswersInv
  <2> QED
    BY Zenon, <2>1, <2>7, <2>9, <1>a DEF AnswersInv
<1>3. ASSUME NEW n \in Conns, ReadUnknownSession(n) PROVE AnswersInv'
  <2> DEFINE m == reader[n].on
  <2>1. /\ reader[n].st = "payload" /\ stream[m] # <<>>
        /\ stream' = [stream EXCEPT ![m] = Tail(@)] /\ UNCHANGED <<rep, answered>>
    BY Zenon, <1>3 DEF ReadUnknownSession, ReaderSetsError
  <2>2. m \in Conns
    BY SMTT(30), <2>1 DEF TypeOK, ReaderTypes, Reading, Off
  <2>3. \A c \in Calls : rep'[c] \in {rep[c], Head(stream[m]).call}
    BY Zenon, <2>1
  <2>4. /\ \A k \in Conns : \A i \in 1..Len(stream'[k]) : Undelivered(stream[k][i].call)'
        /\ \A p, k \in Conns : \A i \in 1..Len(stream'[p]), j \in 1..Len(stream'[k]) :
             stream'[p][i].call = stream'[k][j].call => p = k /\ i = j
    BY Zenon, AnswersTail, <2>1, <2>2, <2>3
  <2> QED
    BY Zenon, <2>1, <2>4, <1>a, <1>b DEF AnswersInv
<1>4. ASSUME NEW n \in Conns, NEW c \in Calls, PeerReply(n, c) PROVE AnswersInv'
  <2> DEFINE f == [call |-> c, sess |-> sess[c]]
  <2>1. f \in Replies /\ f.call = c
    BY Zenon DEF TypeOK, CallTypes, Replies
  <2>2. /\ stream' = [stream EXCEPT ![n] = Append(@, f)]
        /\ c \notin answered /\ answered' = answered \cup {c}
        /\ UNCHANGED <<pr, rep>>
    BY Zenon, <1>4 DEF PeerReply, callVars
  <2>3. Sent(c)
    BY SMTT(30), <1>4 DEF PeerReply, RequestsSent
  <2> HIDE DEF f
  <2>4. \A e \in answered' : Sent(e)'
    BY Zenon, <2>2, <2>3 DEF AnswersInv, Sent
  <2>5. \A e \in Calls : rep'[e] # NoCall => pr'[e] = "value" /\ rep'[e] \in answered'
    BY Zenon, <2>2 DEF AnswersInv
  <2>6. \A e \in answered : Undelivered(e) => Undelivered(e)'
    BY Zenon, <2>2 DEF Undelivered
  <2>7. Undelivered(c)'
    BY ZenonT(60), <2>2 DEF Undelivered, AnswersInv
  <2>8. ASSUME NEW k \in Conns, NEW i \in 1..Len(stream'[k])
        PROVE  \/ i \in 1..Len(stream[k]) /\ stream'[k][i] = stream[k][i]
               \/ k = n /\ i = Len(stream[n]) + 1 /\ stream'[k][i] = f
    BY <2>1, <2>2, <1>t
  <2>9. \A k \in Conns : \A i \in 1..Len(stream[k]) : stream[k][i].call \in answered
    BY Zenon DEF AnswersInv, Undelivered
  <2>10. ASSUME NEW k \in Conns, NEW i \in 1..Len(stream'[k])
         PROVE  Undelivered(stream[k][i].call)'
    BY Zenon, <2>1, <2>6, <2>7, <2>8, <2>9 DEF AnswersInv
  <2>11. ASSUME NEW p \in Conns, NEW k \in Conns,
                NEW i \in 1..Len(stream'[p]), NEW j \in 1..Len(stream'[k]),
                stream'[p][i].call = stream'[k][j].call
         PROVE  p = k /\ i = j
    <3>1. ASSUME NEW q \in Conns, NEW h \in 1..Len(stream[q]), f.call = stream[q][h].call
          PROVE  FALSE
      BY Zenon, <2>1, <2>2, <2>9, <3>1
    <3>2. CASE stream'[p][i] = f
      BY ZenonT(60), <2>8, <2>11, <3>1, <3>2
    <3>3. CASE stream'[k][j] = f
      BY ZenonT(60), <2>8, <2>11, <3>1, <3>3
    <3>4. CASE stream'[p][i] # f /\ stream'[k][j] # f
      <4>1. /\ i \in 1..Len(stream[p]) /\ stream'[p][i] = stream[p][i]
            /\ j \in 1..Len(stream[k]) /\ stream'[k][j] = stream[k][j]
        BY Zenon, <2>8, <3>4
      <4>2. stream[p][i].call = stream[k][j].call
        BY Zenon, <2>11, <4>1
      <4>3. \A a, b \in Conns : \A x \in 1..Len(stream[a]), y \in 1..Len(stream[b]) :
              stream[a][x].call = stream[b][y].call => a = b /\ x = y
        BY Zenon DEF AnswersInv
      <4> QED
        BY SMTT(60), <4>1, <4>2, <4>3
    <3> QED
      BY Zenon, <3>2, <3>3, <3>4
  <2> QED
    BY Zenon, <2>4, <2>5, <2>10, <2>11 DEF AnswersInv
<1> QED
  <2>1. CASE /\ \A n \in Conns : ~ReadReply(n) /\ ~ReadUnknownSession(n)
             /\ \A n \in Conns, c \in Calls : ~PeerReply(n, c)
    BY ZenonT(60), <2>1, <1>1, NextCases DEF vars, callVars, envVars, SendRefused, SendThrows,
       SendAccepted, FilterThrows, FiltersDone, Resolve, AcquireMemory, WriteHeader,
       WriteBody, WriteFails, ReadHeader, ReadMalformed, ReadThrows,
       ReadTimesOut, ReaderSetsError, ReaderHandlesException, Connect, Reconnect, Stop,
       CloseGate, Reopen, Stopped, ConnectOk, ConnectFails, PeerCloses
  <2> QED
    BY Zenon, <2>1, <1>2, <1>3, <1>4

(* What is queued or written was sent, and the answers are kept apart.     *)
LEMMA AnswersAlways == Spec => []AnswersInv
<1>1. Init => RequestsSent /\ AnswersInv
  <2> SUFFICES ASSUME Init PROVE RequestsSent /\ AnswersInv
    OBVIOUS
  <2>1. /\ \A c \in Calls : phase[c] # "filtering" /\ rep[c] = NoCall
        /\ memq = <<>> /\ serq = <<>> /\ answered = {}
        /\ \A n \in Conns : wire[n] = <<>> /\ stream[n] = <<>>
    BY Zenon DEF Init
  <2>2. 1..Len(<<>>) = {}
    BY SMTT(30)
  <2>3. RequestsSent
    BY Zenon, <2>1, <2>2 DEF RequestsSent
  <2> QED
    BY Zenon, <2>1, <2>2, <2>3 DEF AnswersInv
<1> QED
  BY <1>1, RequestsNext, AnswersNext, PromiseAlways, TypeCorrect, PTL DEF Spec

-----------------------------------------------------------------------------
(* The client implements RpcCalls until its session ids wrap around.       *)

ResolveInv ==
  /\ \A c \in Calls : pr[c] = "value" => rep[c] # NoCall
  /\ \A c \in Calls : phase[c] = "done" => outcome[c] # "none"
  /\ \A c \in Calls : outcome[c] = "reply" => pr[c] = "value"

(* A call resolves with a reply only when its promise holds one.           *)
LEMMA ResolveNext == TypeOK /\ PromiseInv /\ ResolveInv /\ [Next]_vars => ResolveInv'
<1> SUFFICES ASSUME TypeOK, PromiseInv, ResolveInv, [Next]_vars PROVE ResolveInv'
  BY Zenon
<1> USE ClientConstants
<1>t. /\ phase \in [Calls -> {"idle", "filtering", "awaiting", "done"}]
      /\ outcome \in [Calls -> {"none", "reply", "error"}]
      /\ rep \in [Calls -> Calls \cup {NoCall}]
      /\ pr \in [Calls -> {"none", "pending", "value", "exception"}]
      /\ rpc_slots \in [Sessions -> Calls \cup {NoCall}]
  BY Zenon DEF TypeOK, CallTypes, SlotTypes
<1>s. SetPromisesStay
  BY Zenon, PromiseNext
<1> DEFINE Values == \A c \in Calls : pr[c] = "value" => rep[c] # NoCall
           Outcomes == /\ \A c \in Calls : phase[c] = "done" => outcome[c] # "none"
                       /\ \A c \in Calls : outcome[c] = "reply" => pr[c] = "value"
<1>q. Values' /\ Outcomes' => ResolveInv'
  BY Zenon DEF ResolveInv
<1>o. UNCHANGED <<phase, outcome>> => Outcomes'
  BY Zenon, <1>s DEF ResolveInv, SetPromisesStay
<1>v. UNCHANGED <<pr, rep>> => Values'
  BY Zenon DEF ResolveInv
<1>1. ASSUME NEW c \in Calls, SendRefused(c) \/ SendThrows(c) \/ FilterThrows(c) \/ Resolve(c)
      PROVE  ResolveInv'
  <2>1. /\ phase' = [phase EXCEPT ![c] = "done"] /\ UNCHANGED <<pr, rep>>
        /\ \/ outcome' = [outcome EXCEPT ![c] = "error"]
           \/ pr[c] = "value" /\ outcome' = [outcome EXCEPT ![c] = "reply"]
    BY Zenon, <1>1 DEF SendRefused, SendThrows, FilterThrows, Resolve
  <2>2. Outcomes'
    BY ZenonT(60), <2>1, <1>t DEF ResolveInv
  <2> QED
    BY Zenon, <2>1, <2>2, <1>v, <1>q
<1>2. ASSUME NEW c \in Calls, SendAccepted(c) PROVE ResolveInv'
  <2>1. /\ phase' = [phase EXCEPT ![c] = "filtering"] /\ UNCHANGED <<outcome, rep>>
        /\ pr' = [pr EXCEPT ![c] = "pending"] /\ phase[c] = "idle"
    BY Zenon, <1>2 DEF SendAccepted
  <2>2. pr[c] = "none"
    BY Zenon, <2>1 DEF PromiseInv, IdleHasNoPromise
  <2> QED
    BY Zenon, <2>1, <2>2, <1>t, <1>q DEF ResolveInv
<1>3. ASSUME NEW c \in Calls, FiltersDone(c) PROVE ResolveInv'
  <2>1. /\ phase' = [phase EXCEPT ![c] = "awaiting"] /\ UNCHANGED <<outcome, rep>>
        /\ pr' \in {pr, [pr EXCEPT ![c] = "exception"]}
    BY Zenon, <1>3 DEF FiltersDone
  <2>2. Values'
    BY ZenonT(60), <2>1, <1>t DEF ResolveInv
  <2>3. Outcomes'
    BY Zenon, <2>1, <1>t, <1>s DEF ResolveInv, SetPromisesStay
  <2> QED
    BY Zenon, <2>2, <2>3, <1>q
<1>4. ASSUME NEW n \in Conns, ReadReply(n) PROVE ResolveInv'
  <2> DEFINE m == reader[n].on
             f == Head(stream[m])
             c == rpc_slots[f.sess]
  <2>a. reader[n].st = "payload" /\ stream[m] # <<>>
    BY ZenonT(40), <1>4 DEF ReadReply
  <2>1. /\ c # NoCall /\ rep' = [rep EXCEPT ![c] = f.call] /\ pr' = [pr EXCEPT ![c] = "value"]
        /\ UNCHANGED <<phase, outcome>>
    BY Zenon, <1>4 DEF ReadReply
  <2>2. m \in Conns
    BY SMTT(60), <2>a DEF TypeOK, ReaderTypes, Reading, Off
  <2>3. f \in Replies
    BY SMTT(40), <2>a, <2>2 DEF TypeOK, EnvTypes
  <2>4. f.call \in Calls /\ f.sess \in Sessions
    BY Zenon, <2>3 DEF Replies
  <2> HIDE DEF f
  <2>5. Values'
    BY ZenonT(60), <2>1, <2>4, <1>t DEF ResolveInv
  <2> QED
    BY Zenon, <2>1, <2>5, <1>o, <1>q
<1>5. ASSUME NEW h, fail_outstanding_futures(h), UNCHANGED <<phase, outcome, rep>>
      PROVE  ResolveInv'
  <2>1. Values'
    BY Zenon, <1>5, <1>t DEF fail_outstanding_futures, ResolveInv
  <2> QED
    BY Zenon, <2>1, <1>5, <1>o, <1>q
<1>6. CASE UNCHANGED <<phase, outcome, pr, rep>>
  BY Zenon, <1>6, <1>o, <1>v, <1>q
<1>7. ASSUME NEW n \in Conns, ReadThrows(n) PROVE ResolveInv'
  BY Zenon, <1>5, <1>6, <1>7 DEF ReadThrows, ReaderHandlesException, callVars
<1> QED
  <2>1. CASE UNCHANGED callVars
    BY Zenon, <2>1, <1>6 DEF callVars
  <2>2. CASE \/ WriteFails
             \/ \E n \in Conns : ReadUnknownSession(n) \/ ReadMalformed(n) \/ ReadTimesOut(n)
             \/ \E x \in Controllers : Reconnect(x) \/ Stop(x)
    BY Zenon, <2>2, <1>5 DEF WriteFails, ReadUnknownSession, ReadMalformed, ReadTimesOut,
       ReaderSetsError, ReaderHandlesException, Reconnect, Stop, CloseGate
  <2>3. CASE AcquireMemory \/ WriteHeader \/ WriteBody
    BY Zenon, <2>3, <2>1 DEF AcquireMemory, WriteHeader, WriteBody
  <2>4. CASE \E n \in Conns : \/ ReadHeader(n) \/ PeerCloses(n)
                              \/ \E c \in Calls : PeerReply(n, c)
    BY Zenon, <2>4, <2>1 DEF ReadHeader, PeerCloses, PeerReply
  <2>5. CASE \E x \in Controllers : \/ Connect(x) \/ Reopen(x) \/ Stopped(x)
                                    \/ ConnectOk(x) \/ ConnectFails(x)
    BY Zenon, <2>5, <2>1 DEF Connect, Reopen, Stopped, ConnectOk, ConnectFails
  <2> QED
    BY ZenonT(60), NextCases, <1>1, <1>2, <1>3, <1>4, <1>7, <2>1, <2>2, <2>3, <2>4, <2>5 DEF vars

(* What a call has come to, without the case of a wrong reply.             *)
StatusInv ==
  \A c \in Calls :
    /\ phase[c] = "idle" => CallStatus(c) = "idle"
    /\ phase[c] \in {"filtering", "awaiting"} => CallStatus(c) = "pending"
    /\ phase[c] = "done" /\ outcome[c] = "error" => CallStatus(c) = "failed"
    /\ phase[c] = "done" /\ outcome[c] = "reply" => CallStatus(c) = "replied"

(* A call whose replies are its own has a counterpart in RpcCalls.         *)
LEMMA StatusKnown == TypeOK /\ ResolveInv /\ ReplyMatches => StatusInv
  BY Zenon, ClientConstants DEF StatusInv, ResolveInv, ReplyMatches, CallStatus, TypeOK, CallTypes

(* Every step of the client is a step of RpcCalls or changes nothing there.*)
LEMMA RefinesNext ==
  ASSUME TypeOK, TypeOK', PromiseInv, RequestsSent, AnswersInv, ResolveInv, ResolveInv',
         ReplyMatches, StatusInv, StatusInv', [Next]_vars
  PROVE  [Abstract!Next]_(Abstract!vars)
<1> USE ClientConstants
<1> DEFINE status == [c \in Calls |-> CallStatus(c)]
<1>t. /\ phase \in [Calls -> {"idle", "filtering", "awaiting", "done"}]
      /\ outcome \in [Calls -> {"none", "reply", "error"}]
      /\ phase' \in [Calls -> {"idle", "filtering", "awaiting", "done"}]
      /\ outcome' \in [Calls -> {"none", "reply", "error"}]
  BY Zenon DEF TypeOK, CallTypes
<1>d. \A c \in Calls : /\ phase[c] = "done" => outcome[c] # "none"
                       /\ phase'[c] = "done" => outcome'[c] # "none"
  BY Zenon DEF ResolveInv
<1>c. ASSUME NEW e \in Calls, phase'[e] = phase[e], outcome'[e] = outcome[e]
      PROVE  CallStatus(e)' = CallStatus(e)
  BY <1>c, <1>t, <1>d DEF StatusInv
<1>s. ASSUME NEW c \in Calls, NEW p, NEW o,
             phase' = [phase EXCEPT ![c] = p], outcome' = [outcome EXCEPT ![c] = o]
      PROVE  status' = [status EXCEPT ![c] = CallStatus(c)']
  <2>1. \A e \in Calls : e # c => CallStatus(e)' = CallStatus(e)
    BY ZenonT(60), <1>s, <1>c, <1>t
  <2> QED
    BY Zenon, <2>1
<1>1. CASE UNCHANGED <<phase, outcome, answered>>
  <2>1. status' = status
    BY Zenon, <1>1, <1>c
  <2> QED
    BY Zenon, <2>1, <1>1 DEF Abstract!vars
<1>2. ASSUME NEW c \in Calls, phase[c] # "done", phase' = [phase EXCEPT ![c] = "done"],
             outcome' = [outcome EXCEPT ![c] = "error"], UNCHANGED answered
      PROVE  Abstract!Fail(c)
  <2>1. status' = [status EXCEPT ![c] = CallStatus(c)']
    BY Zenon, <1>2, <1>s
  <2>2. CallStatus(c)' = "failed" /\ CallStatus(c) \in {"idle", "pending"}
    BY ZenonT(60), <1>2, <1>t DEF StatusInv
  <2>3. status[c] \in {"idle", "pending"} /\ status' = [status EXCEPT ![c] = "failed"]
    BY Zenon, <2>1, <2>2
  <2> QED
    BY Zenon, <2>3, <1>2 DEF Abstract!Fail
<1>3. ASSUME NEW c \in Calls, SendAccepted(c) PROVE Abstract!Issue(c)
  <2>1. /\ phase[c] = "idle" /\ phase' = [phase EXCEPT ![c] = "filtering"]
        /\ UNCHANGED <<outcome, answered>>
    BY Zenon, <1>3 DEF SendAccepted, envVars
  <2>2. outcome' = [outcome EXCEPT ![c] = outcome[c]]
    BY Zenon, <2>1, <1>t
  <2>3. status' = [status EXCEPT ![c] = CallStatus(c)']
    BY Zenon, <2>1, <2>2, <1>s
  <2>4. CallStatus(c) = "idle" /\ CallStatus(c)' = "pending"
    BY Zenon, <2>1, <1>t DEF StatusInv
  <2>5. status[c] = "idle" /\ status' = [status EXCEPT ![c] = "pending"]
    BY Zenon, <2>3, <2>4
  <2> QED
    BY Zenon, <2>1, <2>5 DEF Abstract!Issue
<1>4. ASSUME NEW c \in Calls, FiltersDone(c) PROVE UNCHANGED Abstract!vars
  <2>1. /\ phase[c] = "filtering" /\ phase' = [phase EXCEPT ![c] = "awaiting"]
        /\ UNCHANGED <<outcome, answered>>
    BY Zenon, <1>4 DEF FiltersDone, envVars
  <2>2. CallStatus(c)' = CallStatus(c)
    BY Zenon, <2>1, <1>t DEF StatusInv
  <2>3. \A e \in Calls : CallStatus(e)' = CallStatus(e)
    BY Zenon, <2>1, <2>2, <1>c, <1>t
  <2> QED
    BY Zenon, <2>1, <2>3 DEF Abstract!vars
<1>5. ASSUME NEW c \in Calls, Resolve(c) PROVE Abstract!Fail(c) \/ Abstract!Reply(c)
  <2>1. /\ phase[c] = "awaiting" /\ phase' = [phase EXCEPT ![c] = "done"]
        /\ UNCHANGED answered
        /\ \/ outcome' = [outcome EXCEPT ![c] = "error"]
           \/ pr[c] = "value" /\ outcome' = [outcome EXCEPT ![c] = "reply"]
    BY Zenon, <1>5 DEF Resolve, envVars
  <2>2. CASE outcome' = [outcome EXCEPT ![c] = "error"]
    BY Zenon, <2>1, <2>2, <1>2
  <2>3. CASE pr[c] = "value" /\ outcome' = [outcome EXCEPT ![c] = "reply"]
    <3>1. c \in answered
      BY ZenonT(60), <2>3 DEF ResolveInv, ReplyMatches, AnswersInv
    <3>2. status' = [status EXCEPT ![c] = CallStatus(c)']
      BY Zenon, <2>1, <2>3, <1>s
    <3>3. CallStatus(c) = "pending" /\ CallStatus(c)' = "replied"
      BY Zenon, <2>1, <2>3, <1>t DEF StatusInv
    <3>4. status[c] = "pending" /\ status' = [status EXCEPT ![c] = "replied"]
      BY Zenon, <3>2, <3>3
    <3> QED
      BY Zenon, <2>1, <3>1, <3>4 DEF Abstract!Reply
  <2> QED
    BY Zenon, <2>1, <2>2, <2>3
<1>6. ASSUME NEW n \in Conns, NEW c \in Calls, PeerReply(n, c) PROVE Abstract!Serve(c)
  <2>1. c \notin answered /\ answered' = answered \cup {c} /\ UNCHANGED <<phase, outcome>>
    BY ZenonT(60), <1>6 DEF PeerReply, callVars
  <2>2. phase[c] # "idle"
    BY <1>6 DEF PeerReply, RequestsSent, Sent, PromiseInv, IdleHasNoPromise
  <2>3. CallStatus(c) # "idle"
    BY Zenon, <2>2, <1>t, <1>d DEF StatusInv
  <2>4. status[c] # "idle" /\ status' = status
    BY Zenon, <2>1, <2>3, <1>c
  <2> QED
    BY Zenon, <2>1, <2>4 DEF Abstract!Serve
<1> QED
  <2>1. CASE UNCHANGED vars
    BY Zenon, <2>1, <1>1 DEF vars, callVars, envVars
  <2>2. ASSUME NEW c \in Calls, SendRefused(c) \/ SendThrows(c) \/ FilterThrows(c)
        PROVE  Abstract!Fail(c)
    BY Zenon, <2>2, <1>2 DEF SendRefused, SendThrows, FilterThrows, envVars
  <2>3. CASE AcquireMemory \/ WriteHeader \/ WriteBody \/ WriteFails
    BY Zenon, <2>3, <1>1 DEF AcquireMemory, WriteHeader, WriteBody, WriteFails, callVars, envVars
  <2>4. CASE \E n \in Conns : \/ ReadHeader(n) \/ ReadReply(n) \/ ReadUnknownSession(n)
                              \/ ReadMalformed(n) \/ ReadThrows(n) \/ ReadTimesOut(n)
                              \/ PeerCloses(n)
    BY ZenonT(40), <2>4, <1>1 DEF ReadHeader, ReadReply, ReadUnknownSession, ReadMalformed,
       ReadThrows, ReadTimesOut, ReaderSetsError, ReaderHandlesException, PeerCloses,
       callVars, envVars
  <2>5. CASE \E x \in Controllers : \/ Connect(x) \/ Reconnect(x) \/ Stop(x) \/ Reopen(x)
                                    \/ Stopped(x) \/ ConnectOk(x) \/ ConnectFails(x)
    BY ZenonT(60), <2>5, <1>1 DEF Connect, Reconnect, Stop, CloseGate, Reopen, Stopped, ConnectOk,
       ConnectFails, callVars, envVars
  <2> QED
    BY ZenonT(60), NextCases, <1>3, <1>4, <1>5, <1>6, <2>1, <2>2, <2>3, <2>4, <2>5 DEF Abstract!Next

(* As long as fewer than 2^16 requests have been sent the client does what *)
(* RpcCalls promises: a call resolves once, with the answer of the server  *)
(* to that call or with an error.                                          *)
THEOREM ClientImplementsCalls == Spec /\ []NoWrap => ImplementsCalls
<1>1. Init => Abstract!Init
  <2> SUFFICES ASSUME Init PROVE Abstract!Init
    BY Zenon
  <2>1. \A c \in Calls : CallStatus(c) = "idle"
    BY Zenon DEF Init, CallStatus
  <2> QED
    BY Zenon, <2>1 DEF Init, Abstract!Init
<1>2. Init => ResolveInv /\ RequestsSent
  BY DEF Init, ResolveInv, RequestsSent, Sent
<1>3. Spec => []ResolveInv /\ []RequestsSent
  BY <1>2, ResolveNext, RequestsNext, PromiseAlways, TypeCorrect, PTL DEF Spec
<1>4. Spec /\ []NoWrap => []ReplyMatches
  BY RepliesReachTheirCalls, PTL
<1>5. Spec /\ []NoWrap => []StatusInv
  BY <1>3, <1>4, StatusKnown, TypeCorrect, PTL
<1>6. /\ TypeOK /\ TypeOK' /\ PromiseInv /\ RequestsSent /\ AnswersInv /\ ResolveInv /\ ResolveInv'
      /\ ReplyMatches /\ StatusInv /\ StatusInv' /\ [Next]_vars
      => [Abstract!Next]_(Abstract!vars)
  BY Zenon, RefinesNext
<1> QED
  BY <1>1, <1>3, <1>4, <1>5, <1>6, AnswersAlways, PromiseAlways, TypeCorrect, PTL
     DEF Spec, ImplementsCalls, Abstract!Spec

-----------------------------------------------------------------------------
(* What was sent and what was delivered are counted.                       *)

SentCalls == {c \in Calls : Sent(c)}
Delivered == {rep[c] : c \in Calls} \ {NoCall}

CounterInv ==
  /\ IsFiniteSet(SentCalls) /\ Cardinality(SentCalls) <= issued
  /\ read_counter = issued - Cardinality(Delivered)

(* What was delivered was sent, so there is no more of it.                 *)
LEMMA DeliveredFinite ==
  ASSUME SetsAreCounted, TypeOK, AnswersInv, IsFiniteSet(SentCalls)
  PROVE  IsFiniteSet(Delivered) /\ Delivered \subseteq SentCalls
<1>1. Delivered \subseteq SentCalls
  BY DEF Delivered, SentCalls, AnswersInv, TypeOK, EnvTypes
<1> QED
  BY Zenon, <1>1 DEF SetsAreCounted, SubsetsAreFinite

(* Every handler keeps the count.                                          *)
LEMMA CounterNext ==
  ASSUME SetsAreCounted, TypeOK, PromiseInv, AnswersInv, CounterInv, [Next]_vars
  PROVE  CounterInv'
<1> USE ClientConstants
<1>t. /\ rep \in [Calls -> Calls \cup {NoCall}]
      /\ pr \in [Calls -> {"none", "pending", "value", "exception"}]
      /\ rpc_slots \in [Sessions -> Calls \cup {NoCall}]
      /\ issued \in Nat /\ read_counter \in Int
  BY Zenon DEF TypeOK, CallTypes, SlotTypes
<1>f. /\ IsFiniteSet(SentCalls) /\ Cardinality(SentCalls) \in Nat
      /\ IsFiniteSet(Delivered) /\ Cardinality(Delivered) \in Nat
  BY Zenon, DeliveredFinite DEF CounterInv, SetsAreCounted, CountsAreNatural
<1>n. NothingSent => SentCalls' = SentCalls
  BY Zenon DEF NothingSent, SentCalls
<1>d. UNCHANGED rep => Delivered' = Delivered
  BY Zenon DEF Delivered
<1>1. CASE NothingSent /\ UNCHANGED <<rep, issued, read_counter>>
  BY ZenonT(60), <1>1, <1>n, <1>d DEF CounterInv
<1>2. ASSUME NEW c \in Calls, SendThrows(c) PROVE CounterInv'
  <2>1. /\ UNCHANGED <<pr, sess, rep>>
        /\ issued' = issued + 1 /\ read_counter' = read_counter + 1
    BY Zenon, <1>2 DEF SendThrows, TakeSession
  <2>2. NothingSent
    BY Zenon, <2>1 DEF NothingSent, Sent
  <2> QED
    BY SMTT(60), <2>1, <2>2, <1>n, <1>d, <1>f, <1>t DEF CounterInv
<1>3. ASSUME NEW c \in Calls, SendAccepted(c) PROVE CounterInv'
  <2>1. /\ UNCHANGED rep /\ pr' = [pr EXCEPT ![c] = "pending"]
        /\ issued' = issued + 1 /\ read_counter' = read_counter + 1
    BY Zenon, <1>3 DEF SendAccepted, TakeSession
  <2>2. SentCalls' = SentCalls \cup {c}
    BY ZenonT(60), <2>1, <1>t DEF SentCalls, Sent
  <2>3. IsFiniteSet(SentCalls') /\ Cardinality(SentCalls') <= Cardinality(SentCalls) + 1
    <3> DEFINE S == SentCalls
    <3>1. IsFiniteSet(S) /\ Cardinality(S) \in Nat
      BY Zenon, <1>f
    <3> HIDE DEF S
    <3>2. /\ IsFiniteSet(S \cup {c})
          /\ Cardinality(S \cup {c}) = IF c \in S THEN Cardinality(S) ELSE Cardinality(S) + 1
      BY Zenon, <3>1 DEF SetsAreCounted, CountsGrow
    <3> QED
      BY <2>2, <3>1, <3>2 DEF S
  <2>4. Cardinality(SentCalls') \in Nat
    BY Zenon, <2>3 DEF SetsAreCounted, CountsAreNatural
  <2> QED
    BY SMTT(60), <2>1, <2>3, <2>4, <1>d, <1>f, <1>t DEF CounterInv
<1>4. ASSUME NEW n \in Conns, ReadReply(n) PROVE CounterInv'
  <2> DEFINE m == reader[n].on
             f == Head(stream[m])
             c == rpc_slots[f.sess]
  <2>a. reader[n].st = "payload" /\ stream[m] # <<>>
    BY ZenonT(40), <1>4 DEF ReadReply
  <2>1. /\ c # NoCall /\ rep' = [rep EXCEPT ![c] = f.call]
        /\ UNCHANGED <<sess, issued>> /\ read_counter' = read_counter - 1
    BY Zenon, <1>4 DEF ReadReply
  <2>b. NothingSent
    <3>1. \A e \in Calls : SendAccepted(e) => issued' = issued + 1
      BY Zenon DEF SendAccepted, TakeSession
    <3>b. issued \in Nat => issued # issued + 1
      BY SMT
    <3>a. issued' = issued /\ issued # issued + 1
      BY Zenon, <2>1, <3>b, <1>t
    <3>2. \A e \in Calls : ~SendAccepted(e)
      BY Zenon, <3>1, <3>a
    <3> QED
      BY Zenon, <3>2, SentByAccept
  <2>2. m \in Conns
    BY SMTT(60), <2>a DEF TypeOK, ReaderTypes, Reading, Off
  <2>3. f \in Replies /\ f = stream[m][1] /\ 1 \in 1..Len(stream[m])
    BY SMTT(40), <2>a, <2>2 DEF TypeOK, EnvTypes
  <2>4. Undelivered(f.call)
    BY Zenon, <2>2, <2>3 DEF AnswersInv
  <2>5. f.call \in Calls /\ f.sess \in Sessions
    BY ZenonT(60), <2>3 DEF Replies
  <2> HIDE DEF f
  <2>6. c \in Calls /\ pr[c] = "pending"
    BY SMTT(60), <2>1, <2>5, <1>t DEF PromiseInv, SlotsArePending
  <2>7. rep[c] = NoCall
    BY Zenon, <2>6 DEF AnswersInv
  <2>8. f.call \notin Delivered
    BY ZenonT(60), <2>4 DEF Undelivered, Delivered
  <2>9. Delivered' = Delivered \cup {f.call}
    BY SMTT(60), <2>1, <2>5, <2>6, <2>7, <1>t DEF Delivered
  <2>10. Cardinality(Delivered') = Cardinality(Delivered) + 1
    <3>1. Cardinality(Delivered \cup {f.call}) = Cardinality(Delivered) + 1
      BY ZenonT(60), <2>8, <1>f DEF SetsAreCounted, CountsGrow
    <3> QED
      BY Zenon, <2>9, <3>1
  <2> QED
    BY SMTT(60), <2>1, <2>b, <2>10, <1>f, <1>n, <1>t DEF CounterInv
<1> QED
  <2>1. CASE /\ \A c \in Calls : ~SendThrows(c) /\ ~SendAccepted(c)
             /\ \A n \in Conns : ~ReadReply(n)
    <3>1. NothingSent
      BY Zenon, <2>1, SentByAccept
    <3>2. UNCHANGED <<rep, issued, read_counter>>
      BY ZenonT(60), <2>1, NextCases DEF vars, callVars, slotVars, SendRefused,
         FilterThrows, FiltersDone, Resolve, AcquireMemory, WriteHeader,
         WriteBody, WriteFails, ReadHeader, ReadUnknownSession, ReadMalformed, ReadThrows,
         ReadTimesOut, ReaderSetsError, ReaderHandlesException, Connect, Reconnect, Stop,
         CloseGate, Reopen, Stopped, ConnectOk, ConnectFails, PeerReply, PeerCloses
    <3> QED
      BY Zenon, <3>1, <3>2, <1>1
  <2> QED
    BY Zenon, <2>1, <1>2, <1>3, <1>4

(* A reply on its way to the reader has been sent and not delivered, so    *)
(* fewer calls have their reply than were sent.                            *)
LEMMA CounterCovers ==
  ASSUME SetsAreCounted, TypeOK, AnswersInv, CounterInv
  PROVE  ReplyFindsCounterPositive
<1> SUFFICES ASSUME NEW n \in Conns,
                    reader[n].st = "payload", stream[reader[n].on] # <<>>
             PROVE  read_counter > 0
  BY Zenon DEF ReplyFindsCounterPositive
<1> DEFINE m == reader[n].on
           e == stream[m][1].call
<1>1. m \in Conns
  BY SMTT(60) DEF TypeOK, ReaderTypes, Reading, Off
<1>2. 1 \in 1..Len(stream[m])
  BY SMTT(40), <1>1 DEF TypeOK, EnvTypes
<1>3. Undelivered(e)
  BY Zenon, <1>1, <1>2 DEF AnswersInv
<1>4. e \in SentCalls /\ e \notin Delivered
  BY Zenon, <1>3 DEF Undelivered, SentCalls, Delivered, AnswersInv, TypeOK, EnvTypes
<1>5. IsFiniteSet(Delivered) /\ Delivered \subseteq SentCalls /\ Delivered # SentCalls
  BY Zenon, <1>4, DeliveredFinite DEF CounterInv
<1>6. /\ Cardinality(Delivered) <= Cardinality(SentCalls)
      /\ Cardinality(Delivered) # Cardinality(SentCalls)
  BY Zenon, <1>5 DEF CounterInv, SetsAreCounted, SubsetsAreFinite
<1>7. Cardinality(Delivered) \in Nat /\ Cardinality(SentCalls) \in Nat
  BY Zenon, <1>5 DEF CounterInv, SetsAreCounted, CountsAreNatural
<1> QED
  BY SMTT(60), <1>6, <1>7 DEF CounterInv, TypeOK, SlotTypes

-----------------------------------------------------------------------------
(* Requests are framed on every connection.  A connection whose last part  *)
(* is a header is the one the head of serialize_writes_ is half way        *)
(* through, or a write on it has failed and none succeeds again.           *)

FrameInv ==
  /\ half # 0 => serq # <<>>
  /\ \A n \in Conns :
       /\ Framed(wire[n])
       /\ Len(wire[n]) % 2 = 1 => n = half \/ n \in broken
       /\ n = half => /\ Len(wire[n]) % 2 = 1
                      /\ wire[n][Len(wire[n])][2] = Head(serq)

(* Every handler keeps the connections framed.                             *)
LEMMA FrameNext ==
  ASSUME FramesGrow(Calls), TypeOK, FrameInv, [Next]_vars
  PROVE  FrameInv'
<1> USE DEF FrameInv
<1>p. Parts = PartsOf(Calls)
  BY Zenon DEF Parts, PartsOf
<1>t. /\ wire \in [Conns -> Seq(PartsOf(Calls))] /\ memq \in Seq(Calls) /\ serq \in Seq(Calls)
      /\ half \in 0..MaxConns
  BY Zenon, <1>p DEF TypeOK, EnvTypes, WriteTypes
<1>u. wire' \in [Conns -> Seq(PartsOf(Calls))] /\ serq' \in Seq(Calls)
  BY Zenon, <1>p, TypeNext DEF TypeOK, EnvTypes, WriteTypes, Parts, PartsOf
<1>1. CASE UNCHANGED <<serq, half, wire, broken>>
  BY Zenon, <1>1
<1>2. CASE AcquireMemory
  <2>1. /\ memq # <<>> /\ UNCHANGED <<half, wire, broken>> /\ serq' = Append(serq, Head(memq))
    BY ZenonT(60), <1>2 DEF AcquireMemory, Fits, envVars, connVars
  <2>2. serq' # <<>> /\ (serq # <<>> => Head(serq') = Head(serq))
    BY SMTT(60), <2>1, <1>t
  <2>3. UNCHANGED <<half, wire, broken>>
    BY Zenon, <2>1
  <2> QED
    <3>1. \A n \in Conns : n = half => half # 0
      BY SMTT(30) DEF Conns
    <3> QED
      BY ZenonT(60), <2>2, <2>3, <3>1
<1>3. CASE WriteHeader
  <2>1. /\ serq # <<>> /\ half = 0 /\ cur \in Conns /\ cur \notin broken
        /\ wire' = [wire EXCEPT ![cur] = Append(wire[cur], <<"header", Head(serq)>>)]
        /\ half' = cur /\ UNCHANGED <<serq, broken>>
    BY ZenonT(60), <1>3 DEF WriteHeader, Writable, connVars
  <2>2. PICK w \in Seq(PartsOf(Calls)), c \in Calls :
          w = wire[cur] /\ c = Head(serq) /\ Framed(w) /\ Len(w) % 2 = 0
    BY SMTT(90), <2>1, <1>t DEF Conns
  <2>3. PICK v \in Seq(PartsOf(Calls)) : /\ v = Append(w, <<"header", c>>)
                                /\ Framed(v) /\ Len(v) % 2 = 1 /\ v[Len(v)][2] = c
    BY ZenonT(60), <2>2 DEF FramesGrow
  <2>4. wire'[cur] = v /\ \A n \in Conns \ {cur} : wire'[n] = wire[n]
    BY Zenon, <2>1, <2>2, <2>3, <1>t
  <2>5. half' = cur /\ half = 0 /\ UNCHANGED <<serq, broken>> /\ serq # <<>> /\ c = Head(serq)
    BY Zenon, <2>1, <2>2
  <2>6. ASSUME NEW n \in Conns, n # cur
        PROVE  Framed(wire'[n]) /\ (Len(wire'[n]) % 2 = 1 => n \in broken')
    BY SMTT(30), <2>4, <2>5, <2>6, <1>t, <1>u DEF Conns
  <2>7. Framed(wire'[cur]) /\ Len(wire'[cur]) % 2 = 1 /\ wire'[cur][Len(wire'[cur])][2] = Head(serq')
    BY Zenon, <2>3, <2>4, <2>5
  <2> QED
    BY ZenonT(60), <2>5, <2>6, <2>7, <1>t, <1>u
<1>4. CASE WriteBody
  <2>1. /\ serq # <<>> /\ half # 0 /\ half \in Conns
        /\ wire' = [wire EXCEPT ![half] = Append(wire[half], <<"body", Head(serq)>>)]
        /\ half' = 0 /\ UNCHANGED broken
    BY Zenon, <1>4 DEF WriteBody, Writable, ReleaseWriter, connVars
  <2>2. PICK w \in Seq(PartsOf(Calls)), c \in Calls :
          /\ w = wire[half] /\ c = Head(serq) /\ Framed(w) /\ Len(w) % 2 = 1
          /\ w[Len(w)][2] = c
    BY <2>1, <1>t
  <2>3. PICK v \in Seq(PartsOf(Calls)) : v = Append(w, <<"body", c>>) /\ Framed(v) /\ Len(v) % 2 = 0
    BY Zenon, <2>2 DEF FramesGrow
  <2>4. wire'[half] = v /\ \A n \in Conns \ {half} : wire'[n] = wire[n]
    BY Zenon, <2>1, <2>2, <2>3, <1>t
  <2>5. half' = 0 /\ half \in Conns /\ UNCHANGED broken
    BY Zenon, <2>1
  <2>6. ASSUME NEW n \in Conns, n # half
        PROVE  Framed(wire'[n]) /\ (Len(wire'[n]) % 2 = 1 => n \in broken')
    BY Zenon, <2>4, <2>5, <2>6, <1>t, <1>u
  <2>7. Framed(wire'[half]) /\ Len(wire'[half]) % 2 = 0
    BY Zenon, <2>3, <2>4
  <2> QED
    BY SMTT(30), <2>5, <2>6, <2>7, <1>t, <1>u DEF Conns
<1>5. CASE WriteFails
  <2>1. /\ half' = 0 /\ UNCHANGED wire
        /\ broken' = broken \cup {IF half = 0 THEN cur ELSE half}
    BY Zenon, <1>5 DEF WriteFails, ReleaseWriter, envVars
  <2> QED
    BY SMTT(30), <2>1, <1>t, <1>u DEF Conns
<1> QED
  <2>1. CASE UNCHANGED vars
    BY Zenon, <2>1, <1>1 DEF vars, writeVars, connVars, envVars
  <2>2. CASE \E c \in Calls : \/ SendRefused(c) \/ SendThrows(c) \/ SendAccepted(c)
                              \/ FilterThrows(c) \/ FiltersDone(c) \/ Resolve(c)
    BY Zenon, <2>2, <1>1 DEF SendRefused, SendThrows, SendAccepted, FilterThrows, FiltersDone,
       Resolve, writeVars, connVars, envVars
  <2>3. CASE \E n \in Conns : \/ ReadHeader(n) \/ ReadReply(n) \/ ReadUnknownSession(n)
                              \/ ReadMalformed(n) \/ ReadThrows(n) \/ ReadTimesOut(n)
    BY ZenonT(60), <2>3, <1>1 DEF ReadHeader, ReadReply, ReadUnknownSession, ReadMalformed,
       ReadThrows,
       ReadTimesOut, ReaderSetsError, ReaderHandlesException, writeVars, connVars, envVars
  <2>4. CASE \E n \in Conns : PeerCloses(n) \/ \E c \in Calls : PeerReply(n, c)
    BY Zenon, <2>4, <1>1 DEF PeerCloses, PeerReply, writeVars, connVars
  <2>5. CASE \E x \in Controllers : \/ Connect(x) \/ Reconnect(x) \/ Stop(x) \/ Reopen(x)
                                    \/ Stopped(x) \/ ConnectOk(x) \/ ConnectFails(x)
    BY Zenon, <2>5, <1>1 DEF Connect, Reconnect, Stop, CloseGate, Reopen, Stopped, ConnectOk,
       ConnectFails, writeVars, connVars, envVars
  <2> QED
    BY ZenonT(60), NextCases, <1>2, <1>3, <1>4, <1>5, <2>1, <2>2, <2>3, <2>4, <2>5

-----------------------------------------------------------------------------
(* The theorems that rest on a fact of ProofFacts.                         *)

INSTANCE ProofLemmas

(* The assertion of process_one_request holds: a reply that arrives finds  *)
(* read_counter_ positive, also once session ids have wrapped around and   *)
(* replies reach calls other than their own.                               *)
THEOREM ReadsAreCounted == Spec => []ReplyFindsCounterPositive
<1>1. Init => CounterInv
  <2> SUFFICES ASSUME Init PROVE CounterInv
    BY Zenon
  <2>1. SentCalls = {} /\ Delivered = {}
    BY Zenon DEF Init, SentCalls, Delivered, Sent
  <2> QED
    BY SMTT(60), <2>1, FS_EmptySet DEF Init, CounterInv
<1>2. TypeOK /\ PromiseInv /\ AnswersInv /\ CounterInv /\ [Next]_vars => CounterInv'
  BY ZenonT(60), CounterNext, SetsAreCountedAlways
<1>3. TypeOK /\ AnswersInv /\ CounterInv => ReplyFindsCounterPositive
  BY ZenonT(60), CounterCovers, SetsAreCountedAlways
<1> QED
  BY <1>1, <1>2, <1>3, AnswersAlways, PromiseAlways, TypeCorrect, PTL DEF Spec

(* Concurrent writes never interleave on a connection, and no request is   *)
(* written after a half-written one, for any number of calls, connections  *)
(* and controllers.                                                        *)
THEOREM RequestsAreFramed == Spec => []WireFramed
<1>1. Init => FrameInv
  BY DEF Init, FrameInv, Framed, Conns
<1>2. TypeOK /\ FrameInv /\ [Next]_vars => FrameInv'
  BY ZenonT(60), FrameNext, FramesGrowAlways
<1>3. FrameInv => WireFramed
  BY Zenon DEF FrameInv, Framed, WireFramed
<1> QED
  BY <1>1, <1>2, <1>3, TypeCorrect, PTL DEF Spec

=============================================================================

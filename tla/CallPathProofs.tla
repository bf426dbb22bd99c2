--------------------------- MODULE CallPathProofs ---------------------------
(***************************************************************************)
(* Proofs about RpcCallPath, for every set of services, bodies, filter     *)
(* chains and every hash function.                                         *)
(***************************************************************************)
EXTENDS RpcCallPath, ProofLemmas

(* Where get_handle_for_request finds the id.                              *)
Hits(ss, id) == {i \in DOMAIN ss : Serves(ss[i], id)}

MethodAt(ss, id, i) == CHOOSE m \in MethodsOf[ss[i]] : RequestId[m] = id

(* The router finds nothing, or the method of the first service that has   *)
(* one with the id.                                                        *)
LEMMA RouteFirst ==
  ASSUME NEW ss \in Seq(Services), NEW id
  PROVE  /\ Hits(ss, id) = {} => Route(ss, id) = None
         /\ \A i \in Hits(ss, id) : (\A j \in Hits(ss, id) : i <= j) =>
              Route(ss, id) = MethodAt(ss, id, i)
<1>1. Hits(ss, id) = {} => Route(ss, id) = None
  BY Zenon DEF Route, Hits
<1>2. ASSUME NEW i \in Hits(ss, id), \A j \in Hits(ss, id) : i <= j
      PROVE  Route(ss, id) = MethodAt(ss, id, i)
  <2> DEFINE hits == Hits(ss, id)
             least == CHOOSE k \in hits : \A j \in hits : k <= j
  <2>1. least \in hits /\ \A j \in hits : least <= j
    BY Zenon, <1>2
  <2>2. least = i
    BY <2>1, <1>2 DEF Hits
  <2>3. hits # {} /\ hits = {k \in DOMAIN ss : Serves(ss[k], id)}
    BY Zenon DEF Hits
  <2>4. Route(ss, id) = MethodAt(ss, id, least)
    BY Zenon, <2>3 DEF Route, MethodAt
  <2> QED
    BY Zenon, <2>2, <2>4
<1> QED
  BY Zenon, <1>1, <1>2

(* What the router finds has the id it was asked for.                      *)
LEMMA RouteServes ==
  ASSUME NEW ss \in Seq(Services), NEW id, Route(ss, id) # None
  PROVE  Route(ss, id) \in Method /\ RequestId[Route(ss, id)] = id
<1>1. Hits(ss, id) # {} /\ Hits(ss, id) \subseteq Nat
  BY RouteFirst DEF Hits
<1>2. PICK i \in Hits(ss, id) : \A j \in Hits(ss, id) : i <= j
  BY Zenon, <1>1, LeastExists
<1>3. Route(ss, id) = MethodAt(ss, id, i)
  BY Zenon, <1>2, RouteFirst
<1>4. ss[i] \in Services /\ Serves(ss[i], id)
  BY <1>2 DEF Hits
<1>5. MethodAt(ss, id, i) \in MethodsOf[ss[i]] /\ RequestId[MethodAt(ss, id, i)] = id
  BY Zenon, <1>4 DEF Serves, MethodAt
<1> QED
  BY Zenon, <1>3, <1>4, <1>5 DEF Method

(* A service registered later changes no route that exists.                *)
LEMMA RouteStays ==
  ASSUME NEW ss \in Seq(Services), NEW s \in Services, NEW id, Route(ss, id) # None
  PROVE  Route(Append(ss, s), id) = Route(ss, id)
<1> DEFINE tt == Append(ss, s)
<1>1. Hits(ss, id) # {} /\ Hits(ss, id) \subseteq Nat
  BY RouteFirst DEF Hits
<1>2. PICK i \in Hits(ss, id) : \A j \in Hits(ss, id) : i <= j
  BY Zenon, <1>1, LeastExists
<1>3. tt \in Seq(Services) /\ DOMAIN tt = 1..(Len(ss) + 1) /\ \A j \in 1..Len(ss) : tt[j] = ss[j]
  OBVIOUS
<1>4. i \in Hits(tt, id) /\ \A j \in Hits(tt, id) : j \in Hits(ss, id) \/ j = Len(ss) + 1
  BY <1>3 DEF Hits
<1>5. i \in 1..Len(ss)
  BY DEF Hits
<1>6. \A j \in Hits(tt, id) : i <= j
  BY SMTT(60), <1>2, <1>4, <1>5
<1> HIDE DEF tt
<1>7. Route(tt, id) = MethodAt(tt, id, i)
  BY ZenonT(60), <1>3, <1>4, <1>6, RouteFirst
<1>8. MethodAt(tt, id, i) = MethodAt(ss, id, i)
  BY Zenon, <1>3, <1>5 DEF MethodAt
<1>9. Route(ss, id) = MethodAt(ss, id, i)
  BY Zenon, <1>2, RouteFirst
<1> QED
  BY Zenon, <1>7, <1>8, <1>9 DEF tt

-----------------------------------------------------------------------------
(* What the theorems rest on: a damage that changed the checksum is never  *)
(* read, an outgoing message is described by its header whatever happened  *)
(* before, and each leg of the path carries the data and the id or status  *)
(* it started with.                                                        *)

Request == at \in {"client_out", "to_server", "server_in"}
Reply == at \in {"server_out", "to_client", "client_in"}

DamageInv ==
  /\ at \in {"idle", "client_out"} => Untouched
  /\ at \in {"server_in", "server_out", "client_in"} => "damage" \notin faults
  /\ at \in {"to_server", "to_client"} /\ "damage" \in faults => msg.checksum # Hash(msg.body)
  /\ at = "server_out" => Described(msg)

CarryInv ==
  /\ Request => msg.meta = RequestId[call.method] /\ (Untouched => msg.body.data = call.data)
  /\ Reply => msg.meta = reply.status /\ (Untouched => msg.body.data = reply.data)
  /\ at = "server_in" => RequestId[handler] = RequestId[call.method]
  /\ at = "idle" => seen = None
  /\ got # None => at = "answered"

IInv == TypeOK /\ HeaderDescribesBody /\ DamageInv /\ CarryInv /\ DeliveredIntact

(* The invariant holds at first.                                           *)
LEMMA InitIInv == Init => IInv
<1> SUFFICES ASSUME Init PROVE IInv
  BY Zenon
<1> DEFINE d == CHOOSE d \in Data : TRUE
<1>1. d \in Data
  BY Zenon, DataAssumption
<1>2. msg = Envelope("none", 0, 0, Plain(d)) /\ at = "idle" /\ faults = {}
  BY ZenonT(60) DEF Init
<1> HIDE DEF d
<1>3. TypeOK
  BY SMTT(60), <1>1, <1>2 DEF Init, TypeOK, Stages, Envelope, Plain
<1>4. Described(msg)
  BY Zenon, <1>2 DEF Described, Envelope, Plain, Codecs
<1>5. DamageInv /\ CarryInv
  BY Zenon, <1>2 DEF Init, DamageInv, CarryInv, Request, Reply, Untouched
<1> QED
  BY ZenonT(60), <1>3, <1>4, <1>5 DEF Init, IInv, HeaderDescribesBody, DeliveredIntact

(* A compression filter leaves a described message with its data.          *)
LEMMA CompressKeeps ==
  ASSUME TypeOK, Described(msg), NEW f \in Codecs
  PROVE  LET m == Compress(f, msg)
         IN /\ Described(m) /\ m.meta = msg.meta /\ m.body.data = msg.body.data
            /\ m.compression \in {"none", "disabled"} \cup Codecs
            /\ m.body \in [data : Data, as : {<<>>, <<"zstd">>, <<"lz4">>}]
<1>1. CASE Skips(msg)
  BY ZenonT(60), <1>1 DEF Compress, TypeOK
<1>2. CASE ~Skips(msg)
  <2>1. Compress(f, msg) = Envelope(f, msg.session, msg.meta, Packed(f, msg.body))
    BY Zenon, <1>2 DEF Compress
  <2>2. msg.body.as = <<>>
    BY ZenonT(60), <1>2 DEF Skips, Described, Codecs
  <2>3. Packed(f, msg.body) = [data |-> msg.body.data, as |-> <<f>>]
    BY SMTT(60), <2>2 DEF Packed
  <2> QED
    BY SMTT(60), <2>1, <2>3 DEF Envelope, Described, TypeOK, Codecs
<1> QED
  BY Zenon, <1>1, <1>2

(* A decompression filter, too.                                            *)
LEMMA DecompressKeeps ==
  ASSUME TypeOK, NEW f \in Codecs, Unpackable(f, msg)
  PROVE  LET m == Decompress(f, msg)
         IN /\ Described(msg) => Described(m)
            /\ m.meta = msg.meta /\ m.body.data = msg.body.data
            /\ m.compression \in {"none", "disabled"} \cup Codecs
            /\ m.body \in [data : Data, as : {<<>>, <<"zstd">>, <<"lz4">>}]
<1>1. CASE msg.compression # f
  BY ZenonT(60), <1>1 DEF Decompress, TypeOK
<1>2. CASE msg.compression = f
  <2> DEFINE b == [data |-> msg.body.data, as |-> Tail(msg.body.as)]
  <2>1. Decompress(f, msg) = Envelope("none", msg.session, msg.meta, b)
    BY Zenon, <1>2 DEF Decompress
  <2>2. msg.body.as \in {<<"zstd">>, <<"lz4">>} /\ msg.body.data \in Data
    BY Zenon, <1>2 DEF Unpackable, TypeOK
  <2>3. b = [data |-> msg.body.data, as |-> <<>>]
    <3>1. Tail(<<"zstd">>) = <<>> /\ Tail(<<"lz4">>) = <<>>
      OBVIOUS
    <3>2. Tail(msg.body.as) = <<>>
      BY <2>2, <3>1, Zenon
    <3> QED
      BY <3>2, Zenon
  <2> HIDE DEF b
  <2> QED
    BY SMTT(60), <2>1, <2>2, <2>3 DEF Envelope, Described, Codecs
<1> QED
  BY ZenonT(60), <1>1, <1>2

(* Every step keeps the invariant.                                         *)
LEMMA NextIInv == IInv /\ [Next]_vars => IInv'
<1> SUFFICES ASSUME IInv, [Next]_vars PROVE IInv'
  BY Zenon
<1>t. TypeOK /\ HeaderDescribesBody /\ DamageInv /\ CarryInv /\ DeliveredIntact
  BY ZenonT(60) DEF IInv
<1> USE DEF OutStages, InStages, Request, Reply, Untouched
<1>1. CASE UNCHANGED vars
  BY SMTT(60), <1>1, <1>t DEF vars, IInv, TypeOK, HeaderDescribesBody, Described, DamageInv,
     CarryInv,
     DeliveredIntact
<1>2. ASSUME NEW s \in Services, Register(s) PROVE IInv'
  <2>1. TypeOK'
    BY SMTT(60), <1>2, <1>t DEF Register, TypeOK, Stages
  <2>2. HeaderDescribesBody'
    BY ZenonT(60), <1>2, <1>t DEF Register, HeaderDescribesBody, Described
  <2>3. DamageInv'
    BY Zenon, <1>2, <1>t DEF Register, DamageInv, Described
  <2>4. CarryInv'
    BY ZenonT(60), <1>2, <1>t DEF Register, CarryInv
  <2>5. DeliveredIntact'
    BY ZenonT(60), <1>2, <1>t DEF Register, DeliveredIntact
  <2> QED
    BY ZenonT(60), <2>1, <2>2, <2>3, <2>4, <2>5 DEF IInv
<1>3. ASSUME NEW m \in Method, NEW d \in Data, NEW off \in BOOLEAN, Stub(m, d, off) PROVE IInv'
  <2>1. TypeOK'
    BY ZenonT(60), <1>3, <1>t DEF Stub, Envelope, Plain, Flag, TypeOK, Stages
  <2>2. HeaderDescribesBody'
    BY ZenonT(60), <1>3, <1>t DEF Stub, Envelope, Plain, Flag, HeaderDescribesBody, Described, Codecs
  <2>3. DamageInv'
    BY ZenonT(60), <1>3, <1>t DEF Stub, Envelope, Plain, Flag, DamageInv
  <2>4. CarryInv'
    BY ZenonT(60), <1>3, <1>t DEF Stub, Envelope, Plain, Flag, CarryInv
  <2>5. DeliveredIntact'
    BY ZenonT(60), <1>3, <1>t DEF Stub, Envelope, Plain, Flag, DeliveredIntact, CarryInv
  <2> QED
    BY ZenonT(60), <2>1, <2>2, <2>3, <2>4, <2>5 DEF IInv
<1> DEFINE Moved == \/ UserFilterThrows \/ CompressThrows \/ UncompressThrows
                   \/ SendRequest \/ SendReply
                   \/ ServerRefuses \/ ServerNoRoute \/ ServerCannotDecompress \/ ClientRefuses
<1>4. ASSUME Moved PROVE IInv'
  <2> USE DEF UserFilterThrows, CompressThrows, UncompressThrows, Thrown, SendRequest,
              SendReply, ServerRefuses, ServerNoRoute, ServerCannotDecompress, ClientRefuses
  <2>1. TypeOK'
    BY ZenonT(60), <1>4, <1>t DEF TypeOK, Stages
  <2>2. HeaderDescribesBody'
    BY ZenonT(60), <1>4, <1>t DEF HeaderDescribesBody, Described
  <2>3. DamageInv'
    BY ZenonT(60), <1>4, <1>t DEF DamageInv, Described
  <2>4. CarryInv'
    BY ZenonT(60), <1>4, <1>t DEF CarryInv
  <2>5. DeliveredIntact'
    BY ZenonT(60), <1>4, <1>t DEF DeliveredIntact
  <2> QED
    BY ZenonT(60), <2>1, <2>2, <2>3, <2>4, <2>5 DEF IInv
<1>5. ASSUME ApplyOut PROVE IInv'
  <2>d. Described(msg)
    BY ZenonT(60), <1>5, <1>t DEF ApplyOut, HeaderDescribesBody, DamageInv
  <2>a. /\ Described(msg)'
        /\ msg'.meta = msg.meta /\ msg'.body.data = msg.body.data
        /\ msg'.compression \in {"none", "disabled"} \cup Codecs
        /\ msg'.body \in [data : Data, as : {<<>>, <<"zstd">>, <<"lz4">>}]
    BY ZenonT(60), <1>5, <1>t, <2>d, CompressKeeps DEF ApplyOut, TypeOK, Described
  <2>1. TypeOK'
    BY ZenonT(60), <1>5, <1>t, <2>a DEF ApplyOut, TypeOK, Stages
  <2>2. HeaderDescribesBody'
    BY ZenonT(60), <1>5, <1>t, <2>a DEF ApplyOut, HeaderDescribesBody
  <2>3. DamageInv'
    BY ZenonT(60), <1>5, <1>t, <2>a DEF ApplyOut, DamageInv
  <2>4. CarryInv'
    BY ZenonT(60), <1>5, <1>t, <2>a DEF ApplyOut, CarryInv
  <2>5. DeliveredIntact'
    BY ZenonT(60), <1>5, <1>t DEF ApplyOut, DeliveredIntact
  <2> QED
    BY Zenon, <2>1, <2>2, <2>3, <2>4, <2>5 DEF IInv
<1>6. ASSUME ApplyIn PROVE IInv'
  <2>a. /\ Described(msg) => Described(msg)'
        /\ msg'.meta = msg.meta /\ msg'.body.data = msg.body.data
        /\ msg'.compression \in {"none", "disabled"} \cup Codecs
        /\ msg'.body \in [data : Data, as : {<<>>, <<"zstd">>, <<"lz4">>}]
    BY ZenonT(60), <1>6, <1>t, DecompressKeeps DEF ApplyIn, TypeOK, Described
  <2>1. TypeOK'
    BY ZenonT(60), <1>6, <1>t, <2>a DEF ApplyIn, TypeOK, Stages
  <2>2. HeaderDescribesBody'
    BY ZenonT(60), <1>6, <1>t, <2>a DEF ApplyIn, HeaderDescribesBody
  <2>3. DamageInv'
    BY ZenonT(60), <1>6, <1>t, <2>a DEF ApplyIn, DamageInv
  <2>4. CarryInv'
    BY ZenonT(60), <1>6, <1>t, <2>a DEF ApplyIn, CarryInv
  <2>5. DeliveredIntact'
    BY ZenonT(60), <1>6, <1>t DEF ApplyIn, DeliveredIntact
  <2> QED
    BY Zenon, <2>1, <2>2, <2>3, <2>4, <2>5 DEF IInv
<1>7. ASSUME Damage PROVE IInv'
  <2>a. PICK d \in Data, as \in {<<>>, <<"zstd">>, <<"lz4">>} :
          LET b == [data |-> d, as |-> as]
          IN /\ msg' = [compression |-> msg.compression, session |-> msg.session, meta |-> msg.meta,
                        size |-> msg.size, checksum |-> msg.checksum, body |-> b]
             /\ faults' = faults \cup {IF Hash(b) = Hash(msg.body) THEN "collision" ELSE "damage"}
    BY ZenonT(60), <1>7 DEF Damage
  <2>b. msg'.meta = msg.meta /\ msg'.checksum = msg.checksum /\ msg'.body = [data |-> d, as |-> as]
    BY Zenon, <2>a
  <2>c. Untouched /\ at \in {"to_server", "to_client"}
    BY ZenonT(60), <1>7 DEF Damage
  <2>1. TypeOK'
    BY ZenonT(60), <1>7, <1>t, <2>a DEF Damage, TypeOK, Stages
  <2>2. HeaderDescribesBody'
    BY ZenonT(60), <1>7, <1>t, <2>a DEF Damage, HeaderDescribesBody
  <2>3. DamageInv'
    BY ZenonT(60), <1>7, <1>t, <2>a, <2>b, <2>c DEF Damage, DamageInv, HeaderDescribesBody,
       Described
  <2>4. CarryInv'
    BY ZenonT(60), <1>7, <1>t, <2>a, <2>b, <2>c DEF Damage, CarryInv
  <2>5. DeliveredIntact'
    BY ZenonT(60), <1>7, <1>t, <2>a DEF Damage, DeliveredIntact
  <2> QED
    BY ZenonT(60), <2>1, <2>2, <2>3, <2>4, <2>5 DEF IInv
<1>8. ASSUME ServerReceives PROVE IInv'
  <2>r. handler' \in Method /\ RequestId[handler'] = msg.meta
    BY ZenonT(60), <1>8, <1>t, RouteServes DEF ServerReceives, TypeOK
  <2>1. TypeOK'
    BY ZenonT(60), <1>8, <1>t, <2>r DEF ServerReceives, Parsed, TypeOK, Stages
  <2>2. HeaderDescribesBody'
    BY ZenonT(60), <1>8, <1>t DEF ServerReceives, Parsed, HeaderDescribesBody, Described, Codecs
  <2>3. DamageInv'
    BY ZenonT(60), <1>8, <1>t DEF ServerReceives, Parsed, DamageInv, Readable, PayloadOk
  <2>4. CarryInv'
    BY ZenonT(60), <1>8, <1>t, <2>r DEF ServerReceives, Parsed, CarryInv
  <2>5. DeliveredIntact'
    BY ZenonT(60), <1>8, <1>t DEF ServerReceives, Parsed, DeliveredIntact
  <2> QED
    BY Zenon, <2>1, <2>2, <2>3, <2>4, <2>5 DEF IInv
<1>9. ASSUME NEW d \in Data, NEW status \in Statuses, NEW off \in BOOLEAN, Handle(d, status, off) PROVE IInv'
  <2>s. "collision" \notin faults => msg.body = Plain(call.data)
    BY SMTT(60), <1>9, <1>t DEF Handle, StillCompressed, TypeOK, HeaderDescribesBody, Described,
       DamageInv,
       CarryInv, Plain, Codecs
  <2>1. TypeOK'
    BY ZenonT(60), <1>9, <1>t DEF Handle, ReplyEnvelope, Envelope, Plain, Flag, TypeOK, Stages
  <2>2. HeaderDescribesBody'
    BY ZenonT(60), <1>9, <1>t DEF Handle, ReplyEnvelope, Envelope, Plain, Flag, HeaderDescribesBody,
       Described, Codecs
  <2>3. DamageInv'
    BY ZenonT(60), <1>9, <1>t DEF Handle, ReplyEnvelope, Envelope, Plain, Flag, DamageInv,
       Described, Codecs
  <2>4. CarryInv'
    BY ZenonT(60), <1>9, <1>t DEF Handle, ReplyEnvelope, Envelope, Plain, Flag, CarryInv
  <2>5. DeliveredIntact'
    BY ZenonT(60), <1>9, <1>t, <2>s DEF Handle, ReplyEnvelope, Envelope, Plain, Flag,
       DeliveredIntact, CarryInv
  <2> QED
    BY ZenonT(60), <2>1, <2>2, <2>3, <2>4, <2>5 DEF IInv
<1>10. ASSUME HandlerThrows PROVE IInv'
  <2>s. "collision" \notin faults => msg.body = Plain(call.data)
    BY ZenonT(60), <1>10, <1>t DEF HandlerThrows, StillCompressed, TypeOK, HeaderDescribesBody,
       Described,
       DamageInv, CarryInv, Plain, Codecs
  <2>1. TypeOK'
    BY Zenon, <1>10, <1>t DEF HandlerThrows, Thrown, TypeOK, Stages
  <2>2. HeaderDescribesBody'
    BY ZenonT(60), <1>10, <1>t DEF HandlerThrows, Thrown, HeaderDescribesBody, Described
  <2>3. DamageInv'
    BY ZenonT(60), <1>10, <1>t DEF HandlerThrows, Thrown, DamageInv
  <2>4. CarryInv'
    BY ZenonT(60), <1>10, <1>t DEF HandlerThrows, Thrown, CarryInv
  <2>5. DeliveredIntact'
    BY ZenonT(60), <1>10, <1>t, <2>s DEF HandlerThrows, Thrown, DeliveredIntact, CarryInv
  <2> QED
    BY Zenon, <2>1, <2>2, <2>3, <2>4, <2>5 DEF IInv
<1>11. ASSUME ClientReceives PROVE IInv'
  <2>1. TypeOK'
    BY ZenonT(60), <1>11, <1>t DEF ClientReceives, Parsed, TypeOK, Stages
  <2>2. HeaderDescribesBody'
    BY ZenonT(60), <1>11, <1>t DEF ClientReceives, Parsed, HeaderDescribesBody, Described, Codecs
  <2>3. DamageInv'
    BY ZenonT(60), <1>11, <1>t DEF ClientReceives, Parsed, DamageInv, Readable, PayloadOk
  <2>4. CarryInv'
    BY ZenonT(60), <1>11, <1>t DEF ClientReceives, Parsed, CarryInv
  <2>5. DeliveredIntact'
    BY ZenonT(60), <1>11, <1>t DEF ClientReceives, Parsed, DeliveredIntact
  <2> QED
    BY Zenon, <2>1, <2>2, <2>3, <2>4, <2>5 DEF IInv
<1>12. ASSUME Answer PROVE IInv'
  <2>s. "collision" \notin faults /\ ~StillCompressed => msg.body = Plain(reply.data)
    BY ZenonT(60), <1>12, <1>t DEF Answer, StillCompressed, TypeOK, HeaderDescribesBody, Described,
       DamageInv, CarryInv, Plain, Codecs
  <2>1. TypeOK'
    BY Zenon, <1>12, <1>t DEF Answer, TypeOK, Stages
  <2>2. HeaderDescribesBody'
    BY ZenonT(60), <1>12, <1>t DEF Answer, HeaderDescribesBody, Described
  <2>3. DamageInv'
    BY ZenonT(60), <1>12, <1>t DEF Answer, DamageInv
  <2>4. CarryInv'
    BY ZenonT(60), <1>12, <1>t DEF Answer, CarryInv
  <2>5. DeliveredIntact'
    BY ZenonT(60), <1>12, <1>t, <2>s DEF Answer, DeliveredIntact, CarryInv
  <2> QED
    BY Zenon, <2>1, <2>2, <2>3, <2>4, <2>5 DEF IInv
<1> QED
  BY ZenonT(60), <1>1, <1>2, <1>3, <1>4, <1>5, <1>6, <1>7, <1>8, <1>9, <1>10, <1>11, <1>12 DEF Next

-----------------------------------------------------------------------------
(* The invariant holds throughout.                                         *)
LEMMA IInvAlways == Spec => []IInv
  BY InitIInv, NextIInv, PTL DEF Spec

(* Every variable keeps its type: no chain of filters leaves a body packed *)
(* in two codecs, or unpacks what it does not know.                        *)
THEOREM TypeCorrect == Spec => []TypeOK
<1>1. IInv => TypeOK
  BY ZenonT(60) DEF IInv
<1> QED
  BY <1>1, IInvAlways, PTL

(* Size, checksum and flag of the header are those of the body at every    *)
(* stage, in whatever order and number the filters are chained.            *)
THEOREM HeadersDescribe == Spec => []HeaderDescribesBody
<1>1. IInv => HeaderDescribesBody
  BY ZenonT(60) DEF IInv
<1> QED
  BY <1>1, IInvAlways, PTL

(* Handler and caller are given what the other side sent, and the handler  *)
(* has the id that was called, with any filters and any damage short of a  *)
(* collision of the checksum.                                              *)
THEOREM Intact == Spec => []DeliveredIntact
<1>1. IInv => DeliveredIntact
  BY Zenon DEF IInv
<1> QED
  BY <1>1, IInvAlways, PTL

(* register_service takes no id from a service registered before it.       *)
THEOREM StableRoutes == Spec => RoutesAreStable
<1> DEFINE Stable == \A m \in Method : Route(services, RequestId[m]) # None =>
                       Route(services', RequestId[m]) = Route(services, RequestId[m])
<1>1. IInv /\ [Next]_vars => [Stable]_vars
  <2> SUFFICES ASSUME TypeOK, Next PROVE Stable
    BY Zenon DEF IInv
  <2>1. CASE services' = services
    BY Zenon, <2>1
  <2>2. ASSUME NEW s \in Services, services' = Append(services, s) PROVE Stable
    BY ZenonT(60), <2>2, RouteStays DEF TypeOK
  <2>3. services' = services \/ \E s \in Services : services' = Append(services, s)
    BY Zenon DEF Next, Register, Stub, ApplyOut, ApplyIn, UserFilterThrows, CompressThrows,
       UncompressThrows, SendRequest, Damage, ServerRefuses, ServerNoRoute, ServerReceives, ServerCannotDecompress, Handle,
       HandlerThrows, SendReply, ClientRefuses, ClientReceives, Answer
  <2> QED
    BY ZenonT(60), <2>1, <2>2, <2>3
<1> QED
  BY <1>1, IInvAlways, PTL DEF Spec, RoutesAreStable

-----------------------------------------------------------------------------
(* Which calls are answered.  While a chain is being applied, what is left *)
(* of it does to the message at hand what the whole chain does to the body *)
(* the stub or the handler wrote.                                          *)

(* The body the rest of an outgoing chain makes of a message.              *)
BodyAfter(chain, m) ==
  IF Skips(m) \/ CodecsIn(chain) = {} THEN m.body
  ELSE Packed(FirstCodec(chain), m.body)

(* No filter of the rest throws.                                           *)
PacksAfter(chain, m) ==
  Skips(m) \/ CodecsIn(chain) = {} \/ Packable(FirstCodec(chain), m.body)

(* The rest of an incoming chain has the filter a message needs.           *)
Unpacks(chain, m) == m.compression = "none" \/ \E i \in DOMAIN chain : chain[i] = m.compression

(* What parse_header and parse_payload refuse whatever the filters are.    *)
Unreadable(b) == Size(b) = 0 \/ Hash(b) = 0 \/ Size(b) > MaxFlatbuffers

NoFilter(b, chain) == b.as # <<>> /\ \A i \in DOMAIN chain : chain[i] # Head(b.as)

RequestBody == WireBody(conf.client_out, call.off, call.data)
ReplyBody == WireBody(conf.server_out, reply.off, reply.data)

RequestPacks == ~CannotPack(conf.client_out, call.off, call.data)
ReplyPacks == ~CannotPack(conf.server_out, reply.off, reply.data)

RequestInv ==
  /\ at = "client_out" =>
       BodyAfter(todo, msg) = RequestBody /\ (PacksAfter(todo, msg) <=> RequestPacks)
  /\ at \in {"to_server", "server_in"} => RequestPacks
  /\ at = "to_server" => msg.body = RequestBody
  /\ at = "server_in" =>
       /\ RequestId[call.method] # 0 /\ ~Unreadable(RequestBody)
       /\ Unpacks(todo, msg) <=> ~NoFilter(RequestBody, conf.server_in)

ReplyInv ==
  /\ Reply => reply # None /\ ~RequestRefused
  /\ at = "server_out" =>
       BodyAfter(todo, msg) = ReplyBody /\ (PacksAfter(todo, msg) <=> ReplyPacks)
  /\ at \in {"to_client", "client_in"} => ReplyPacks
  /\ at = "to_client" => msg.body = ReplyBody
  /\ at = "client_in" =>
       /\ reply.status # 0 /\ ~Unreadable(ReplyBody)
       /\ Unpacks(todo, msg) <=> ~NoFilter(ReplyBody, conf.client_in)

PathInv ==
  /\ conf \in [debug : BOOLEAN, client_out : OutChains, server_in : InChains,
               server_out : OutChains, client_in : InChains]
  /\ todo \in Seq(STRING)
  /\ at = "idle" \/ Request => reply = None
  /\ Request \/ Reply => msg.session = Session
  /\ at \in InStages => msg.compression # "disabled"
  /\ faults = {} => RequestInv /\ ReplyInv

AnswersInv == PathInv /\ AnsweredUnlessRefused

(* The first codec of a chain is the one of its lowest index.              *)
LEMMA FirstIs ==
  ASSUME NEW chain \in Seq(STRING), NEW i \in CodecsIn(chain), \A j \in CodecsIn(chain) : i <= j
  PROVE  FirstCodec(chain) = chain[i]
<1> DEFINE k == CHOOSE k \in CodecsIn(chain) : \A j \in CodecsIn(chain) : k <= j
<1>1. k \in CodecsIn(chain) /\ \A j \in CodecsIn(chain) : k <= j
  BY Zenon
<1>2. CodecsIn(chain) \subseteq Nat
  BY DEF CodecsIn
<1> HIDE DEF k
<1>3. k = i
  BY SMTT(60), <1>1, <1>2
<1> QED
  BY Zenon, <1>3 DEF FirstCodec, k

(* A codec at the head of a chain is its first.                            *)
LEMMA FirstAtHead ==
  ASSUME NEW chain \in Seq(STRING), chain # <<>>, Head(chain) \in Codecs
  PROVE  CodecsIn(chain) # {} /\ FirstCodec(chain) = Head(chain)
<1>1. 1 \in CodecsIn(chain) /\ \A j \in CodecsIn(chain) : 1 <= j
  BY DEF CodecsIn
<1> QED
  BY SMTT(60), <1>1, FirstIs

(* A filter of the user at the head of a chain changes nothing.            *)
LEMMA FirstInTail ==
  ASSUME NEW chain \in Seq(STRING), chain # <<>>, Head(chain) \notin Codecs
  PROVE  /\ CodecsIn(Tail(chain)) = {} <=> CodecsIn(chain) = {}
         /\ CodecsIn(chain) # {} => FirstCodec(Tail(chain)) = FirstCodec(chain)
<1> DEFINE t == Tail(chain)
<1>1. t \in Seq(STRING) /\ Len(t) = Len(chain) - 1 /\ \A i \in 1..Len(t) : t[i] = chain[i + 1]
  BY SMTT(60)
<1> HIDE DEF t
<1>2. \A i \in CodecsIn(t) : i + 1 \in CodecsIn(chain)
  BY SMTT(60), <1>1 DEF CodecsIn
<1>3. \A i \in CodecsIn(chain) : i \in Nat /\ i - 1 \in CodecsIn(t)
  <2> SUFFICES ASSUME NEW i \in CodecsIn(chain) PROVE i \in Nat /\ i - 1 \in CodecsIn(t)
    BY Zenon
  <2>1. i \in 1..Len(chain) /\ i # 1
    BY SMTT(60) DEF CodecsIn
  <2>2. i - 1 \in 1..Len(t) /\ t[i - 1] = chain[i]
    BY SMTT(60), <1>1, <2>1
  <2> QED
    BY SMTT(60), <1>1, <2>1, <2>2 DEF CodecsIn
<1>4. ASSUME CodecsIn(chain) # {} PROVE FirstCodec(t) = FirstCodec(chain)
  <2>1. CodecsIn(chain) \subseteq Nat
    BY Zenon, <1>3
  <2>2. PICK i \in CodecsIn(chain) : \A j \in CodecsIn(chain) : i <= j
    BY ZenonT(60), <1>4, <2>1, LeastExists
  <2>3. i - 1 \in CodecsIn(t) /\ \A j \in CodecsIn(t) : i - 1 <= j
    <3>1. \A j \in CodecsIn(t) : j \in Nat
      BY SMTT(60), <1>1 DEF CodecsIn
    <3> QED
      BY SMTT(60), <1>2, <1>3, <2>1, <2>2, <3>1
  <2>4. FirstCodec(t) = t[i - 1] /\ FirstCodec(chain) = chain[i]
    BY ZenonT(60), <1>1, <2>2, <2>3, FirstIs
  <2>5. t[i - 1] = chain[i]
    BY SMTT(60), <1>1, <2>1, <2>3 DEF CodecsIn
  <2> QED
    BY ZenonT(60), <2>4, <2>5
<1> QED
  BY ZenonT(60), <1>2, <1>3, <1>4 DEF t

(* One turn of an outgoing chain leaves the body it ends with, and whether *)
(* the chain throws before.                                                *)
LEMMA AppliedOut ==
  ASSUME NEW chain \in Seq(STRING), chain # <<>>, NEW m,
         Head(chain) \in Codecs => Packs(Head(chain), m)
  PROVE  LET n == IF Head(chain) \in Codecs THEN Compress(Head(chain), m) ELSE m
         IN /\ BodyAfter(Tail(chain), n) = BodyAfter(chain, m)
            /\ PacksAfter(Tail(chain), n) <=> PacksAfter(chain, m)
<1>1. CASE Head(chain) \notin Codecs
  <2>1. BodyAfter(Tail(chain), m) = BodyAfter(chain, m)
    BY <1>1, FirstInTail, ZenonT(60) DEF BodyAfter
  <2>2. PacksAfter(Tail(chain), m) <=> PacksAfter(chain, m)
    BY <1>1, FirstInTail, ZenonT(60) DEF PacksAfter
  <2> QED
    BY <1>1, <2>1, <2>2, Zenon
<1>2. CASE Head(chain) \in Codecs /\ Skips(m)
  BY <1>2, ZenonT(60) DEF BodyAfter, PacksAfter, Compress
<1>3. CASE Head(chain) \in Codecs /\ ~Skips(m)
  <2> DEFINE f == Head(chain)
             n == Compress(f, m)
  <2>1. n = Envelope(f, m.session, m.meta, Packed(f, m.body))
    BY <1>3, ZenonT(60) DEF Compress
  <2>2. n.compression = f /\ n.body = Packed(f, m.body)
    BY <2>1 DEF Envelope
  <2>3. f # "none"
    BY Zenon, <1>3 DEF Codecs
  <2>4. CodecsIn(chain) # {} /\ FirstCodec(chain) = f
    BY Zenon, <1>3, FirstAtHead
  <2>p. Packable(f, m.body)
    BY Zenon, <1>3 DEF Packs
  <2> HIDE DEF f, n
  <2>s. Skips(n)
    BY <2>2, <2>3, Zenon DEF Skips
  <2>5. BodyAfter(Tail(chain), n) = Packed(f, m.body) /\ PacksAfter(Tail(chain), n)
    BY <2>2, <2>s, ZenonT(60) DEF BodyAfter, PacksAfter
  <2>6. BodyAfter(chain, m) = Packed(f, m.body) /\ PacksAfter(chain, m)
    BY <1>3, <2>4, <2>p, ZenonT(60) DEF BodyAfter, PacksAfter
  <2> QED
    BY <1>3, <2>5, <2>6, ZenonT(60) DEF f, n
<1> QED
  BY <1>1, <1>2, <1>3, ZenonT(60)

(* A compression filter throws only where the chain cannot pack the body.  *)
LEMMA ThrowsOut ==
  ASSUME NEW chain \in Seq(STRING), chain # <<>>, NEW m,
         Head(chain) \in Codecs, ~Packs(Head(chain), m)
  PROVE  ~PacksAfter(chain, m)
<1>1. CodecsIn(chain) # {} /\ FirstCodec(chain) = Head(chain)
  BY Zenon, FirstAtHead
<1> QED
  BY <1>1, Zenon DEF Packs, PacksAfter

(* One turn of an incoming chain leaves whether the message gets unpacked. *)
LEMMA AppliedIn ==
  ASSUME NEW chain \in Seq(STRING), chain # <<>>, NEW m, m.compression \in {"none"} \cup Codecs
  PROVE  Unpacks(Tail(chain), IF Head(chain) \in Codecs THEN Decompress(Head(chain), m) ELSE m)
           <=> Unpacks(chain, m)
<1> DEFINE t == Tail(chain)
           h == Head(chain)
           c == m.compression
<1>1. (\E i \in DOMAIN chain : chain[i] = c) <=> h = c \/ \E i \in DOMAIN t : t[i] = c
  <2>1. t \in Seq(STRING) /\ Len(t) = Len(chain) - 1 /\ \A i \in 1..Len(t) : t[i] = chain[i + 1]
    OBVIOUS
  <2>2. h = chain[1] /\ 1 \in DOMAIN chain
    OBVIOUS
  <2> HIDE DEF t, h, c
  <2>3. ASSUME NEW i \in DOMAIN t, t[i] = c PROVE \E j \in DOMAIN chain : chain[j] = c
    <3>1. i + 1 \in DOMAIN chain /\ chain[i + 1] = c
      BY SMTT(60), <2>1, <2>3
    <3> QED
      BY Zenon, <3>1
  <2>4. ASSUME NEW i \in DOMAIN chain, chain[i] = c, i # 1 PROVE \E j \in DOMAIN t : t[j] = c
    <3>1. i - 1 \in DOMAIN t /\ t[i - 1] = c
      BY <2>1, <2>4
    <3> QED
      BY Zenon, <3>1
  <2> QED
    BY ZenonT(60), <2>2, <2>3, <2>4
<1> HIDE DEF t, h
<1>2. CASE h \notin Codecs
  <2>1. c = "none" \/ h # c
    BY Zenon, <1>2
  <2> QED
    BY <1>1, <1>2, <2>1, Zenon DEF Unpacks, t, h
<1>3. CASE h \in Codecs /\ c # h
  BY <1>1, <1>3, Zenon DEF Unpacks, Decompress, t, h
<1>4. CASE h \in Codecs /\ c = h
  <2>1. Decompress(h, m).compression = "none"
    BY Zenon, <1>4 DEF Decompress, Envelope
  <2>2. Unpacks(t, Decompress(h, m))
    BY <2>1, Zenon DEF Unpacks
  <2>3. Unpacks(chain, m)
    BY <1>1, <1>4, Zenon DEF Unpacks
  <2> QED
    BY <1>4, <2>2, <2>3, Zenon DEF t, h
<1> QED
  BY <1>2, <1>3, <1>4, ZenonT(60)

(* A chain starts from the plain body, with the flag of the caller.        *)
LEMMA StartsPlain ==
  ASSUME NEW chain, NEW session, NEW meta, NEW d, NEW off \in BOOLEAN
  PROVE  LET m == Envelope(Flag(off), session, meta, Plain(d))
         IN /\ BodyAfter(chain, m) = WireBody(chain, off, d)
            /\ PacksAfter(chain, m) <=> ~CannotPack(chain, off, d)
<1> DEFINE m == Envelope(Flag(off), session, meta, Plain(d))
<1>1. m.compression = Flag(off) /\ m.body = Plain(d)
  BY Zenon DEF Envelope
<1>2. Flag(off) # "none" <=> off
  BY Zenon DEF Flag
<1> HIDE DEF m
<1>3. BodyAfter(chain, m) = WireBody(chain, off, d)
  BY <1>1, <1>2, Zenon DEF BodyAfter, WireBody, GoesPlain, Skips
<1>4. PacksAfter(chain, m) <=> ~CannotPack(chain, off, d)
  BY <1>1, <1>2, Zenon DEF PacksAfter, CannotPack, GoesPlain, Skips
<1> QED
  BY Zenon, <1>3, <1>4 DEF m

(* A chain that has been applied has nothing left to do.                   *)
LEMMA NothingLeft ==
  ASSUME NEW m
  PROVE  BodyAfter(<<>>, m) = m.body /\ PacksAfter(<<>>, m) /\ (Unpacks(<<>>, m) <=> m.compression = "none")
<1>1. CodecsIn(<<>>) = {}
  BY DEF CodecsIn
<1>2. ~\E i \in DOMAIN <<>> : <<>>[i] = m.compression
  OBVIOUS
<1> QED
  BY <1>1, <1>2, Zenon DEF BodyAfter, PacksAfter, Unpacks

(* A message that has been read is unpacked by a chain with its codec.     *)
LEMMA StartsPacked ==
  ASSUME NEW chain, TypeOK, Described(msg)
  PROVE  /\ Unpacks(chain, Parsed(msg)) <=> ~NoFilter(msg.body, chain)
         /\ Parsed(msg).compression # "disabled" /\ Parsed(msg).session = msg.session
<1> DEFINE m == Parsed(msg)
<1>1. /\ m.compression = IF msg.compression = "disabled" THEN "none" ELSE msg.compression
      /\ m.session = msg.session
  BY Zenon DEF Parsed
<1> HIDE DEF m
<1>2. m.compression # "disabled"
  BY Zenon, <1>1
<1>3. CASE msg.compression \in Codecs
  <2>1. m.compression = msg.compression /\ m.compression # "none"
    BY Zenon, <1>1, <1>3 DEF Codecs
  <2>2. msg.body.as = <<msg.compression>>
    BY Zenon, <1>3 DEF Described
  <2>3. msg.body.as # <<>> /\ Head(msg.body.as) = msg.compression
    BY <2>2
  <2>4. Unpacks(chain, m) <=> ~NoFilter(msg.body, chain)
    BY <2>1, <2>3, Zenon DEF Unpacks, NoFilter
  <2> QED
    BY Zenon, <2>4, <1>1, <1>2 DEF m
<1>4. CASE msg.compression \notin Codecs
  <2>1. m.compression = "none" /\ msg.body.as = <<>>
    BY Zenon, <1>1, <1>4 DEF Described, TypeOK
  <2>2. Unpacks(chain, m) /\ ~NoFilter(msg.body, chain)
    BY <2>1, Zenon DEF Unpacks, NoFilter
  <2> QED
    BY Zenon, <2>2, <1>1, <1>2 DEF m
<1> QED
  BY Zenon, <1>3, <1>4

(* The invariant holds at first.                                           *)
LEMMA InitAnswers == Init => AnswersInv
<1> SUFFICES ASSUME Init PROVE AnswersInv
  BY Zenon
<1>1. todo \in Seq(STRING)
  BY DEF Init
<1>2. at = "idle" /\ reply = None
  BY Zenon DEF Init
<1> QED
  BY ZenonT(60), <1>1, <1>2 DEF Init, AnswersInv, PathInv, RequestInv, ReplyInv, Request, Reply,
     InStages,
     AnsweredUnlessRefused, Ended

(* A message in order is refused for the body it has, or for a 0 in its    *)
(* id or status.                                                           *)
LEMMA ReadableUnless ==
  ASSUME TypeOK, Described(msg)
  PROVE  /\ Readable(msg) <=> msg.meta # 0 /\ ~Unreadable(msg.body)
         /\ SendThrows => Unreadable(msg.body)
<1>1. PICK d \in Data, as \in {<<>>, <<"zstd">>, <<"lz4">>} : msg.body = [data |-> d, as |-> as]
  BY Zenon DEF TypeOK
<1>2. Size(msg.body) \in Nat /\ MaxFlatbuffers \in Nat
  BY Zenon, <1>1, SizeAssumption
<1>3. msg.size = Size(msg.body) /\ msg.checksum = Hash(msg.body)
  BY Zenon DEF Described
<1> QED
  BY SMTT(60), <1>2, <1>3 DEF Readable, HeaderOk, PayloadOk, Unreadable, SendThrows

(* A decompression filter throws only on a body that was damaged.          *)
LEMMA CodecKnows ==
  ASSUME Described(msg), NEW f \in Codecs
  PROVE  Unpackable(f, msg)
<1> SUFFICES ASSUME msg.compression = f PROVE msg.body.as # <<>> /\ Head(msg.body.as) = f
  BY Zenon DEF Unpackable
<1>1. msg.body.as = <<f>>
  BY Zenon DEF Described
<1> QED
  BY <1>1

(* Every step keeps it.                                                    *)
LEMMA NextAnswers == IInv /\ AnswersInv /\ [Next]_vars => AnswersInv'
<1> SUFFICES ASSUME IInv, AnswersInv, [Next]_vars PROVE AnswersInv'
  BY Zenon
<1>t. TypeOK /\ HeaderDescribesBody /\ CarryInv /\ PathInv /\ AnsweredUnlessRefused
  BY Zenon DEF IInv, AnswersInv
<1>f. faults = {} => Described(msg)
  BY Zenon, <1>t DEF HeaderDescribesBody, Untouched
<1>k. /\ conf \in [debug : BOOLEAN, client_out : OutChains, server_in : InChains,
                    server_out : OutChains, client_in : InChains]
      /\ todo \in Seq(STRING)
  BY Zenon, <1>t DEF PathInv
<1>c. /\ conf.client_out \in Seq(STRING) /\ conf.server_in \in Seq(STRING)
      /\ conf.server_out \in Seq(STRING) /\ conf.client_in \in Seq(STRING)
  BY Zenon, <1>k, ChainsAssumption
<1> USE DEF OutStages, InStages, Request, Reply
<1>1. CASE UNCHANGED vars
  BY ZenonT(60), <1>1, <1>t DEF vars, AnswersInv, PathInv, RequestInv, ReplyInv, RequestBody,
     ReplyBody, RequestPacks, ReplyPacks,
     RequestRefused, ReplyBodyRefused, AnsweredUnlessRefused, Ended
<1>2. ASSUME NEW s \in Services, Register(s) PROVE AnswersInv'
  BY Zenon, <1>2, <1>t DEF Register, AnswersInv, PathInv, RequestInv, ReplyInv, RequestBody,
     ReplyBody, RequestPacks, ReplyPacks,
     RequestRefused, ReplyBodyRefused, AnsweredUnlessRefused, Ended
<1>3. ASSUME NEW m \in Method, NEW d \in Data, NEW off \in BOOLEAN, Stub(m, d, off) PROVE AnswersInv'
  <2>1. at' = "client_out" /\ reply' = None /\ conf' = conf /\ todo' = conf.client_out
    BY Zenon, <1>3, <1>t DEF Stub, PathInv
  <2>2. call'.data = d /\ call'.off = off
    BY Zenon, <1>3 DEF Stub
  <2>3. msg' = Envelope(Flag(off), Session, RequestId[m], Plain(d))
    BY Zenon, <1>3 DEF Stub
  <2>4. /\ BodyAfter(conf.client_out, msg') = WireBody(conf.client_out, off, d)
        /\ PacksAfter(conf.client_out, msg') <=> ~CannotPack(conf.client_out, off, d)
    BY <2>3, StartsPlain, ZenonT(60)
  <2>5. (BodyAfter(todo, msg) = RequestBody /\ (PacksAfter(todo, msg) <=> RequestPacks))'
    BY <2>1, <2>2, <2>4, Zenon DEF RequestBody, RequestPacks
  <2>6. msg'.session = Session
    BY Zenon, <2>3 DEF Envelope
  <2> QED
    BY ZenonT(60), <2>1, <2>5, <2>6, <1>k, <1>c DEF AnswersInv, PathInv, RequestInv, ReplyInv,
       AnsweredUnlessRefused, Ended
<1>4. ASSUME ApplyOut PROVE AnswersInv'
  <2>1. /\ at \in OutStages /\ todo # <<>> /\ todo' = Tail(todo)
        /\ Head(todo) \in Codecs => Packs(Head(todo), msg)
        /\ msg' = IF Head(todo) \in Codecs THEN Compress(Head(todo), msg) ELSE msg
        /\ UNCHANGED <<conf, call, at, reply, faults>>
    BY Zenon, <1>4 DEF ApplyOut
  <2>2. /\ BodyAfter(todo', msg') = BodyAfter(todo, msg)
        /\ PacksAfter(todo', msg') <=> PacksAfter(todo, msg)
    BY <1>k, <2>1, AppliedOut, Zenon
  <2>3. todo' \in Seq(STRING)
    BY SMTT(60), <1>k, <2>1
  <2>4. msg'.session = msg.session
    BY Zenon, <2>1 DEF Compress, Envelope
  <2>5. /\ RequestBody' = RequestBody /\ ReplyBody' = ReplyBody /\ RequestRefused' = RequestRefused
        /\ RequestPacks' = RequestPacks /\ ReplyPacks' = ReplyPacks
    BY <2>1, Zenon DEF RequestBody, ReplyBody, RequestRefused, RequestPacks, ReplyPacks
  <2>6. PathInv'
    BY ZenonT(60), <1>t, <2>1, <2>2, <2>3, <2>4, <2>5 DEF PathInv, RequestInv, ReplyInv
  <2> QED
    BY Zenon, <2>1, <2>6 DEF AnswersInv, AnsweredUnlessRefused, Ended
<1>5. ASSUME ApplyIn PROVE AnswersInv'
  <2>1. /\ at \in InStages /\ todo # <<>> /\ todo' = Tail(todo)
        /\ msg' = IF Head(todo) \in Codecs THEN Decompress(Head(todo), msg) ELSE msg
        /\ UNCHANGED <<conf, call, at, reply, faults>>
    BY Zenon, <1>5 DEF ApplyIn
  <2>2. msg.compression \in {"none"} \cup Codecs
    BY Zenon, <1>t, <2>1 DEF TypeOK, PathInv
  <2>3. Unpacks(todo', msg') <=> Unpacks(todo, msg)
    BY <1>k, <2>1, <2>2, AppliedIn, ZenonT(60)
  <2>4. todo' \in Seq(STRING)
    BY SMTT(60), <1>k, <2>1
  <2>5. msg'.session = msg.session /\ msg'.compression # "disabled"
    BY Zenon, <2>1, <2>2 DEF Decompress, Envelope, Codecs
  <2>6. /\ RequestBody' = RequestBody /\ ReplyBody' = ReplyBody /\ RequestRefused' = RequestRefused
        /\ RequestPacks' = RequestPacks /\ ReplyPacks' = ReplyPacks
    BY <2>1, Zenon DEF RequestBody, ReplyBody, RequestRefused, RequestPacks, ReplyPacks
  <2>7. PathInv'
    BY ZenonT(60), <1>t, <2>1, <2>3, <2>4, <2>5, <2>6 DEF PathInv, RequestInv, ReplyInv
  <2> QED
    BY ZenonT(60), <2>1, <2>7 DEF AnswersInv, AnsweredUnlessRefused, Ended
(* A call that goes wrong by a fault is not spoken of any more.            *)
<1> DEFINE Faulty == UserFilterThrows \/ Damage \/ ServerNoRoute \/ HandlerThrows
<1>6. ASSUME Faulty PROVE AnswersInv'
  <2>1. faults' # {}
    BY Zenon, <1>6 DEF UserFilterThrows, Damage, ServerNoRoute, HandlerThrows
  <2>2. UNCHANGED <<conf, todo, reply>>
    BY Zenon, <1>6 DEF UserFilterThrows, Damage, ServerNoRoute, HandlerThrows
  <2>3. (at' = at /\ at \in {"to_server", "to_client"}) \/ at' \in {"failed", "lost", "closed"}
    BY Zenon, <1>6 DEF UserFilterThrows, Damage, ServerNoRoute, HandlerThrows, Thrown
  <2>4. msg'.session = msg.session
    <3>1. ASSUME Damage PROVE msg'.session = msg.session
      <4>1. PICK b : msg' = [compression |-> msg.compression, session |-> msg.session, meta |-> msg.meta,
                             size |-> msg.size, checksum |-> msg.checksum, body |-> b]
        BY Zenon, <3>1 DEF Damage
      <4> QED
        BY Zenon, <4>1
    <3>2. ASSUME ~Damage PROVE msg' = msg
      BY Zenon, <1>6, <3>2 DEF UserFilterThrows, ServerNoRoute, HandlerThrows
    <3> QED
      BY Zenon, <3>1, <3>2
  <2>5. PathInv'
    BY ZenonT(60), <1>t, <2>1, <2>2, <2>3, <2>4 DEF PathInv
  <2> QED
    BY Zenon, <2>1, <2>5 DEF AnswersInv, AnsweredUnlessRefused
(* So is one that ends before the handler has replied.                     *)
<1> DEFINE Refused == ServerRefuses \/ ServerCannotDecompress \/ (UncompressThrows /\ at = "server_in")
                     \/ (CompressThrows /\ at = "client_out") \/ (SendRequest /\ SendThrows)
<1>7. ASSUME Refused PROVE AnswersInv'
  <2>1. Request /\ at' \in {"failed", "lost", "closed"} /\ UNCHANGED <<conf, todo, reply>>
    BY Zenon, <1>7 DEF ServerRefuses, ServerCannotDecompress, UncompressThrows, CompressThrows,
       SendRequest, Thrown
  <2>2. reply' = None
    BY Zenon, <1>t, <2>1 DEF PathInv
  <2>3. PathInv'
    BY Zenon, <1>t, <2>1 DEF PathInv, RequestInv, ReplyInv
  <2> QED
    BY Zenon, <2>1, <2>2, <2>3 DEF AnswersInv, AnsweredUnlessRefused
<1>8. ASSUME SendRequest, ~SendThrows PROVE AnswersInv'
  <2>1. at = "client_out" /\ todo = <<>> /\ at' = "to_server" /\ UNCHANGED <<conf, call, todo, msg, reply, faults>>
    BY Zenon, <1>8 DEF SendRequest
  <2>2. faults = {} => msg.body = RequestBody /\ RequestPacks
    BY Zenon, <1>t, <2>1, NothingLeft DEF PathInv, RequestInv
  <2>3. RequestBody' = RequestBody /\ RequestPacks' = RequestPacks
    BY <2>1, Zenon DEF RequestBody, RequestPacks
  <2>4. PathInv'
    BY Zenon, <1>t, <2>1, <2>2, <2>3 DEF PathInv, RequestInv, ReplyInv
  <2> QED
    BY Zenon, <2>1, <2>4 DEF AnswersInv, AnsweredUnlessRefused, Ended
<1>9. ASSUME ServerReceives PROVE AnswersInv'
  <2>1. /\ at = "to_server" /\ Readable(msg) /\ at' = "server_in" /\ todo' = conf.server_in
        /\ msg' = Parsed(msg) /\ UNCHANGED <<conf, call, reply, faults>>
    BY Zenon, <1>9 DEF ServerReceives
  <2>2. msg.meta = RequestId[call.method] /\ msg.session = Session /\ reply = None
    BY Zenon, <1>t, <2>1 DEF CarryInv, PathInv
  <2>3. msg'.session = msg.session /\ msg'.compression # "disabled"
    BY Zenon, <2>1 DEF Parsed
  <2>4. RequestBody' = RequestBody /\ RequestPacks' = RequestPacks
    BY <2>1, Zenon DEF RequestBody, RequestPacks
  <2>5. ASSUME faults = {}
        PROVE  /\ msg.body = RequestBody /\ RequestPacks
               /\ RequestId[call.method] # 0 /\ ~Unreadable(RequestBody)
               /\ Unpacks(todo', msg') <=> ~NoFilter(RequestBody, conf.server_in)
    <3>1. msg.body = RequestBody /\ RequestPacks
      BY Zenon, <1>t, <2>1, <2>5 DEF PathInv, RequestInv
    <3>2. msg.meta # 0 /\ ~Unreadable(msg.body)
      BY ZenonT(60), <1>f, <1>t, <2>1, <2>5, ReadableUnless
    <3>3. Unpacks(todo', msg') <=> ~NoFilter(msg.body, conf.server_in)
      BY <1>f, <1>t, <2>1, <2>5, StartsPacked, ZenonT(60)
    <3> QED
      BY <2>2, <3>1, <3>2, <3>3, Zenon
  <2>6. PathInv'
    BY ZenonT(60), <1>t, <1>c, <2>1, <2>2, <2>3, <2>4, <2>5 DEF PathInv, RequestInv, ReplyInv
  <2> QED
    BY Zenon, <2>1, <2>6 DEF AnswersInv, AnsweredUnlessRefused, Ended
<1>10. ASSUME NEW d \in Data, NEW status \in Statuses, NEW off \in BOOLEAN, Handle(d, status, off)
       PROVE  AnswersInv'
  <2>1. /\ at = "server_in" /\ todo = <<>> /\ ~StillCompressed /\ at' = "server_out"
        /\ todo' = conf.server_out /\ reply' = [data |-> d, status |-> status, off |-> off]
        /\ msg' = Envelope(Flag(off), msg.session, status, Plain(d))
        /\ UNCHANGED <<conf, call, faults>>
    BY Zenon, <1>10 DEF Handle, ReplyEnvelope
  <2>2. reply' # None /\ reply'.data = d /\ reply'.off = off
    BY SMTT(60), <2>1, NoneAssumption
  <2>3. msg.session = Session /\ msg'.session = msg.session
    BY Zenon, <1>t, <2>1 DEF PathInv, Envelope
  <2>4. /\ BodyAfter(conf.server_out, msg') = WireBody(conf.server_out, off, d)
        /\ PacksAfter(conf.server_out, msg') <=> ~CannotPack(conf.server_out, off, d)
    BY <2>1, StartsPlain, ZenonT(60)
  <2>5. (BodyAfter(todo, msg) = ReplyBody /\ (PacksAfter(todo, msg) <=> ReplyPacks))'
    BY <2>1, <2>2, <2>4, Zenon DEF ReplyBody, ReplyPacks
  <2>6. RequestRefused' = RequestRefused
    BY <2>1, Zenon DEF RequestRefused
  <2>7. ASSUME faults = {} PROVE ~RequestRefused
    <3>1. Unpacks(todo, msg)
      BY Zenon, <2>1, NothingLeft DEF StillCompressed
    <3>2. /\ RequestId[call.method] # 0 /\ RequestPacks /\ ~Unreadable(RequestBody)
          /\ ~NoFilter(RequestBody, conf.server_in)
      BY ZenonT(60), <1>t, <2>1, <2>7, <3>1 DEF PathInv, RequestInv
    <3> QED
      BY <3>2, Zenon DEF RequestRefused, BodyRefused, RequestBody, RequestPacks, Unreadable,
         NoFilter
  <2>8. PathInv'
    BY ZenonT(60), <1>k, <1>c, <2>1, <2>2, <2>3, <2>5, <2>6, <2>7 DEF PathInv, RequestInv, ReplyInv
  <2> QED
    BY Zenon, <2>1, <2>8 DEF AnswersInv, AnsweredUnlessRefused, Ended
<1>b. ReplyBodyRefused <=>
        ~ReplyPacks \/ Unreadable(ReplyBody) \/ NoFilter(ReplyBody, conf.client_in)
  BY Zenon DEF ReplyBodyRefused, BodyRefused, ReplyBody, ReplyPacks, Unreadable, NoFilter
<1>e. ASSUME UNCHANGED <<conf, call, reply>>
      PROVE  /\ RequestRefused' = RequestRefused /\ ReplyBody' = ReplyBody
             /\ ReplyBodyRefused' = ReplyBodyRefused /\ ReplyPacks' = ReplyPacks
  BY <1>e, Zenon DEF RequestRefused, ReplyBody, ReplyBodyRefused, ReplyPacks
<1>11. ASSUME SendReply PROVE AnswersInv'
  <2>1. /\ at = "server_out" /\ todo = <<>> /\ at' = IF SendThrows THEN "lost" ELSE "to_client"
        /\ UNCHANGED <<conf, call, todo, msg, reply, faults>>
    BY Zenon, <1>11 DEF SendReply
  <2>2. faults = {} => msg.body = ReplyBody /\ ReplyPacks
    BY Zenon, <1>t, <2>1, NothingLeft DEF PathInv, ReplyInv
  <2>3. ASSUME faults = {}, SendThrows PROVE ReplyBodyRefused
    BY <1>b, <1>f, <1>t, <2>2, <2>3, ReadableUnless, ZenonT(60)
  <2>4. PathInv'
    <3>1. faults = {} => reply # None /\ ~RequestRefused
      BY Zenon, <1>t, <2>1 DEF PathInv, ReplyInv
    <3>2. RequestInv'
      BY Zenon, <2>1 DEF RequestInv
    <3>3. ASSUME faults' = {} PROVE ReplyInv'
      BY SMTT(30), <1>e, <2>1, <2>2, <3>1, <3>3 DEF ReplyInv
    <3> QED
      BY ZenonT(60), <1>k, <1>t, <2>1, <3>2, <3>3 DEF PathInv
  <2>5. AnsweredUnlessRefused'
    BY SMTT(60), <1>e, <2>1, <2>3 DEF AnsweredUnlessRefused, Ended
  <2> QED
    BY Zenon, <2>4, <2>5 DEF AnswersInv
<1>12. ASSUME ClientRefuses PROVE AnswersInv'
  <2>1. /\ at = "to_client" /\ ~(Readable(msg) /\ msg.session = Session) /\ at' = "failed"
        /\ UNCHANGED <<conf, call, todo, msg, reply, faults>>
    BY Zenon, <1>12 DEF ClientRefuses
  <2>2. msg.session = Session /\ msg.meta = reply.status
    BY Zenon, <1>t, <2>1 DEF PathInv, CarryInv
  <2>3. ASSUME faults = {} PROVE ReplyBodyRefused \/ reply.status = 0
    <3>1. msg.body = ReplyBody
      BY Zenon, <1>t, <2>1, <2>3 DEF PathInv, ReplyInv
    <3>2. Unreadable(msg.body) \/ msg.meta = 0
      BY <1>f, <1>t, <2>1, <2>2, <2>3, ReadableUnless, ZenonT(60)
    <3> QED
      BY <1>b, <2>2, <3>1, <3>2, ZenonT(60)
  <2>4. PathInv'
    BY Zenon, <1>t, <2>1 DEF PathInv, RequestInv, ReplyInv
  <2>5. AnsweredUnlessRefused'
    BY SMTT(60), <1>e, <2>1, <2>3 DEF AnsweredUnlessRefused, Ended
  <2> QED
    BY Zenon, <2>4, <2>5 DEF AnswersInv
<1>13. ASSUME ClientReceives PROVE AnswersInv'
  <2>1. /\ at = "to_client" /\ Readable(msg) /\ at' = "client_in" /\ todo' = conf.client_in
        /\ msg' = Parsed(msg) /\ UNCHANGED <<conf, call, reply, faults>>
    BY Zenon, <1>13 DEF ClientReceives
  <2>2. msg.meta = reply.status /\ msg.session = Session
    BY Zenon, <1>t, <2>1 DEF CarryInv, PathInv
  <2>3. msg'.session = msg.session /\ msg'.compression # "disabled"
    BY Zenon, <2>1 DEF Parsed
  <2>5. ASSUME faults = {}
        PROVE  /\ reply.status # 0 /\ ReplyPacks /\ ~Unreadable(ReplyBody)
               /\ Unpacks(todo', msg') <=> ~NoFilter(ReplyBody, conf.client_in)
    <3>1. msg.body = ReplyBody /\ ReplyPacks
      BY ZenonT(60), <1>t, <2>1, <2>5 DEF PathInv, ReplyInv
    <3>2. msg.meta # 0 /\ ~Unreadable(msg.body)
      BY ZenonT(60), <1>f, <1>t, <2>1, <2>5, ReadableUnless
    <3>3. Unpacks(todo', msg') <=> ~NoFilter(msg.body, conf.client_in)
      BY <1>f, <1>t, <2>1, <2>5, StartsPacked, ZenonT(60)
    <3> QED
      BY <2>2, <3>1, <3>2, <3>3, ZenonT(60)
  <2>6. PathInv'
    <3>1. faults = {} => reply # None /\ ~RequestRefused
      BY Zenon, <1>t, <2>1 DEF PathInv, ReplyInv
    <3>2. RequestInv'
      BY Zenon, <2>1 DEF RequestInv
    <3>3. ASSUME faults' = {} PROVE ReplyInv'
      BY SMTT(30), <1>e, <2>1, <2>5, <3>1, <3>3 DEF ReplyInv
    <3> QED
      BY ZenonT(60), <1>k, <1>c, <2>1, <2>2, <2>3, <3>2, <3>3 DEF PathInv
  <2> QED
    BY Zenon, <2>1, <2>6 DEF AnswersInv, AnsweredUnlessRefused, Ended
<1>14. ASSUME UncompressThrows, at = "client_in" PROVE AnswersInv'
  <2>1. /\ at' = "failed" /\ ~Unpackable(Head(todo), msg) /\ Head(todo) \in Codecs
        /\ UNCHANGED <<conf, todo, reply, faults>>
    BY Zenon, <1>14 DEF UncompressThrows, Thrown
  <2>2. faults # {}
    BY Zenon, <1>f, <2>1, CodecKnows
  <2>3. PathInv'
    BY Zenon, <1>t, <2>1, <2>2 DEF PathInv
  <2> QED
    BY Zenon, <2>1, <2>2, <2>3 DEF AnswersInv, AnsweredUnlessRefused
<1>15. ASSUME Answer PROVE AnswersInv'
  <2>1. /\ at = "client_in" /\ todo = <<>> /\ UNCHANGED <<conf, call, todo, msg, reply, faults>>
        /\ at' = IF StillCompressed THEN "failed" ELSE "answered"
    BY Zenon, <1>15 DEF Answer
  <2>2. Unpacks(todo, msg) <=> ~StillCompressed
    BY <2>1, NothingLeft, Zenon DEF StillCompressed
  <2>3. ASSUME faults = {}
        PROVE  /\ ~RequestRefused /\ reply # None /\ reply.status # 0
               /\ ReplyBodyRefused <=> StillCompressed
    <3>1. /\ ~RequestRefused /\ reply # None /\ reply.status # 0
          /\ ReplyPacks /\ ~Unreadable(ReplyBody)
          /\ Unpacks(todo, msg) <=> ~NoFilter(ReplyBody, conf.client_in)
      BY Zenon, <1>t, <2>1, <2>3 DEF PathInv, ReplyInv
    <3> QED
      BY <1>b, <2>2, <3>1, Zenon
  <2>4. PathInv'
    BY Zenon, <1>t, <2>1 DEF PathInv, RequestInv, ReplyInv
  <2>5. AnsweredUnlessRefused'
    BY <1>e, <2>1, <2>3 DEF AnsweredUnlessRefused, Ended
  <2> QED
    BY Zenon, <2>4, <2>5 DEF AnswersInv
<1>16. ASSUME CompressThrows, at = "server_out" PROVE AnswersInv'
  <2>1. /\ at' = "lost" /\ todo # <<>> /\ Head(todo) \in Codecs /\ ~Packs(Head(todo), msg)
        /\ UNCHANGED <<conf, call, todo, msg, reply, faults>>
    BY Zenon, <1>16 DEF CompressThrows, Thrown
  <2>2. ASSUME faults = {} PROVE ReplyBodyRefused
    <3>1. ~PacksAfter(todo, msg)
      BY Zenon, <1>k, <2>1, ThrowsOut
    <3>2. ~ReplyPacks
      BY Zenon, <1>16, <1>t, <2>2, <3>1 DEF PathInv, ReplyInv
    <3> QED
      BY Zenon, <1>b, <3>2
  <2>3. PathInv'
    BY Zenon, <1>t, <2>1 DEF PathInv, RequestInv, ReplyInv
  <2>4. AnsweredUnlessRefused'
    BY SMTT(60), <1>e, <2>1, <2>2 DEF AnsweredUnlessRefused, Ended
  <2> QED
    BY Zenon, <2>3, <2>4 DEF AnswersInv
<1>17. /\ UncompressThrows => at \in {"server_in", "client_in"}
       /\ CompressThrows => at \in {"client_out", "server_out"}
  BY Zenon DEF UncompressThrows, CompressThrows
<1> QED
  BY ZenonT(60), <1>1, <1>2, <1>3, <1>4, <1>5, <1>6, <1>7, <1>8, <1>9, <1>10, <1>11, <1>12, <1>13,
     <1>14,
     <1>15, <1>16, <1>17, Zenon DEF Next

(* A call without a fault is answered exactly when no edge of the protocol *)
(* is in its way, for every pair of filter chains at both ends, every      *)
(* codec, hash, limit and status.                                          *)
THEOREM AnsweredExactly == Spec => []AnsweredUnlessRefused
<1>1. AnswersInv => AnsweredUnlessRefused
  BY Zenon DEF AnswersInv
<1> QED
  BY <1>1, InitAnswers, NextAnswers, IInvAlways, PTL DEF Spec

=============================================================================

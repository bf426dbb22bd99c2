----------------------------- MODULE RpcCallPath -----------------------------
(***************************************************************************)
(* One call from the generated stub to the handler and back: what happens  *)
(* to the header and to the body.  Scheduling, memory and connections are  *)
(* in RpcClient and RpcServer; here a step is one stage of the path:       *)
(*                                                                         *)
(*   stub -> outgoing filters -> wire -> router -> incoming filters        *)
(*     -> handler -> outgoing filters -> wire -> incoming filters          *)
(*                                                                         *)
(* Both ends carry their own filter chains, the router holds the services  *)
(* registered so far, and a body can be damaged on the wire.               *)
(***************************************************************************)
EXTENDS Integers, Sequences

CONSTANTS
  Services,        \* the services a server may register
  MethodsOf,       \* MethodsOf[s]: the methods of service s
  RequestId,       \* RequestId[m]: service id xor method id, a uint32_t
  Data,            \* what a table holds
  Size(_),         \* the length of a body
  Hash(_),         \* XXH64 of a body, cut to 32 bits
  Packable(_, _),  \* whether the library of a codec can pack a body
  MinCompression,  \* min_compression_size of the filters
  MaxFlatbuffers,  \* FLATBUFFERS_MAX_BUFFER_SIZE
  Statuses,        \* the statuses handlers set; 0 is a handler that sets none
  OutChains,       \* the outgoing filter chains
  InChains,        \* the incoming filter chains
  None             \* no method, no reply

ASSUME DataAssumption == Data # {}
ASSUME ChainsAssumption == \A chain \in OutChains \cup InChains : chain \in Seq(STRING)
ASSUME SizeAssumption ==
  /\ MaxFlatbuffers \in Nat
  /\ \A d \in Data, as \in {<<>>, <<"zstd">>, <<"lz4">>} : Size([data |-> d, as |-> as]) \in Nat
ASSUME NoneAssumption == None \notin [data : Data, status : Statuses, off : BOOLEAN]

Codecs == {"zstd", "lz4"}
Method == UNION {MethodsOf[s] : s \in Services}
Session == 1       \* the slot of the call; RpcClient numbers the calls

VARIABLES
  conf,      \* the filters of both ends, and whether DLOG_THROW_IF is compiled in
  services,  \* rpc_handle_router::services_
  call,      \* what the caller asked for
  at,        \* the stage the call has reached
  todo,      \* the filters of this stage still to be applied
  msg,       \* the envelope or receive context: header fields and body
  handler,   \* the method the router chose
  seen,      \* history: what the handler was given
  reply,     \* history: what the handler answered
  got,       \* history: what the caller was given
  faults     \* history: what went wrong outside the path itself

vars == <<conf, services, call, at, todo, msg, handler, seen, reply, got, faults>>

(* A body: the data and the codecs it is packed in, outermost first.       *)
Plain(d) == [data |-> d, as |-> <<>>]
Packed(f, b) == [data |-> b.data, as |-> <<f>> \o b.as]

(* checksum_rpc: the header fields size and checksum follow the body.      *)
Envelope(compression, session, meta, body) ==
  [compression |-> compression, session |-> session, meta |-> meta,
   size |-> Size(body), checksum |-> Hash(body), body |-> body]

Flag(off) == IF off THEN "disabled" ELSE "none"

Init ==
  /\ conf \in [debug : BOOLEAN, client_out : OutChains, server_in : InChains,
               server_out : OutChains, client_in : InChains]
  /\ services = <<>>
  /\ call = None
  /\ at = "idle"
  /\ todo = <<>>
  /\ msg = Envelope("none", 0, 0, Plain(CHOOSE d \in Data : TRUE))
  /\ handler = None
  /\ seen = None
  /\ reply = None
  /\ got = None
  /\ faults = {}

-----------------------------------------------------------------------------
(* Filters and codecs.                                                     *)

(* A compression filter passes on what is flagged already, or too small.   *)
Skips(m) == m.compression # "none" \/ Size(m.body) <= MinCompression

(* Mutant: the checksum and the size are those of the body before.         *)
CompressStaleHeader(f, m) ==
  IF Skips(m) THEN m
  ELSE [compression |-> f, session |-> m.session, meta |-> m.meta,
        size |-> m.size, checksum |-> m.checksum, body |-> Packed(f, m.body)]

(* compress() throws on a body that ZSTD_compress reports an error for, or *)
(* that LZ4_compress_default does not pack: one beyond LZ4_MAX_INPUT_SIZE, *)
(* which is below FLATBUFFERS_MAX_BUFFER_SIZE.                             *)
Packs(f, m) == Skips(m) \/ Packable(f, m.body)

(* zstd_compression_filter, lz4_compression_filter, when they do not throw.*)
Compress(f, m) ==
  IF Skips(m) THEN m
  ELSE Envelope(f, m.session, m.meta, Packed(f, m.body))

(* uncompress() finds its own format, else it throws.                      *)
Unpackable(f, m) == m.compression = f => m.body.as # <<>> /\ Head(m.body.as) = f

(* zstd_decompression_filter, lz4_decompression_filter.                    *)
Decompress(f, m) ==
  IF m.compression # f THEN m
  ELSE Envelope("none", m.session, m.meta,
                [data |-> m.body.data, as |-> Tail(m.body.as)])

OutStages == {"client_out", "server_out"}
InStages == {"server_in", "client_in"}

(* One turn of rpc_filter_apply; a filter of the user passes the message.  *)
ApplyOut ==
  /\ at \in OutStages /\ todo # <<>>
  /\ Head(todo) \in Codecs => Packs(Head(todo), msg)
  /\ msg' = IF Head(todo) \in Codecs THEN Compress(Head(todo), msg) ELSE msg
  /\ todo' = Tail(todo)
  /\ UNCHANGED <<conf, services, call, at, handler, seen, reply, got, faults>>

ApplyIn ==
  /\ at \in InStages /\ todo # <<>>
  /\ Head(todo) \in Codecs => Unpackable(Head(todo), msg)
  /\ msg' = IF Head(todo) \in Codecs THEN Decompress(Head(todo), msg) ELSE msg
  /\ todo' = Tail(todo)
  /\ UNCHANGED <<conf, services, call, at, handler, seen, reply, got, faults>>

(* A throwing filter fails the call on the client; on the server nobody    *)
(* looks at the future of the request, and the reply is lost.              *)
Thrown == at' = IF at \in {"client_out", "client_in"} THEN "failed" ELSE "lost"

UserFilterThrows ==
  /\ at \in OutStages \cup InStages /\ todo # <<>> /\ Head(todo) \notin Codecs
  /\ Thrown
  /\ faults' = faults \cup {"throw"}
  /\ UNCHANGED <<conf, services, call, todo, msg, handler, seen, reply, got>>

CompressThrows ==
  /\ at \in OutStages /\ todo # <<>>
  /\ Head(todo) \in Codecs /\ ~Packs(Head(todo), msg)
  /\ Thrown
  /\ UNCHANGED <<conf, services, call, todo, msg, handler, seen, reply, got, faults>>

UncompressThrows ==
  /\ at \in InStages /\ todo # <<>>
  /\ Head(todo) \in Codecs /\ ~Unpackable(Head(todo), msg)
  /\ Thrown
  /\ UNCHANGED <<conf, services, call, todo, msg, handler, seen, reply, got, faults>>

-----------------------------------------------------------------------------
(* The client's way out.                                                   *)

(* The generated stub: serialize_data, set_request_id, and the session of  *)
(* raw_send.  The caller may have disabled compression.                    *)
Stub(m, d, off) ==
  /\ at = "idle"
  /\ call' = [method |-> m, data |-> d, off |-> off]
  /\ msg' = Envelope(Flag(off), Session, RequestId[m], Plain(d))
  /\ at' = "client_out"
  /\ todo' = conf.client_out
  /\ UNCHANGED <<conf, services, handler, seen, reply, got, faults>>

(* rpc_envelope::send throws before it returns a future, past every        *)
(* handler: nothing is written and the caller is not told.                 *)
SendThrows == conf.debug /\ (msg.size = 0 \/ msg.checksum = 0)

SendRequest ==
  /\ at = "client_out" /\ todo = <<>>
  /\ at' = IF SendThrows THEN "lost" ELSE "to_server"
  /\ UNCHANGED <<conf, services, call, todo, msg, handler, seen, reply, got, faults>>

(* The body is damaged on the wire, once.  A damage that keeps the hash    *)
(* cannot be told from the original.                                       *)
Damage ==
  /\ at \in {"to_server", "to_client"}
  /\ faults \cap {"damage", "collision"} = {}
  /\ \E d \in Data, as \in {<<>>, <<"zstd">>, <<"lz4">>} :
       LET b == [data |-> d, as |-> as]
       IN /\ b # msg.body /\ Size(b) = Size(msg.body)
          /\ msg' = [compression |-> msg.compression, session |-> msg.session, meta |-> msg.meta,
                     size |-> msg.size, checksum |-> msg.checksum, body |-> b]
          /\ faults' = faults \cup {IF Hash(b) = Hash(msg.body) THEN "collision" ELSE "damage"}
  /\ UNCHANGED <<conf, services, call, at, todo, handler, seen, reply, got>>

-----------------------------------------------------------------------------
(* Reading a message, at either end.                                       *)

(* parse_header.  The flag of the model has no value out of range.         *)
HeaderOk(m) == m.size # 0 /\ m.checksum # 0 /\ m.meta # 0

(* Mutant: the checksum is not compared.                                   *)
PayloadOkUnchecked(m) == m.size = Size(m.body) /\ m.size <= MaxFlatbuffers

(* parse_payload.  bitflags, which no code sets, are left out.             *)
PayloadOk(m) ==
  /\ m.size = Size(m.body)
  /\ m.size <= MaxFlatbuffers
  /\ m.checksum = Hash(m.body)

Readable(m) == HeaderOk(m) /\ PayloadOk(m)

(* The end of parse_header: "disabled" has served its purpose.             *)
Parsed(m) ==
  [compression |-> IF m.compression = "disabled" THEN "none" ELSE m.compression,
   session |-> m.session, meta |-> m.meta, size |-> m.size,
   checksum |-> m.checksum, body |-> m.body]

-----------------------------------------------------------------------------
(* The router.                                                             *)

Serves(s, id) == \E m \in MethodsOf[s] : RequestId[m] = id

(* Mutant: the service registered last wins.                               *)
RouteLast(ss, id) ==
  LET hits == {i \in DOMAIN ss : Serves(ss[i], id)}
  IN IF hits = {} THEN None
     ELSE LET i == CHOOSE i \in hits : \A j \in hits : j <= i
          IN CHOOSE m \in MethodsOf[ss[i]] : RequestId[m] = id

(* get_handle_for_request: the first service with such a method.           *)
Route(ss, id) ==
  LET hits == {i \in DOMAIN ss : Serves(ss[i], id)}
  IN IF hits = {} THEN None
     ELSE LET i == CHOOSE i \in hits : \A j \in hits : i <= j
          IN CHOOSE m \in MethodsOf[ss[i]] : RequestId[m] = id

(* register_service, before the server reads the request.                  *)
Register(s) ==
  /\ at \in {"idle", "to_server"}
  /\ s \notin {services[i] : i \in DOMAIN services}
  /\ services' = Append(services, s)
  /\ UNCHANGED <<conf, call, at, todo, msg, handler, seen, reply, got, faults>>

-----------------------------------------------------------------------------
(* The server.                                                             *)

(* A refused message, or an id without a route, is an error of the         *)
(* connection.  do_dispatch_rpc tests the id for 0 again, after            *)
(* parse_header has.                                                       *)
ServerRefuses ==
  /\ at = "to_server"
  /\ ~Readable(msg)
  /\ at' = "closed"
  /\ UNCHANGED <<conf, services, call, todo, msg, handler, seen, reply, got, faults>>

ServerNoRoute ==
  /\ at = "to_server"
  /\ Readable(msg) /\ Route(services, msg.meta) = None
  /\ at' = "closed"
  /\ faults' = faults \cup {"unrouted"}
  /\ UNCHANGED <<conf, services, call, todo, msg, handler, seen, reply, got>>

ServerReceives ==
  /\ at = "to_server"
  /\ Readable(msg) /\ Route(services, msg.meta) # None
  /\ at' = "server_in"
  /\ todo' = conf.server_in
  /\ msg' = Parsed(msg)
  /\ handler' = Route(services, msg.meta)
  /\ UNCHANGED <<conf, services, call, seen, reply, got, faults>>

StillCompressed == msg.compression # "none"

ServerCannotDecompress ==
  /\ at = "server_in" /\ todo = <<>>
  /\ StillCompressed
  /\ at' = "closed"
  /\ UNCHANGED <<conf, services, call, todo, msg, handler, seen, reply, got, faults>>

(* Mutant: the session of the request is not copied to the reply.          *)
ReplyWithoutSession(d, status, off) == Envelope(Flag(off), 0, status, Plain(d))

(* serialize_data of the raw method, and the session the generated lambda  *)
(* keeps from the request.                                                 *)
ReplyEnvelope(d, status, off) == Envelope(Flag(off), msg.session, status, Plain(d))

(* The generated method answers 501 unless it is overridden.               *)
Handle(d, status, off) ==
  /\ at = "server_in" /\ todo = <<>>
  /\ ~StillCompressed
  /\ seen' = [method |-> handler, body |-> msg.body]
  /\ reply' = [data |-> d, status |-> status, off |-> off]
  /\ msg' = ReplyEnvelope(d, status, off)
  /\ at' = "server_out"
  /\ todo' = conf.server_out
  /\ UNCHANGED <<conf, services, call, handler, got, faults>>

HandlerThrows ==
  /\ at = "server_in" /\ todo = <<>>
  /\ ~StillCompressed
  /\ Thrown
  /\ seen' = [method |-> handler, body |-> msg.body]
  /\ faults' = faults \cup {"throw"}
  /\ UNCHANGED <<conf, services, call, todo, msg, handler, reply, got>>

SendReply ==
  /\ at = "server_out" /\ todo = <<>>
  /\ at' = IF SendThrows THEN "lost" ELSE "to_client"
  /\ UNCHANGED <<conf, services, call, todo, msg, handler, seen, reply, got, faults>>

-----------------------------------------------------------------------------
(* The client's way in.                                                    *)

(* A refused reply, or one for a session without a slot, fails the         *)
(* connection and with it the call.                                        *)
ClientRefuses ==
  /\ at = "to_client"
  /\ ~(Readable(msg) /\ msg.session = Session)
  /\ at' = "failed"
  /\ UNCHANGED <<conf, services, call, todo, msg, handler, seen, reply, got, faults>>

ClientReceives ==
  /\ at = "to_client"
  /\ Readable(msg) /\ msg.session = Session
  /\ at' = "client_in"
  /\ todo' = conf.client_in
  /\ msg' = Parsed(msg)
  /\ UNCHANGED <<conf, services, call, handler, seen, reply, got, faults>>

(* The end of raw_send: a body no filter decompressed fails the call.      *)
Answer ==
  /\ at = "client_in" /\ todo = <<>>
  /\ IF StillCompressed THEN at' = "failed" /\ UNCHANGED got
     ELSE /\ at' = "answered"
          /\ got' = [body |-> msg.body, status |-> msg.meta]
  /\ UNCHANGED <<conf, services, call, todo, msg, handler, seen, reply, faults>>

Next ==
  \/ \E s \in Services : Register(s)
  \/ \E m \in Method, d \in Data, off \in BOOLEAN : Stub(m, d, off)
  \/ ApplyOut \/ ApplyIn \/ UserFilterThrows \/ CompressThrows \/ UncompressThrows
  \/ SendRequest \/ Damage
  \/ ServerRefuses \/ ServerNoRoute \/ ServerReceives \/ ServerCannotDecompress
  \/ \E d \in Data, status \in Statuses, off \in BOOLEAN : Handle(d, status, off)
  \/ HandlerThrows \/ SendReply
  \/ ClientRefuses \/ ClientReceives \/ Answer

Spec == Init /\ [][Next]_vars

-----------------------------------------------------------------------------
(* Properties.                                                             *)

Stages == {"idle", "to_server", "to_client", "answered", "failed", "lost", "closed"}
          \cup OutStages \cup InStages

(* Every variable has its type.                                            *)
TypeOK ==
  /\ at \in Stages
  /\ services \in Seq(Services)
  /\ msg.compression \in {"none", "disabled"} \cup Codecs
  /\ msg.body \in [data : Data, as : {<<>>, <<"zstd">>, <<"lz4">>}]
  /\ handler \in Method \cup {None}
  /\ faults \subseteq {"throw", "damage", "collision", "unrouted"}

Untouched == faults \cap {"damage", "collision"} = {}

Described(m) ==
  /\ m.size = Size(m.body)
  /\ m.checksum = Hash(m.body)
  /\ m.body.as = IF m.compression \in Codecs THEN <<m.compression>> ELSE <<>>

(* Until it is damaged, a message is what its header says, in every stage  *)
(* of both ends: size and checksum are those of the body, and the flag     *)
(* names the one codec the body is packed in.                              *)
HeaderDescribesBody == Untouched => Described(msg)

(* What the handler and the caller are given is what the other side sent,  *)
(* plain, whatever the filters did to it on the way, unless a damaged body *)
(* kept its checksum; the handler is one with the id that was called.      *)
DeliveredIntact ==
  /\ seen # None =>
       /\ RequestId[seen.method] = RequestId[call.method]
       /\ "collision" \notin faults => seen.body = Plain(call.data)
  /\ got # None /\ "collision" \notin faults =>
       got = [body |-> Plain(reply.data), status |-> reply.status]

(* The body a filter chain puts on the wire, in one step: the first codec  *)
(* of the chain packs it, and the flag it sets stops every later one.      *)
CodecsIn(chain) == {i \in DOMAIN chain : chain[i] \in Codecs}

FirstCodec(chain) == chain[CHOOSE i \in CodecsIn(chain) : \A j \in CodecsIn(chain) : i <= j]

GoesPlain(chain, off, d) ==
  off \/ CodecsIn(chain) = {} \/ Size(Plain(d)) <= MinCompression

WireBody(chain, off, d) ==
  IF GoesPlain(chain, off, d) THEN Plain(d)
  ELSE Packed(FirstCodec(chain), Plain(d))

(* Why a sender cannot send it: the codec cannot pack it, and nobody falls *)
(* back to the plain body.                                                 *)
CannotPack(chain, off, d) ==
  ~GoesPlain(chain, off, d) /\ ~Packable(FirstCodec(chain), Plain(d))

(* Why a receiver with the incoming chain in cannot use such a body.       *)
BodyRefused(b, in) ==
  \/ Size(b) = 0
  \/ Hash(b) = 0
  \/ Size(b) > MaxFlatbuffers
  \/ b.as # <<>> /\ \A i \in DOMAIN in : in[i] # Head(b.as)

RequestRefused ==
  \/ RequestId[call.method] = 0
  \/ CannotPack(conf.client_out, call.off, call.data)
  \/ BodyRefused(WireBody(conf.client_out, call.off, call.data), conf.server_in)

ReplyBodyRefused ==
  \/ CannotPack(conf.server_out, reply.off, reply.data)
  \/ BodyRefused(WireBody(conf.server_out, reply.off, reply.data), conf.client_in)

Ended == at \in {"answered", "failed", "lost", "closed"}

(* A call that meets no fault is answered if and only if neither of its    *)
(* two messages runs into an edge of the protocol: an id, a status, a size *)
(* or a checksum that is 0, a body beyond the limit, a codec that cannot   *)
(* pack the body, a codec the other end has no filter for.                 *)
AnsweredUnlessRefused ==
  Ended /\ faults = {} =>
    (at = "answered" <=> ~RequestRefused /\ reply # None /\ ~ReplyBodyRefused /\ reply.status # 0)

(* A later register_service never takes an id from the method it reaches.  *)
RoutesAreStable ==
  [][\A m \in Method :
       Route(services, RequestId[m]) # None =>
         Route(services', RequestId[m]) = Route(services, RequestId[m])]_vars

(* The generated code says of the status it is "Not imposed by smf         *)
(* whatsoever": a reply that can be read is answered whatever its status.  *)
StatusIsNotImposed ==
  Ended /\ faults = {} /\ reply # None /\ ~ReplyBodyRefused => at = "answered"

=============================================================================

------------------------- MODULE LoadGeneratorProofs -------------------------
(***************************************************************************)
(* Proofs about LoadGenerator: the benchmark of a core waits for all its   *)
(* channels, and the requests and latencies of all of them are accounted   *)
(* for, with any number of cores and channels.                             *)
(***************************************************************************)
EXTENDS LoadGenerator, ProofLemmas

-----------------------------------------------------------------------------
(* The benchmark of a core ends after its channels: while it runs, the     *)
(* units that are back are as many as the channels that are done.          *)

TypeOK ==
  /\ args \in Args
  /\ phase \in {"connect", "benchmark", "failed", "done"}
  /\ state \in [Channels -> {"new", "ready", "next", "call", "done"}]
  /\ limit \in [Cores -> Nat]
  /\ bench \in [Cores -> {"none", "begun", "ended"}]

Done(k) == {c \in OfCore(k) : state[c] = "done"}

RunInv ==
  /\ phase \in {"connect", "failed"} => \A k \in Cores : bench[k] = "none"
  /\ phase = "benchmark" => \A c \in Channels : bench[c[1]] = "none" => state[c] = "ready"
  /\ phase = "done" => \A k \in Cores : bench[k] = "ended"
  /\ \A c \in Channels : state[c] \in {"next", "call"} => bench[c[1]] = "begun"
  /\ \A c \in Channels : state[c] \in {"new", "ready"} => bench[c[1]] = "none"

UnitsInv == \A k \in Cores : bench[k] = "begun" => limit[k] = Cardinality(Done(k))

EndInv == TypeOK /\ RunInv /\ UnitsInv

(* The cores and the channels of each.                                     *)
LEMMA Shape ==
  ASSUME TypeOK
  PROVE  /\ args.cores \in Nat /\ args.concurrency \in Nat \ {0} /\ args.num_of_req \in Nat
         /\ IsFiniteSet(Cores) /\ IsFiniteSet(Channels) /\ \A c \in Channels : c[1] \in Cores
         /\ \A k \in Cores : /\ OfCore(k) \subseteq Channels /\ IsFiniteSet(OfCore(k))
                             /\ Cardinality(OfCore(k)) = args.concurrency
<1>1. args.cores \in Nat /\ args.concurrency \in Nat \ {0} /\ args.num_of_req \in Nat
  BY Zenon, ArgsAssumption DEF TypeOK
<1> DEFINE n == args.concurrency
<1>2. IsFiniteSet(Cores) /\ IsFiniteSet(1..n) /\ Cardinality(1..n) = n
  <2>1. ASSUME NEW i \in Nat PROVE IsFiniteSet(1..i) /\ Cardinality(1..i) = i
    BY FS_Interval
  <2> QED
    BY Zenon, <1>1, <2>1 DEF Cores
<1>3. IsFiniteSet(Channels)
  BY Zenon, <1>2, FS_Product DEF Channels
<1>4. \A c \in Channels : c[1] \in Cores
  BY Zenon DEF Channels
<1>5. ASSUME NEW k \in Cores
      PROVE  IsFiniteSet(OfCore(k)) /\ Cardinality(OfCore(k)) = n
  <2> DEFINE f == [i \in 1..n |-> <<k, i>>]
  <2>1. \A c \in OfCore(k) : c = <<k, c[2]>> /\ c[2] \in 1..n
    BY DEF OfCore, Channels
  <2>2. \A i \in 1..n : <<k, i>> \in OfCore(k)
    BY Zenon DEF OfCore, Channels
  <2>3. f \in Bijection(1..n, OfCore(k))
    BY Zenon, <2>1, <2>2 DEF Bijection, Injection, Surjection, IsInjective
  <2> HIDE DEF f, n
  <2>4. ExistsBijection(1..n, OfCore(k))
    BY Zenon, <2>3 DEF ExistsBijection
  <2> QED
    BY Zenon, <1>2, <2>4, FS_Bijection
<1> QED
  BY Zenon, <1>1, <1>2, <1>3, <1>4, <1>5 DEF OfCore

(* The steps of a running channel: its loop goes on, or it is over and     *)
(* returns its unit.                                                       *)
Moves(c, to) ==
  /\ state[c] \in {"next", "call"} /\ to \in {"next", "call", "done"}
  /\ state' = [state EXCEPT ![c] = to]
  /\ limit' = IF to = "done" THEN [limit EXCEPT ![c[1]] = @ + 1] ELSE limit
  /\ UNCHANGED <<main, bench>>

Connects(c) ==
  /\ phase = "connect" /\ state[c] = "new"
  /\ \E to \in {"ready", "done"} : state' = [state EXCEPT ![c] = to]
  /\ UNCHANGED <<main, limit, bench>>

(* Every step is one of these as far as the end of a benchmark goes.       *)
LEMMA Kinds ==
  ASSUME Next
  PROVE  \/ \E c \in Channels : (\E to : Moves(c, to)) \/ Connects(c)
         \/ Connected \/ Collect
         \/ \E k \in Cores : Begin(k) \/ End(k)
         \/ UNCHANGED <<main, state, limit, bench>>
<1>1. ASSUME NEW c \in Channels, ConnectOk(c) \/ ConnectFails(c) PROVE Connects(c)
  BY Zenon, <1>1 DEF ConnectOk, ConnectFails, Connects, core
<1>2. ASSUME NEW c \in Channels, Issue(c) PROVE Moves(c, "done") \/ Moves(c, "call")
  BY Zenon, <1>2 DEF Issue, Finish, Moves
<1>3. ASSUME NEW c \in Channels, NEW v \in Latencies, Answer(c, v) PROVE Moves(c, "done") \/ Moves(c, "next")
  BY Zenon, <1>3 DEF Answer, Resume, Finish, Moves
<1>4. ASSUME NEW c \in Channels, NEW v \in Latencies, Fail(c, v) PROVE Moves(c, "done")
  BY Zenon, <1>4 DEF Fail, Finish, Moves
<1>5. ASSUME NEW c \in Channels, StopChannel(c) PROVE Moves(c, "done") \/ UNCHANGED <<main, state, limit, bench>>
  BY Zenon, <1>5 DEF StopChannel, Finish, Moves
<1>6. ASSUME NEW c \in Channels, Drop(c) \/ Stopped(c) PROVE UNCHANGED <<main, state, limit, bench>>
  BY Zenon, <1>6 DEF Drop, Stopped, core
<1> QED
  BY <1>1, <1>2, <1>3, <1>4, <1>5, <1>6, ZenonT(60) DEF Next, Step

(* The benchmark of no core has begun at first.                            *)
LEMMA InitEnd == Init => EndInv
<1> SUFFICES ASSUME Init PROVE EndInv
  BY Zenon
<1>1. args.concurrency \in Nat
  BY Zenon, ArgsAssumption DEF Init
<1>2. TypeOK
  BY Zenon, <1>1 DEF Init, TypeOK
<1>3. /\ phase \in {"connect", "failed"}
      /\ \A k \in Cores : bench[k] = "none"
      /\ \A c \in Channels : state[c] = "new" /\ c[1] \in Cores
  BY Zenon, <1>2, Shape DEF Init
<1> QED
  BY Zenon, <1>2, <1>3 DEF EndInv, RunInv, UnitsInv

(* A channel that is done has returned its unit.                           *)
LEMMA MovesKeep ==
  ASSUME EndInv, NEW c \in Channels, NEW to, Moves(c, to)
  PROVE  EndInv'
<1>t. TypeOK /\ RunInv /\ UnitsInv
  BY Zenon DEF EndInv
<1>s. /\ IsFiniteSet(Channels) /\ \A d \in Channels : d[1] \in Cores
      /\ \A k \in Cores : OfCore(k) \subseteq Channels /\ IsFiniteSet(OfCore(k))
  BY Zenon, <1>t, Shape
<1>u. /\ args' = args /\ phase' = phase /\ bench' = bench
      /\ Cores' = Cores /\ Channels' = Channels /\ \A k : OfCore(k)' = OfCore(k)
  BY Zenon DEF Moves, main, Cores, Channels, OfCore
<1>1. TypeOK'
  BY SMTT(60), <1>t, <1>u, <1>s DEF Moves, TypeOK
<1>2. \A d \in Channels : state'[d] = IF d = c THEN to ELSE state[d]
  BY Zenon, <1>t DEF Moves, TypeOK
<1>3. bench[c[1]] = "begun"
  BY Zenon, <1>t DEF Moves, RunInv
<1>4. RunInv'
  BY SMTT(60), <1>t, <1>s, <1>u, <1>2, <1>3 DEF Moves, RunInv
<1>5. ASSUME NEW k \in Cores, bench[k] = "begun" PROVE limit'[k] = Cardinality(Done(k)')
  <2>1. Done(k) \subseteq OfCore(k) /\ IsFiniteSet(Done(k))
    BY Zenon, <1>s, FS_Subset DEF Done
  <2>2. CASE to = "done" /\ k = c[1]
    <3>1. Done(k)' = Done(k) \cup {c} /\ c \notin Done(k)
      BY ZenonT(60), <1>s, <1>u, <1>2, <2>2 DEF Done, Moves, OfCore
    <3>2. Cardinality(Done(k) \cup {c}) = Cardinality(Done(k)) + 1
      BY Zenon, <2>1, <3>1, FS_AddElement
    <3>3. limit'[k] = limit[k] + 1
      BY Zenon, <1>t, <2>2 DEF Moves, TypeOK
    <3> QED
      BY ZenonT(60), <1>t, <1>5, <3>1, <3>2, <3>3 DEF UnitsInv
  <2>3. CASE ~(to = "done" /\ k = c[1])
    <3>1. Done(k)' = Done(k)
      BY ZenonT(60), <1>s, <1>u, <1>2, <2>3 DEF Done, Moves, OfCore
    <3>2. limit'[k] = limit[k]
      BY Zenon, <1>t, <1>s, <2>3 DEF Moves, TypeOK
    <3> QED
      BY ZenonT(60), <1>t, <1>5, <3>1, <3>2 DEF UnitsInv
  <2> QED
    BY Zenon, <2>2, <2>3
<1>6. UnitsInv'
  BY Zenon, <1>u, <1>5 DEF UnitsInv
<1> QED
  BY Zenon, <1>1, <1>4, <1>6 DEF EndInv

(* Every step keeps the invariant.                                         *)
LEMMA NextEnd == EndInv /\ [Next]_vars => EndInv'
<1> SUFFICES ASSUME EndInv, [Next]_vars PROVE EndInv'
  BY Zenon
<1>t. TypeOK /\ RunInv /\ UnitsInv
  BY Zenon DEF EndInv
<1>s. /\ IsFiniteSet(Channels) /\ \A c \in Channels : c[1] \in Cores
      /\ \A k \in Cores : OfCore(k) \subseteq Channels /\ IsFiniteSet(OfCore(k))
      /\ \A k \in Cores : Cardinality(OfCore(k)) = args.concurrency
      /\ args.concurrency \in Nat
  BY Zenon, <1>t, Shape
<1>u. ASSUME args' = args
      PROVE  Cores' = Cores /\ Channels' = Channels /\ \A k : OfCore(k)' = OfCore(k)
  BY Zenon, <1>u DEF Cores, Channels, OfCore
<1>1. CASE UNCHANGED <<main, state, limit, bench>>
  <2>1. UNCHANGED <<args, phase, state, limit, bench, Cores, Channels>> /\ \A k : OfCore(k)' = OfCore(k)
    BY Zenon, <1>1, <1>u DEF main
  <2>2. \A k : Done(k)' = Done(k)
    BY Zenon, <2>1 DEF Done
  <2> QED
    BY ZenonT(60), <1>t, <2>1, <2>2 DEF EndInv, TypeOK, RunInv, UnitsInv
<1>2. ASSUME NEW c \in Channels, NEW to, Moves(c, to) PROVE EndInv'
  BY Zenon, <1>2, MovesKeep
<1>3. ASSUME NEW c \in Channels, Connects(c) PROVE EndInv'
  <2>1. UNCHANGED <<args, phase, limit, bench, Cores, Channels>> /\ phase = "connect"
    BY Zenon, <1>3, <1>u DEF Connects, main
  <2>2. \A d \in Channels : state'[d] = state[d] \/ (d = c /\ state'[d] \in {"ready", "done"})
    BY Zenon, <1>3, <1>t DEF Connects, TypeOK
  <2>3. TypeOK'
    BY ZenonT(60), <1>3, <1>t, <2>1 DEF Connects, TypeOK
  <2>4. \A k \in Cores : bench[k] = "none"
    BY Zenon, <1>t, <2>1 DEF RunInv
  <2>5. RunInv' /\ UnitsInv'
    BY ZenonT(60), <1>t, <1>s, <2>1, <2>2, <2>4 DEF RunInv, UnitsInv
  <2> QED
    BY Zenon, <2>3, <2>5 DEF EndInv
<1>4. CASE Connected
  <2>1. UNCHANGED <<args, state, limit, bench, Cores, Channels>> /\ phase = "connect"
    BY Zenon, <1>4, <1>u DEF Connected, channel, core
  <2>2. /\ phase' \in {"benchmark", "failed"}
        /\ phase' = "benchmark" => \A c \in Channels : state[c] = "ready"
    BY Zenon, <1>4 DEF Connected
  <2>3. \A k \in Cores : bench[k] = "none"
    BY Zenon, <1>t, <2>1 DEF RunInv
  <2> QED
    BY ZenonT(60), <1>t, <1>s, <2>1, <2>2, <2>3 DEF EndInv, TypeOK, RunInv, UnitsInv
<1>5. CASE Collect
  <2>1. /\ UNCHANGED <<args, state, limit, bench, Cores, Channels>> /\ phase' = "done"
        /\ \A k \in Cores : bench[k] = "ended"
    BY Zenon, <1>5, <1>u DEF Collect, channel, core
  <2> QED
    BY Zenon, <1>t, <1>s, <2>1 DEF EndInv, TypeOK, RunInv, UnitsInv
<1>6. ASSUME NEW k \in Cores, Begin(k) PROVE EndInv'
  <2>1. /\ UNCHANGED <<args, phase, Cores, Channels>> /\ \A j : OfCore(j)' = OfCore(j)
        /\ phase = "benchmark"
    BY Zenon, <1>6, <1>u DEF Begin, main
  <2>2. /\ bench' = [bench EXCEPT ![k] = "begun"] /\ limit' = [limit EXCEPT ![k] = 0]
        /\ bench[k] = "none"
        /\ state' = [c \in Channels |-> IF c[1] = k THEN "next" ELSE state[c]]
    BY Zenon, <1>6 DEF Begin
  <2>3. TypeOK'
    BY Zenon, <1>t, <2>1, <2>2 DEF TypeOK
  <2>4. \A j \in Cores : bench'[j] = IF j = k THEN "begun" ELSE bench[j]
    BY Zenon, <1>t, <2>2 DEF TypeOK
  <2>5. RunInv'
    BY SMTT(60), <1>t, <1>s, <2>1, <2>2, <2>4 DEF RunInv
  <2>6. ASSUME NEW j \in Cores, bench'[j] = "begun" PROVE limit'[j] = Cardinality(Done(j)')
    <3>1. CASE j = k
      <4>1. Done(j)' = {}
        BY Zenon, <2>1, <2>2, <1>s, <3>1 DEF Done, OfCore
      <4> QED
        BY ZenonT(60), <1>t, <2>2, <3>1, <4>1, FS_EmptySet DEF TypeOK
    <3>2. CASE j # k
      <4>1. Done(j)' = Done(j)
        BY Zenon, <2>1, <2>2, <1>s, <3>2 DEF Done, OfCore
      <4>2. limit'[j] = limit[j] /\ bench[j] = "begun"
        BY ZenonT(60), <1>t, <2>2, <2>4, <2>6, <3>2 DEF TypeOK
      <4> QED
        BY Zenon, <1>t, <4>1, <4>2 DEF UnitsInv
    <3> QED
      BY Zenon, <3>1, <3>2
  <2>7. UnitsInv'
    BY ZenonT(60), <2>1, <2>6 DEF UnitsInv
  <2> QED
    BY Zenon, <2>3, <2>5, <2>7 DEF EndInv
<1>7. ASSUME NEW k \in Cores, End(k) PROVE EndInv'
  <2>1. /\ UNCHANGED <<args, phase, state, Cores, Channels>> /\ \A j : OfCore(j)' = OfCore(j)
        /\ bench' = [bench EXCEPT ![k] = "ended"] /\ limit' = [limit EXCEPT ![k] = 0]
        /\ bench[k] = "begun" /\ limit[k] = args.concurrency
    BY Zenon, <1>7, <1>u DEF End, main, channel
  <2>2. Done(k) = OfCore(k)
    <3>1. Done(k) \subseteq OfCore(k) /\ Cardinality(Done(k)) = Cardinality(OfCore(k))
      BY Zenon, <1>t, <1>s, <2>1 DEF UnitsInv, Done
    <3> QED
      BY Zenon, <1>s, <3>1, FS_Subset
  <2>3. \A c \in Channels : c[1] = k => state[c] = "done"
    BY Zenon, <2>2 DEF Done, OfCore
  <2>4. TypeOK'
    BY Zenon, <1>t, <2>1 DEF TypeOK
  <2>5. \A j \in Cores : bench'[j] = IF j = k THEN "ended" ELSE bench[j]
    BY Zenon, <1>t, <2>1 DEF TypeOK
  <2>6. RunInv'
    BY SMTT(60), <1>t, <1>s, <2>1, <2>3, <2>5 DEF RunInv
  <2>7. \A j \in Cores : Done(j)' = Done(j) /\ (j # k => limit'[j] = limit[j])
    BY Zenon, <1>t, <2>1 DEF Done, TypeOK
  <2>8. UnitsInv'
    BY SMTT(60), <1>t, <2>1, <2>5, <2>7 DEF UnitsInv
  <2> QED
    BY Zenon, <2>4, <2>6, <2>8 DEF EndInv
<1>8. CASE UNCHANGED vars
  BY <1>1, <1>8, Zenon DEF vars, channel, core
<1> QED
  BY <1>1, <1>2, <1>3, <1>4, <1>5, <1>6, <1>7, <1>8, Kinds, ZenonT(60)

(* The invariant holds throughout.                                         *)
LEMMA EndInvAlways == Spec => []EndInv
  BY InitEnd, NextEnd, PTL DEF Spec

(* load_generator::benchmark ends when its semaphore is full again, and    *)
(* then every loop is over, however each of them ended.                    *)
THEOREM BenchmarkEndsLast == Spec => []EndsAfterAll
<1>1. EndInv => EndsAfterAll
  <2> SUFFICES ASSUME EndInv, NEW k \in Cores, bench[k] = "ended", NEW c \in OfCore(k)
               PROVE  state[c] = "done"
    BY Zenon DEF EndsAfterAll
  <2>1. c \in Channels /\ c[1] = k
    BY Zenon DEF OfCore
  <2> QED
    BY ZenonT(60), <2>1 DEF EndInv, TypeOK, RunInv
<1> QED
  BY <1>1, EndInvAlways, PTL

-----------------------------------------------------------------------------
(* The requests.                                                           *)

Issued(k) == SumFunctionOnSet([c \in Channels |-> ReqsPerChannel - left[c]], OfCore(k))

RequestInv ==
  /\ left \in [Channels -> Nat]
  /\ up \in [Channels -> BOOLEAN]
  /\ gate \in [Channels -> {"open", "closing", "closed"}]
  /\ bytes \in [Cores -> Nat]
  /\ \A c \in Channels : gate[c] # "open" => ~up[c]
  /\ \A c \in Channels : bench[c[1]] # "none" => left[c] <= ReqsPerChannel
  /\ \A c \in Channels : state[c] = "next" => left[c] > 0
  /\ \A c \in Channels : bench[c[1]] # "none" /\ state[c] = "done" /\ up[c] => left[c] = 0
  /\ \A k \in Cores : bytes[k] = IF bench[k] = "none" THEN 0 ELSE Issued(k) * EnvelopeSize

(* The larger of two numbers.                                              *)
LEMMA MaxOfTwo ==
  ASSUME NEW a \in Int, NEW b \in Int
  PROVE  Max({a, b}) = IF a <= b THEN b ELSE a
<1> DEFINE m == Max({a, b})
<1>1. \E x \in {a, b} : \A y \in {a, b} : x >= y
  OBVIOUS
<1>2. m \in {a, b} /\ \A y \in {a, b} : m >= y
  BY Zenon, <1>1 DEF Max
<1> HIDE DEF m
<1>3. m = IF a <= b THEN b ELSE a
  BY <1>2
<1> QED
  BY Zenon, <1>3 DEF m

(* reqs_per_channel is a number, and not 0.                                *)
LEMMA Shares ==
  ASSUME TypeOK
  PROVE  ReqsPerChannel \in Nat \ {0}
<1> DEFINE q == args.num_of_req \div args.concurrency
<1>1. args.num_of_req \in Nat /\ args.concurrency \in Nat /\ args.concurrency > 0
  BY Shape
<1>2. q \in Nat
  BY SMTT(60), <1>1
<1>3. ReqsPerChannel = Max({1, q})
  BY Zenon DEF ReqsPerChannel
<1> HIDE DEF q
<1> QED
  BY SMTT(60), <1>2, <1>3, MaxOfTwo

(* Nothing has been issued at first.                                       *)
LEMMA InitRequests == Init => RequestInv
<1> SUFFICES ASSUME Init PROVE RequestInv
  BY Zenon
<1>1. \A c \in Channels : c[1] \in Cores
  BY Zenon DEF Channels
<1> QED
  BY ZenonT(60), <1>1 DEF Init, RequestInv

(* Every step keeps the invariant.                                         *)
LEMMA NextRequests == EndInv /\ EndInv' /\ RequestInv /\ [Next]_vars => RequestInv'
<1> SUFFICES ASSUME EndInv, EndInv', RequestInv, [Next]_vars PROVE RequestInv'
  BY Zenon
<1>t. TypeOK /\ RunInv
  BY Zenon DEF EndInv
<1>s. /\ \A c \in Channels : c[1] \in Cores
      /\ \A k \in Cores : OfCore(k) \subseteq Channels /\ IsFiniteSet(OfCore(k))
      /\ \A k : \A c \in OfCore(k) : c[1] = k
      /\ ReqsPerChannel \in Nat \ {0} /\ EnvelopeSize \in Nat
  BY ZenonT(60), <1>t, Shape, Shares, ArgsAssumption DEF OfCore
<1>a. args' = args
  BY ZenonT(60) DEF Next, Step, ConnectOk, ConnectFails, Issue, Stopped, Answer, Fail,
     StopChannel, Drop,
     Begin, End, Connected, Collect, main, vars
<1>u. /\ Cores' = Cores /\ Channels' = Channels /\ \A k : OfCore(k)' = OfCore(k)
      /\ ReqsPerChannel' = ReqsPerChannel
  BY Zenon, <1>a DEF Cores, Channels, OfCore, ReqsPerChannel
<1>f. ASSUME left' = left PROVE \A k : Issued(k)' = Issued(k)
  BY Zenon, <1>f, <1>u DEF Issued
(* The steps that issue nothing.                                           *)
<1> DEFINE Quiet ==
      /\ UNCHANGED <<left, bytes>>
      /\ \A k \in Cores : bench'[k] = "none" <=> bench[k] = "none"
      /\ up' \in [Channels -> BOOLEAN] /\ gate' \in [Channels -> {"open", "closing", "closed"}]
      /\ \A c \in Channels : gate'[c] # "open" => ~up'[c]
      /\ \A c \in Channels : state'[c] = "next" => left[c] > 0
      /\ \A c \in Channels : bench[c[1]] # "none" /\ state'[c] = "done" /\ up'[c] => left[c] = 0
<1>q. ASSUME Quiet PROVE RequestInv'
  BY ZenonT(60), <1>q, <1>s, <1>u, <1>f DEF RequestInv
<1>1. ASSUME NEW c \in Channels, ConnectOk(c) \/ ConnectFails(c) PROVE RequestInv'
  <2>1. \A k \in Cores : bench[k] = "none"
    BY Zenon, <1>1, <1>t DEF ConnectOk, ConnectFails, RunInv
  <2>2. UNCHANGED <<left, bytes, bench, gate>>
    BY Zenon, <1>1 DEF ConnectOk, ConnectFails, core
  <2>3. /\ up' \in [Channels -> BOOLEAN]
        /\ \A d \in Channels : up'[d] = up[d] \/ gate[d] = "open"
        /\ \A d \in Channels : state'[d] = state[d] \/ state'[d] \in {"ready", "done"}
    BY ZenonT(60), <1>1, <1>t DEF ConnectOk, ConnectFails, RequestInv, TypeOK
  <2> QED
    BY Zenon, <1>q, <1>s, <2>1, <2>2, <2>3 DEF RequestInv
<1>2. ASSUME NEW c \in Channels, NEW v \in Latencies, Answer(c, v) PROVE RequestInv'
  <2>1. UNCHANGED <<left, bytes, bench, up, gate>>
    BY ZenonT(60), <1>2 DEF Answer
  <2>2. \A d \in Channels : state'[d] = IF d = c THEN IF left[c] = 0 THEN "done" ELSE "next" ELSE state[d]
    BY ZenonT(60), <1>2, <1>t DEF Answer, Resume, Finish, TypeOK
  <2>3. left[c] \in Nat
    BY ZenonT(60) DEF RequestInv
  <2> QED
    BY SMTT(60), <1>q, <2>1, <2>2, <2>3 DEF RequestInv
<1> DEFINE Breaks(c) ==
      \/ \E v \in Latencies : Fail(c, v)
      \/ Drop(c) \/ StopChannel(c) \/ Stopped(c)
<1>3. ASSUME NEW c \in Channels, Breaks(c) PROVE RequestInv'
  <2>1. UNCHANGED <<left, bytes, bench>>
    BY ZenonT(60), <1>3 DEF Fail, Drop, StopChannel, Stopped, core
  <2>2. /\ \A d \in Channels : d # c => state'[d] = state[d] /\ up'[d] = up[d] /\ gate'[d] = gate[d]
        /\ state'[c] = state[c] \/ state'[c] = "done"
    BY SMTT(60), <1>3, <1>t DEF Fail, Drop, StopChannel, Stopped, Finish, TypeOK, RequestInv
  <2>3. /\ up' \in [Channels -> BOOLEAN] /\ gate' \in [Channels -> {"open", "closing", "closed"}]
        /\ ~up'[c]
    BY ZenonT(60), <1>3, <1>t DEF Fail, Drop, StopChannel, Stopped, RequestInv
  <2> QED
    BY SMTT(60), <1>q, <2>1, <2>2, <2>3 DEF RequestInv
<1>4. ASSUME Connected \/ Collect \/ UNCHANGED vars PROVE RequestInv'
  BY ZenonT(60), <1>4, <1>q DEF Connected, Collect, vars, channel, core, RequestInv
<1>5. ASSUME NEW k \in Cores, End(k) PROVE RequestInv'
  <2>1. UNCHANGED <<left, bytes, up, gate, state>>
    BY ZenonT(60), <1>5 DEF End, channel
  <2>2. \A j \in Cores : bench'[j] = "none" <=> bench[j] = "none"
    BY ZenonT(60), <1>5, <1>t DEF End, TypeOK
  <2> QED
    BY ZenonT(60), <1>q, <2>1, <2>2 DEF RequestInv
<1>6. ASSUME NEW k \in Cores, Begin(k) PROVE RequestInv'
  <2>1. UNCHANGED <<bytes, up, gate>> /\ bench[k] = "none"
    BY Zenon, <1>6 DEF Begin
  <2>2. /\ left' = [c \in Channels |-> IF c[1] = k THEN ReqsPerChannel ELSE left[c]]
        /\ state' = [c \in Channels |-> IF c[1] = k THEN "next" ELSE state[c]]
        /\ \A j \in Cores : bench'[j] = IF j = k THEN "begun" ELSE bench[j]
    BY ZenonT(60), <1>6, <1>t DEF Begin, TypeOK
  <2> DEFINE e == [c \in Channels |-> ReqsPerChannel - left'[c]]
             f == [c \in Channels |-> ReqsPerChannel - left[c]]
  <2>3. Issued(k)' = 0
    <3>1. \A c \in OfCore(k) : e[c] = 0
      BY SMTT(60), <1>s, <2>2
    <3> HIDE DEF e
    <3>2. SumFunctionOnSet(e, OfCore(k)) = 0
      BY ZenonT(60), <1>s, <3>1, SumZero
    <3> QED
      BY <1>u, <3>2, ZenonT(60) DEF e, Issued
  <2>4. ASSUME NEW j \in Cores, j # k, bench[j] # "none" PROVE Issued(j)' = Issued(j)
    <3>1. \A c \in OfCore(j) : f[c] = e[c] /\ f[c] \in Nat
      BY SMTT(60), <1>s, <2>2, <2>4 DEF RequestInv
    <3> HIDE DEF e, f
    <3>2. SumFunctionOnSet(f, OfCore(j)) = SumFunctionOnSet(e, OfCore(j))
      BY ZenonT(60), <1>s, <3>1, SumSame
    <3> QED
      BY <1>u, <3>2, ZenonT(60) DEF e, f, Issued
  <2>5. \A j \in Cores : bytes'[j] = IF bench'[j] = "none" THEN 0 ELSE Issued(j)' * EnvelopeSize
    <3>1. bytes[k] = 0 /\ 0 * EnvelopeSize = 0
      BY SMTT(60), <1>s, <2>1 DEF RequestInv
    <3> QED
      BY ZenonT(60), <2>1, <2>2, <2>3, <2>4, <3>1 DEF RequestInv
  <2>6. left' \in [Channels -> Nat]
    BY ZenonT(60), <1>s, <2>2 DEF RequestInv
  <2>7. /\ \A c \in Channels : bench'[c[1]] # "none" => left'[c] <= ReqsPerChannel
        /\ \A c \in Channels : state'[c] = "next" => left'[c] > 0
        /\ \A c \in Channels : bench'[c[1]] # "none" /\ state'[c] = "done" /\ up[c] => left'[c] = 0
    BY SMTT(60), <1>s, <2>2 DEF RequestInv
  <2> QED
    BY ZenonT(60), <1>u, <2>1, <2>5, <2>6, <2>7 DEF RequestInv
<1>7. ASSUME NEW c \in Channels, Issue(c) PROVE RequestInv'
  <2> DEFINE k == c[1]
  <2>1. /\ UNCHANGED <<up, gate, bench>> /\ left[c] \in Nat \ {0} /\ k \in Cores
        /\ bench[k] = "begun" /\ left[c] <= ReqsPerChannel
    BY SMTT(60), <1>7, <1>s, <1>t DEF Issue, RunInv, RequestInv
  <2>2. \A d \in Channels : left'[d] = IF d = c THEN left[c] - 1 ELSE left[d]
    BY Zenon, <1>7 DEF Issue, RequestInv
  <2>3. \A j \in Cores : bytes'[j] = IF j = k THEN bytes[j] + EnvelopeSize ELSE bytes[j]
    BY Zenon, <1>7 DEF Issue, RequestInv
  <2>4. /\ \A d \in Channels : d # c => state'[d] = state[d]
        /\ state'[c] \in {"call", "done"}
        /\ state'[c] = "done" => ~up[c]
    BY ZenonT(60), <1>7, <1>t DEF Issue, Finish, TypeOK, RequestInv
  <2> DEFINE e == [d \in Channels |-> ReqsPerChannel - left'[d]]
             f == [d \in Channels |-> ReqsPerChannel - left[d]]
  <2>5. \A d \in Channels : bench[d[1]] # "none" => f[d] \in Nat /\ e[d] \in Nat
    BY SMTT(60), <1>s, <2>1, <2>2 DEF RequestInv
  <2>6. e[c] = f[c] + 1 /\ \A d \in Channels : d # c => e[d] = f[d]
    BY SMTT(60), <1>s, <2>1, <2>2
  <2>i. \A j : Issued(j) = SumFunctionOnSet(f, OfCore(j)) /\ Issued(j)' = SumFunctionOnSet(e, OfCore(j))
    BY <1>u, ZenonT(60) DEF Issued
  <2> HIDE DEF e, f
  <2>7. Issued(k)' = Issued(k) + 1 /\ Issued(k) \in Nat
    <3>1. c \in OfCore(k) /\ \A d \in OfCore(k) : f[d] \in Nat /\ e[d] \in Nat
      BY ZenonT(60), <1>s, <2>1, <2>5 DEF OfCore
    <3>2. \A d \in OfCore(k) \ {c} : f[d] = e[d]
      BY ZenonT(60), <1>s, <2>1, <2>6
    <3> HIDE DEF k
    <3>3. SumFunctionOnSet(e, OfCore(k)) = SumFunctionOnSet(f, OfCore(k)) - f[c] + e[c]
      BY SMTT(60), <1>s, <2>1, <3>1, <3>2, SumChange
    <3>4. SumFunctionOnSet(f, OfCore(k)) \in Nat
      BY ZenonT(60), <1>s, <2>1, <3>1, SumNat
    <3> QED
      BY SMTT(60), <2>i, <2>6, <3>1, <3>3, <3>4
  <2>8. ASSUME NEW j \in Cores, j # k, bench[j] # "none" PROVE Issued(j)' = Issued(j)
    <3>1. \A d \in OfCore(j) : f[d] = e[d] /\ f[d] \in Nat
      BY ZenonT(60), <1>s, <2>5, <2>6, <2>8
    <3>2. SumFunctionOnSet(f, OfCore(j)) = SumFunctionOnSet(e, OfCore(j))
      BY ZenonT(60), <1>s, <3>1, SumSame
    <3> QED
      BY Zenon, <2>i, <3>2
  <2>9. bytes'[k] = Issued(k)' * EnvelopeSize
    <3>1. bytes[k] = Issued(k) * EnvelopeSize
      BY ZenonT(60), <2>1 DEF RequestInv
    <3>2. (Issued(k) + 1) * EnvelopeSize = Issued(k) * EnvelopeSize + EnvelopeSize
      BY SMTT(60), <1>s, <2>7
    <3> QED
      BY ZenonT(60), <2>1, <2>3, <2>7, <3>1, <3>2
  <2>10. \A j \in Cores : bytes'[j] = IF bench'[j] = "none" THEN 0 ELSE Issued(j)' * EnvelopeSize
    BY SMTT(60), <2>1, <2>3, <2>8, <2>9 DEF RequestInv
  <2>11. left' \in [Channels -> Nat] /\ bytes' \in [Cores -> Nat]
    BY SMTT(30), <1>7, <1>s, <2>1 DEF Issue, RequestInv
  <2>12. /\ \A d \in Channels : bench[d[1]] # "none" => left'[d] <= ReqsPerChannel
         /\ \A d \in Channels : state'[d] = "next" => left'[d] > 0
         /\ \A d \in Channels : bench[d[1]] # "none" /\ state'[d] = "done" /\ up[d] => left'[d] = 0
    BY SMTT(60), <1>s, <2>1, <2>2, <2>4 DEF RequestInv
  <2> QED
    BY ZenonT(60), <1>u, <2>1, <2>10, <2>11, <2>12 DEF RequestInv
<1> QED
  BY <1>1, <1>2, <1>3, <1>4, <1>5, <1>6, <1>7, ZenonT(60) DEF Next, Step

(* The invariant holds throughout.                                         *)
LEMMA RequestInvAlways == Spec => []RequestInv
  BY InitRequests, NextRequests, EndInvAlways, PTL DEF Spec

(* total_bytes of a benchmark that has ended has every request once, and   *)
(* only a broken connection keeps a channel from its whole share.          *)
THEOREM RequestsCounted == Spec => []RequestsAccounted
<1>1. EndInv /\ RequestInv => RequestsAccounted
  <2> SUFFICES ASSUME EndInv, RequestInv, NEW k \in Cores, bench[k] = "ended"
               PROVE  /\ bytes[k] = Issued(k) * EnvelopeSize
                      /\ \A c \in OfCore(k) : left[c] = 0 \/ ~up[c]
    BY Zenon DEF RequestsAccounted, Issued
  <2>1. \A c \in OfCore(k) : c \in Channels /\ bench[c[1]] = "ended" /\ state[c] = "done"
    BY ZenonT(60) DEF EndInv, OfCore, RunInv, TypeOK
  <2>2. \A c \in OfCore(k) : left[c] = 0 \/ ~up[c]
    BY Zenon, <2>1 DEF RequestInv
  <2>3. bytes[k] = Issued(k) * EnvelopeSize
    BY Zenon DEF RequestInv
  <2> QED
    BY Zenon, <2>2, <2>3
<1> QED
  BY <1>1, EndInvAlways, RequestInvAlways, PTL

-----------------------------------------------------------------------------
(* The latencies: what the histograms of all channels have recorded of a   *)
(* value is what has been measured of it.                                  *)

Hists == [samples : Nat, sum : Nat, counts : [Latencies -> Nat]]

Counts(v) == [c \in Channels |-> hist[c].counts[v]]

Recorded(v) == SumFunctionOnSet(Counts(v), Channels)

HistInv ==
  /\ hist \in [Channels -> Hists]
  /\ latency \in [Latencies -> Nat]
  /\ \A v \in Latencies : IF v <= MaxValue THEN Recorded(v) = latency[v]
                          ELSE \A c \in Channels : hist[c].counts[v] = 0

(* Adding one histogram to another.                                        *)
LEMMA AddCounts ==
  ASSUME NEW h \in Hists, NEW o \in Hists
  PROVE  Add(h, o) \in Hists /\ \A v \in Latencies : Add(h, o).counts[v] = h.counts[v] + o.counts[v]
  BY DEF Add, Hists

(* g is the merge of the histograms of every subset of S.                  *)
MergesUp(g, hists, S) ==
  g = [s \in SUBSET S |-> IF s = {} THEN Empty ELSE Add(g[s \ {Pick(s)}], hists[Pick(s)])]

(* Merge, without the operator arguments of the fold.                      *)
LEMMA MergeIsChoice ==
  ASSUME NEW hists, NEW S
  PROVE  Merge(hists, S) = (CHOOSE g : MergesUp(g, hists, S))[S]
  BY Zenon DEF Merge, FoldFunctionOnSet, MapThenFoldSet, MergesUp, Pick

(* It is a fold like any other.                                            *)
LEMMA MergeExists ==
  ASSUME NEW S, IsFiniteSet(S), NEW hists, \A x \in S : hists[x] \in Hists
  PROVE  \E g : MergesUp(g, hists, S) /\ \A s \in SUBSET S : g[s] \in Hists
<1> DEFINE step == [x \in S |-> [h \in Hists |-> Add(h, hists[x])]]
<1>1. /\ step \in [S -> [Hists -> Hists]]
      /\ \A x \in S, h \in Hists : step[x][h] = Add(h, hists[x])
  BY ZenonT(60), AddCounts
<1>2. Empty \in Hists
  BY Zenon DEF Empty, Hists
<1> HIDE DEF step
<1>3. PICK g : FoldsUp(g, step, Empty, SUBSET S)
  BY ZenonT(60), FoldExists
<1>4. \A s \in SUBSET S : g[s] \in Hists
  BY ZenonT(60), <1>1, <1>2, <1>3, FoldTyped
<1> DEFINE now(s) == IF s = {} THEN Empty ELSE step[Pick(s)][g[s \ {Pick(s)}]]
           next(s) == IF s = {} THEN Empty ELSE Add(g[s \ {Pick(s)}], hists[Pick(s)])
<1>5. ASSUME NEW s \in SUBSET S PROVE now(s) = next(s)
  <2>1. CASE s # {}
    <3>1. Pick(s) \in S /\ g[s \ {Pick(s)}] \in Hists
      BY ZenonT(60), <1>4, <2>1, PickIn
    <3> QED
      BY ZenonT(60), <1>1, <2>1, <3>1
  <2> QED
    BY ZenonT(60), <2>1
<1>6. g = [s \in SUBSET S |-> now(s)]
  BY ZenonT(60), <1>3 DEF FoldsUp
<1> HIDE DEF now, next
<1>7. g = [s \in SUBSET S |-> next(s)]
  BY ZenonT(60), <1>5, <1>6
<1>8. MergesUp(g, hists, S)
  BY Zenon, <1>7 DEF next, MergesUp
<1> QED
  BY ZenonT(60), <1>4, <1>8

(* The counts of a merge are the sums of the counts.                       *)
LEMMA MergeCounts ==
  ASSUME NEW S, IsFiniteSet(S), NEW hists, \A x \in S : hists[x] \in Hists,
         NEW v \in Latencies, NEW f, \A x \in S : f[x] = hists[x].counts[v]
  PROVE  /\ Merge(hists, S) \in Hists
         /\ Merge(hists, S).counts[v] = SumFunctionOnSet(f, S)
<1> DEFINE g == CHOOSE h : MergesUp(h, hists, S)
<1>1. MergesUp(g, hists, S)
  BY Zenon, MergeExists
<1>2. Merge(hists, S) = g[S]
  BY Zenon, MergeIsChoice
<1> HIDE DEF g
<1>3. \A x \in S : f[x] \in Nat
  BY Zenon DEF Hists
<1> DEFINE Good(s) == g[s] \in Hists /\ g[s].counts[v] = SumFunctionOnSet(f, s)
           T == {s \in SUBSET S : Good(s)}
<1>4. ASSUME NEW s \in SUBSET S, \A x \in s : s \ {x} \in T PROVE s \in T
  <2>1. g[s] = IF s = {} THEN Empty ELSE Add(g[s \ {Pick(s)}], hists[Pick(s)])
    BY Zenon, <1>1 DEF MergesUp
  <2>2. CASE s = {}
    <3>1. Empty \in Hists /\ Empty.counts[v] = 0
      BY Zenon DEF Empty, Hists
    <3>2. Good(s)
      BY ZenonT(60), <2>1, <2>2, <3>1, SumEmpty
    <3> QED
      BY Zenon, <3>2
  <2>3. CASE s # {}
    <3> DEFINE x == Pick(s)
               u == s \ {x}
    <3>1. x \in s
      BY Zenon, <2>3, PickIn
    <3>2. Good(u)
      BY Zenon, <1>4, <3>1
    <3>3. IsFiniteSet(s) /\ \A y \in s : f[y] \in Nat
      BY Zenon, <1>3, FS_Subset
    <3>4. g[s] = Add(g[u], hists[x])
      BY Zenon, <2>1, <2>3
    <3> HIDE DEF x
    <3>5. SumFunctionOnSet(f, s) = f[x] + SumFunctionOnSet(f, u)
      BY Zenon, <3>1, <3>3, SumRemove
    <3>6. hists[x] \in Hists /\ f[x] = hists[x].counts[v] /\ f[x] \in Nat
      BY ZenonT(60), <1>3, <3>1
    <3>7. g[s] \in Hists /\ g[s].counts[v] = g[u].counts[v] + f[x]
      BY SMTT(60), <3>2, <3>4, <3>6, AddCounts
    <3>8. g[u].counts[v] \in Nat
      BY ZenonT(60), <3>2 DEF Hists
    <3> HIDE DEF u
    <3>9. Good(s)
      BY SMTT(60), <3>2, <3>5, <3>6, <3>7, <3>8
    <3> QED
      BY Zenon, <3>9
  <2> QED
    BY Zenon, <2>2, <2>3
<1> HIDE DEF T
<1>5. SUBSET S \subseteq T
  BY Zenon, <1>4, AllSubsets
<1>6. S \in T
  BY Zenon, <1>5
<1> QED
  BY Zenon, <1>2, <1>6 DEF T

(* Merging core by core counts what was recorded.                          *)
LEMMA MergedCores ==
  ASSUME TypeOK, HistInv, NEW v \in Latencies
  PROVE  LET m == Merge([k \in Cores |-> CopyHistogram(k)], Cores)
         IN m \in Hists /\ m.counts[v] = Recorded(v)
<1> DEFINE f == Counts(v)
           part == [k \in Cores |-> OfCore(k)]
           copies == [k \in Cores |-> CopyHistogram(k)]
           e == [k \in Cores |-> copies[k].counts[v]]
<1>1. /\ IsFiniteSet(Cores) /\ \A c \in Channels : c[1] \in Cores
      /\ \A k \in Cores : OfCore(k) \subseteq Channels /\ IsFiniteSet(OfCore(k))
  BY Zenon, Shape
<1>2. \A c \in Channels : hist[c] \in Hists /\ f[c] = hist[c].counts[v] /\ f[c] \in Nat
  BY Zenon DEF HistInv, Hists, Counts
<1> HIDE DEF f
<1>3. ASSUME NEW k \in Cores
      PROVE  copies[k] \in Hists /\ copies[k].counts[v] = SumFunctionOnSet(f, OfCore(k))
  <2>1. \A c \in OfCore(k) : hist[c] \in Hists /\ f[c] = hist[c].counts[v]
    BY Zenon, <1>1, <1>2
  <2>2. /\ Merge(hist, OfCore(k)) \in Hists
        /\ Merge(hist, OfCore(k)).counts[v] = SumFunctionOnSet(f, OfCore(k))
    BY SMTT(60), <1>1, <2>1, MergeCounts
  <2> QED
    BY <2>2, Zenon DEF CopyHistogram
<1>4. \A k \in Cores : e[k] = copies[k].counts[v]
  BY Zenon
<1>5. \A k \in Cores : /\ IsFiniteSet(part[k]) /\ e[k] = SumFunctionOnSet(f, part[k])
                      /\ \A c \in part[k] : f[c] \in Nat
  BY Zenon, <1>1, <1>2, <1>3
<1>6. \A k, j \in Cores : k # j => part[k] \cap part[j] = {}
  BY Zenon DEF OfCore
<1>7. Channels = UNION {part[k] : k \in Cores}
  BY <1>1 DEF OfCore
<1> HIDE DEF copies, e, part
<1>8. SumFunctionOnSet(f, Channels) = SumFunctionOnSet(e, Cores)
  <2>1. SumsOfParts(e, f, Channels, part, Cores)
    BY <1>1, <1>5, <1>6, <1>7, Zenon DEF SumsOfParts
  <2> QED
    BY <2>1, SumParts
<1>9. Merge(copies, Cores) \in Hists /\ Merge(copies, Cores).counts[v] = SumFunctionOnSet(e, Cores)
  BY <1>1, <1>3, <1>4, MergeCounts
<1> QED
  BY <1>8, <1>9, Zenon DEF f, copies, Recorded

(* Recording one more value.                                               *)
LEMMA RecordCounts ==
  ASSUME NEW h \in Hists, NEW v \in Latencies
  PROVE  /\ Record(h, v) \in Hists
         /\ \A w \in Latencies : Record(h, v).counts[w] =
              IF w = v /\ v <= MaxValue THEN h.counts[w] + 1 ELSE h.counts[w]
<1>1. v \in Nat
  BY Zenon, HistogramAssumption
<1> QED
  BY <1>1 DEF Record, Hists

(* A call that is measured is recorded, unless it took too long.           *)
LEMMA MeasureKeeps ==
  ASSUME TypeOK, HistInv, args' = args, NEW c \in Channels, NEW u \in Latencies, Measure(c, u)
  PROVE  HistInv'
<1>u. Channels' = Channels
  BY Zenon DEF Channels, Cores
<1>1. hist' = [hist EXCEPT ![c] = Record(hist[c], u)] /\ latency' = [latency EXCEPT ![u] = @ + 1]
  BY Zenon DEF Measure, HistInv
<1>2. hist \in [Channels -> Hists] /\ latency \in [Latencies -> Nat] /\ hist[c] \in Hists
  BY Zenon DEF HistInv
<1>3. hist' \in [Channels -> Hists] /\ latency' \in [Latencies -> Nat]
  BY <1>1, <1>2, RecordCounts
<1>4. /\ hist'[c] = Record(hist[c], u) /\ \A d \in Channels : d # c => hist'[d] = hist[d]
      /\ \A v \in Latencies : latency'[v] = IF v = u THEN latency[v] + 1 ELSE latency[v]
  BY Zenon, <1>1, <1>2
<1>5. ASSUME NEW v \in Latencies
      PROVE  IF v <= MaxValue THEN Recorded(v)' = latency'[v]
             ELSE \A d \in Channels : hist'[d].counts[v] = 0
  <2> DEFINE f == [d \in Channels |-> hist[d].counts[v]]
             e == [d \in Channels |-> hist'[d].counts[v]]
  <2>1. \A d \in Channels : f[d] = hist[d].counts[v] /\ e[d] = hist'[d].counts[v]
    BY Zenon
  <2>2. Recorded(v) = SumFunctionOnSet(f, Channels) /\ Recorded(v)' = SumFunctionOnSet(e, Channels)
    BY Zenon, <1>u DEF Recorded, Counts
  <2> HIDE DEF e, f
  <2>3. \A d \in Channels : f[d] \in Nat /\ e[d] \in Nat /\ (d # c => f[d] = e[d])
    BY SMTT(30), <1>2, <1>3, <1>4, <2>1 DEF Hists
  <2>4. e[c] = IF v = u /\ u <= MaxValue THEN f[c] + 1 ELSE f[c]
    BY SMTT(60), <1>2, <1>4, <2>1, RecordCounts
  <2>5. IsFiniteSet(Channels)
    BY Zenon, Shape
  <2>6. CASE v <= MaxValue
    <3>1. SumFunctionOnSet(e, Channels) = SumFunctionOnSet(f, Channels) - f[c] + e[c]
      BY <2>3, <2>5, SumChange
    <3>2. SumFunctionOnSet(f, Channels) \in Nat
      BY Zenon, <2>3, <2>5, SumNat
    <3>3. SumFunctionOnSet(f, Channels) = latency[v]
      BY Zenon, <2>2, <2>6 DEF HistInv
    <3>4. SumFunctionOnSet(e, Channels) = latency'[v]
      BY SMTT(60), <1>4, <2>3, <2>4, <2>6, <3>1, <3>2, <3>3
    <3> QED
      BY Zenon, <2>2, <2>6, <3>4
  <2>7. CASE ~(v <= MaxValue)
    <3>1. \A d \in Channels : f[d] = 0
      BY Zenon, <2>1, <2>7 DEF HistInv
    <3>2. \A d \in Channels : e[d] = 0
      BY Zenon, <2>3, <2>4, <2>7, <3>1
    <3> QED
      BY Zenon, <2>1, <2>7, <3>2
  <2> QED
    BY Zenon, <2>6, <2>7
<1> QED
  BY Zenon, <1>u, <1>3, <1>5 DEF HistInv

(* Nothing has been measured at first.                                     *)
LEMMA InitHist == Init => HistInv
<1> SUFFICES ASSUME Init PROVE HistInv
  BY Zenon
<1>1. hist = [c \in Channels |-> Empty] /\ latency = [v \in Latencies |-> 0]
  BY Zenon DEF Init
<1>2. Empty \in Hists /\ \A v \in Latencies : Empty.counts[v] = 0
  BY Zenon DEF Empty, Hists
<1>3. TypeOK
  BY Zenon, InitEnd DEF EndInv
<1>4. IsFiniteSet(Channels)
  BY Zenon, <1>3, Shape
<1>5. ASSUME NEW v \in Latencies PROVE Recorded(v) = 0
  <2> DEFINE f == [c \in Channels |-> hist[c].counts[v]]
  <2>1. \A c \in Channels : f[c] = 0
    BY Zenon, <1>1, <1>2
  <2>2. Recorded(v) = SumFunctionOnSet(f, Channels)
    BY Zenon DEF Recorded, Counts
  <2> HIDE DEF f
  <2> QED
    BY Zenon, <1>4, <2>1, <2>2, SumZero
<1> QED
  BY Zenon, <1>1, <1>2, <1>5 DEF HistInv

(* Every step keeps the invariant, and none measures a call once the       *)
(* histograms are merged.                                                  *)
LEMMA NextHist == EndInv /\ HistInv /\ HistogramComplete /\ [Next]_vars => HistInv' /\ HistogramComplete'
<1> SUFFICES ASSUME EndInv, HistInv, HistogramComplete, [Next]_vars
             PROVE  HistInv' /\ HistogramComplete'
  BY Zenon
<1>t. TypeOK /\ RunInv
  BY Zenon DEF EndInv
<1>a. args' = args
  BY Zenon DEF Next, Step, ConnectOk, ConnectFails, Issue, Stopped, Answer, Fail, StopChannel, Drop,
     Begin, End, Connected, Collect, main, vars
<1>u. Channels' = Channels /\ Cores' = Cores
  BY Zenon, <1>a DEF Channels, Cores
<1>q. ASSUME UNCHANGED <<hist, latency>> PROVE HistInv'
  <2>1. \A v : Recorded(v)' = Recorded(v)
    BY Zenon, <1>q, <1>u DEF Recorded, Counts
  <2> QED
    BY Zenon, <1>q, <1>u, <2>1 DEF HistInv
<1>1. ASSUME NEW c \in Channels, NEW v \in Latencies, Measure(c, v), state[c] = "call", UNCHANGED main
      PROVE  HistInv' /\ HistogramComplete'
  <2>1. HistInv'
    BY Zenon, <1>1, <1>a, <1>t, MeasureKeeps
  <2>2. bench[c[1]] = "begun" /\ c[1] \in Cores
    BY Zenon, <1>1, <1>t, Shape DEF RunInv
  <2>3. phase' # "done"
    BY Zenon, <1>1, <1>t, <2>2 DEF RunInv, main
  <2> QED
    BY Zenon, <2>1, <2>3 DEF HistogramComplete
<1>2. ASSUME UNCHANGED <<hist, latency, main>> PROVE HistInv' /\ HistogramComplete'
  BY Zenon, <1>2, <1>q DEF HistogramComplete, main
<1>3. CASE Connected
  <2>1. UNCHANGED <<hist, latency>> /\ phase' # "done"
    BY Zenon, <1>3 DEF Connected, channel
  <2> QED
    BY Zenon, <1>q, <2>1 DEF HistogramComplete
<1>4. CASE Collect
  <2>1. UNCHANGED <<hist, latency>> /\ merged' = Merge([k \in Cores |-> CopyHistogram(k)], Cores)
    BY Zenon, <1>4 DEF Collect, channel
  <2>2. ASSUME NEW v \in Latencies PROVE merged'.counts[v] = Recorded(v) /\ merged' \in Hists
    BY Zenon, <1>t, <2>1, MergedCores
  <2>3. ASSUME NEW v \in Latencies PROVE Recorded(v) = IF v <= MaxValue THEN latency[v] ELSE 0
    <3>1. CASE v <= MaxValue
      BY Zenon, <3>1 DEF HistInv
    <3>2. CASE ~(v <= MaxValue)
      <4> DEFINE f == Counts(v)
      <4>1. \A c \in Channels : f[c] = 0
        BY Zenon, <3>2 DEF HistInv, Counts
      <4> HIDE DEF f
      <4>2. SumFunctionOnSet(f, Channels) = 0
        BY Zenon, <1>t, <4>1, Shape, SumZero
      <4> QED
        BY Zenon, <3>2, <4>2 DEF f, Recorded
    <3> QED
      BY Zenon, <3>1, <3>2
  <2>4. merged'.counts \in [Latencies -> Nat]
    <3>1. merged' \in Hists
      BY Zenon, <2>2, HistogramAssumption
    <3> QED
      BY Zenon, <3>1 DEF Hists
  <2>5. merged'.counts = [v \in Latencies |-> IF v <= MaxValue THEN latency[v] ELSE 0]
    BY Zenon, <2>2, <2>3, <2>4
  <2> QED
    BY Zenon, <1>q, <2>1, <2>5 DEF HistogramComplete
<1>5. ASSUME NEW c \in Channels, Step(c) \/ StopChannel(c) \/ Drop(c)
      PROVE  \/ UNCHANGED <<hist, latency, main>>
             \/ \E v \in Latencies : Measure(c, v) /\ state[c] = "call" /\ UNCHANGED main
  <2>1. CASE Step(c)
    BY Zenon, <2>1 DEF Step, ConnectOk, ConnectFails, Issue, Stopped, Answer, Fail
  <2>2. CASE StopChannel(c)
    BY Zenon, <2>2 DEF StopChannel
  <2>3. CASE Drop(c)
    BY Zenon, <2>3 DEF Drop
  <2> QED
    BY Zenon, <1>5, <2>1, <2>2, <2>3
<1>6. ASSUME NEW k \in Cores, Begin(k) \/ End(k) PROVE UNCHANGED <<hist, latency, main>>
  BY Zenon, <1>6 DEF Begin, End, channel
<1>7. UNCHANGED vars => UNCHANGED <<hist, latency, main>>
  BY Zenon DEF vars, channel
<1> QED
  BY <1>1, <1>2, <1>3, <1>4, <1>5, <1>6, <1>7, Zenon DEF Next

(* The histogram that main writes has every call of every channel of every *)
(* core once, whether it was answered or failed, whatever the number of    *)
(* cores and channels: nothing is lost or doubled in the merge.            *)
THEOREM LatenciesMerged == Spec => []HistogramComplete
<1>1. Init => HistogramComplete
  BY Zenon DEF Init, HistogramComplete
<1> QED
  BY <1>1, InitHist, NextHist, EndInvAlways, PTL DEF Spec

-----------------------------------------------------------------------------
(* The buckets of the metrics.                                             *)

Doubles(g, n) == g \in [0..n -> Nat] /\ g[0] = 1 /\ \A m \in 0..n : m # 0 => g[m] = 2 * g[m - 1]

(* The doublings of 1, up to any number of them.                           *)
LEMMA DoublesExists == \A n \in Nat : \E g : Doubles(g, n)
<1> DEFINE T == {n \in Nat : \E g : Doubles(g, n)}
<1>1. 0 \in T
  <2> DEFINE g == [m \in 0..0 |-> 1]
  <2>1. Doubles(g, 0)
    BY DEF Doubles
  <2> QED
    BY Zenon, <2>1
<1>2. ASSUME NEW n \in Nat, n \in T PROVE n + 1 \in T
  <2>1. PICK g : Doubles(g, n)
    BY Zenon, <1>2
  <2> DEFINE h == [m \in 0..(n + 1) |-> IF m = n + 1 THEN 2 * g[n] ELSE g[m]]
  <2>2. h \in [0..(n + 1) -> Nat]
    BY <2>1 DEF Doubles
  <2>3. h[0] = 1 /\ \A m \in 0..(n + 1) : m # 0 => h[m] = 2 * h[m - 1]
    BY SMTT(60), <2>1 DEF Doubles
  <2>4. Doubles(h, n + 1)
    BY Zenon, <2>2, <2>3 DEF Doubles
  <2> HIDE DEF h
  <2>5. \E k : Doubles(k, n + 1)
    BY Zenon, <2>4
  <2> QED
    BY <2>5
<1> HIDE DEF T
<1>3. Nat \subseteq T
  BY Zenon, <1>1, <1>2, AllNaturals
<1> QED
  BY Zenon, <1>3 DEF T

(* They do not depend on how many there are.                               *)
LEMMA DoublesAgree ==
  ASSUME NEW n \in Nat, NEW g, Doubles(g, n), NEW m \in Nat, NEW h, Doubles(h, m)
  PROVE  \A k \in Nat : k <= n /\ k <= m => g[k] = h[k]
<1> DEFINE T == {k \in Nat : k <= n /\ k <= m => g[k] = h[k]}
<1>1. 0 \in T
  BY Zenon DEF Doubles
<1>2. ASSUME NEW k \in Nat, k \in T PROVE k + 1 \in T
  <2> SUFFICES ASSUME k + 1 <= n, k + 1 <= m PROVE g[k + 1] = h[k + 1]
    OBVIOUS
  <2>1. g[k] = h[k]
    BY <1>2
  <2>2. g[k + 1] = 2 * g[k] /\ h[k + 1] = 2 * h[k]
    BY SMTT(60) DEF Doubles
  <2> QED
    BY Zenon, <2>1, <2>2
<1> HIDE DEF T
<1>3. Nat \subseteq T
  BY Zenon, <1>1, <1>2, AllNaturals
<1> QED
  BY Zenon, <1>3 DEF T

(* What Doubled computes.                                                  *)
LEMMA DoubledStep ==
  /\ Doubled \in [Nat -> Nat] /\ Doubled[0] = 1
  /\ \A n \in Nat : Doubled[n + 1] = 2 * Doubled[n]
<1> DEFINE upto(n) == CHOOSE g : Doubles(g, n)
           f == [n \in Nat |-> upto(n)[n]]
           Is(g) == g = [n \in Nat |-> IF n = 0 THEN 1 ELSE 2 * g[n - 1]]
<1>1. \A n \in Nat : Doubles(upto(n), n)
  BY Zenon, DoublesExists
<1> HIDE DEF upto
<1>2. \A n \in Nat : f[n] = upto(n)[n] /\ f[n] \in Nat
  BY <1>1 DEF Doubles
<1>3. f[0] = 1
  BY Zenon, <1>1, <1>2 DEF Doubles
<1>4. ASSUME NEW n \in Nat PROVE f[n + 1] = 2 * f[n]
  <2>1. upto(n + 1)[n] = upto(n)[n]
    BY <1>1, DoublesAgree
  <2>2. upto(n + 1)[n + 1] = 2 * upto(n + 1)[n]
    BY <1>1 DEF Doubles
  <2> QED
    BY <1>2, <2>1, <2>2
<1>5. Is(f)
  <2>1. \A n \in Nat : f[n] = IF n = 0 THEN 1 ELSE 2 * f[n - 1]
    <3> SUFFICES ASSUME NEW n \in Nat, n # 0 PROVE f[n] = 2 * f[n - 1]
      BY Zenon, <1>3
    <3>1. n - 1 \in Nat /\ (n - 1) + 1 = n
      OBVIOUS
    <3> HIDE DEF f
    <3> QED
      BY Zenon, <1>4, <3>1
  <2>2. f = [n \in Nat |-> f[n]]
    BY Zenon
  <2> HIDE DEF f
  <2> QED
    BY Zenon, <2>1, <2>2
<1> HIDE DEF f
<1>6. Is(Doubled)
  <2>1. Doubled = CHOOSE g : Is(g)
    BY Zenon DEF Doubled
  <2> HIDE DEF Is
  <2> QED
    BY Zenon, <1>5, <2>1
<1>7. \A n \in Nat : Doubled[n] = IF n = 0 THEN 1 ELSE 2 * Doubled[n - 1]
  BY Zenon, <1>6
<1> DEFINE T == {n \in Nat : Doubled[n] \in Nat}
<1>8. 0 \in T /\ \A n \in Nat : n \in T => n + 1 \in T
  BY <1>7
<1>9. \A n \in Nat : Doubled[n] \in Nat
  <2> HIDE DEF T
  <2>1. Nat \subseteq T
    BY Zenon, <1>8, AllNaturals
  <2> QED
    BY Zenon, <2>1 DEF T
<1>10. Doubled \in [Nat -> Nat]
  BY Zenon, <1>6, <1>9
<1> QED
  BY <1>7, <1>10

(* It turns sums into products.                                            *)
LEMMA DoubledAdd ==
  ASSUME NEW a \in Nat, NEW b \in Nat
  PROVE  Doubled[a + b] = Doubled[a] * Doubled[b]
<1> DEFINE T == {n \in Nat : Doubled[a + n] = Doubled[a] * Doubled[n]}
<1>0. \A n \in Nat : Doubled[n] \in Nat /\ Doubled[n + 1] = 2 * Doubled[n]
  BY Zenon, DoubledStep
<1>1. 0 \in T
  BY DoubledStep
<1>2. ASSUME NEW n \in Nat, n \in T PROVE n + 1 \in T
  <2>1. Doubled[a + n] = Doubled[a] * Doubled[n]
    BY Zenon, <1>2
  <2>2. a + n \in Nat /\ (a + n) + 1 = a + (n + 1)
    OBVIOUS
  <2>3. Doubled[(a + n) + 1] = 2 * Doubled[a + n] /\ Doubled[n + 1] = 2 * Doubled[n]
    BY Zenon, <1>0, <2>2
  <2>4. Doubled[a] \in Nat /\ Doubled[n] \in Nat
    BY Zenon, <1>0
  <2>5. ASSUME NEW x \in Nat, NEW y \in Nat PROVE 2 * (x * y) = x * (2 * y)
    OBVIOUS
  <2>6. 2 * (Doubled[a] * Doubled[n]) = Doubled[a] * (2 * Doubled[n])
    BY Zenon, <2>4, <2>5
  <2>7. Doubled[a + (n + 1)] = Doubled[a] * Doubled[n + 1]
    BY <2>1, <2>2, <2>3, <2>6, Zenon
  <2> QED
    BY <2>7
<1> HIDE DEF T
<1>3. Nat \subseteq T
  BY Zenon, <1>1, <1>2, AllNaturals
<1> QED
  BY Zenon, <1>3 DEF T

(* It grows beyond every number.                                           *)
LEMMA DoubledGrows == \A n \in Nat : Doubled[n] > n
<1> DEFINE T == {n \in Nat : Doubled[n] > n}
<1>0. \A n \in Nat : Doubled[n] \in Nat /\ Doubled[n + 1] = 2 * Doubled[n]
  BY Zenon, DoubledStep
<1>1. 0 \in T
  BY DoubledStep
<1>2. ASSUME NEW n \in Nat, n \in T PROVE n + 1 \in T
  BY SMTT(60), <1>0, <1>2
<1> HIDE DEF T
<1>3. Nat \subseteq T
  BY Zenon, <1>1, <1>2, AllNaturals
<1> QED
  BY Zenon, <1>3 DEF T

(* The bounds of the buckets: each is a number, later ones are larger, and *)
(* any value is below one of them.                                         *)
LEMMA Bounds ==
  /\ \A i \in Nat \ {0} : Bound(i) \in Nat
  /\ \A i, j \in Nat \ {0} : i <= j => Bound(i) <= Bound(j)
  /\ \A n \in Nat : Bound(n + 1) >= n
<1>f. FirstValue \in Nat \ {0}
  BY Zenon, HistogramAssumption
<1>d. \A n \in Nat : Doubled[n] \in Nat /\ Doubled[n] >= 1
  BY DoubledStep, DoubledGrows
<1>1. ASSUME NEW i \in Nat \ {0} PROVE Bound(i) \in Nat
  <2>1. Doubled[i - 1] \in Nat
    BY <1>d
  <2> QED
    BY <1>f, <2>1 DEF Bound
<1>2. ASSUME NEW i \in Nat \ {0}, NEW j \in Nat \ {0}, i <= j PROVE Bound(i) <= Bound(j)
  <2> DEFINE x == Doubled[i - 1]
             y == Doubled[j - i]
  <2>1. i - 1 \in Nat /\ j - i \in Nat /\ (i - 1) + (j - i) = j - 1
    BY <1>2
  <2>2. Doubled[j - 1] = x * y
    BY Zenon, <2>1, DoubledAdd
  <2>3. x \in Nat /\ y \in Nat /\ y >= 1
    BY Zenon, <1>d, <2>1
  <2> HIDE DEF x, y
  <2>4. x <= x * y /\ x * y \in Nat
    BY <2>3
  <2>5. \A a, b \in Nat : a <= b => FirstValue * a <= FirstValue * b
    BY <1>f
  <2>6. FirstValue * x <= FirstValue * (x * y)
    BY Zenon, <2>3, <2>4, <2>5
  <2> QED
    BY Zenon, <2>2, <2>6 DEF Bound, x
<1>3. ASSUME NEW n \in Nat PROVE Bound(n + 1) >= n
  <2> DEFINE x == Doubled[n]
  <2>1. x \in Nat /\ x > n
    BY Zenon, <1>d, DoubledGrows
  <2>2. Bound(n + 1) = FirstValue * x
    BY DEF Bound
  <2> HIDE DEF x
  <2>3. FirstValue * x >= x
    BY <1>f, <2>1
  <2> QED
    BY <1>f, <2>1, <2>2, <2>3
<1> QED
  BY Zenon, <1>1, <1>2, <1>3

(* A set of numbers up to a bound has a greatest one.                      *)
LEMMA GreatestExists ==
  ASSUME NEW S, S \subseteq Nat, S # {}, NEW m \in Nat, \A x \in S : x <= m
  PROVE  Max(S) \in S /\ \A x \in S : x <= Max(S)
<1> DEFINE R == {m - x : x \in S}
<1>1. R \subseteq Nat /\ R # {}
  <2>1. ASSUME NEW x \in S PROVE m - x \in Nat
    OBVIOUS
  <2>2. PICK x : x \in S
    BY Zenon
  <2>3. m - x \in R
    BY Zenon, <2>2
  <2> QED
    BY Zenon, <2>1, <2>3
<1>2. PICK r \in R : \A s \in R : r <= s
  <2> HIDE DEF R
  <2> QED
    BY Zenon, <1>1, LeastExists
<1>3. PICK x \in S : r = m - x
  BY Zenon
<1>4. ASSUME NEW y \in S PROVE x >= y
  <2>1. m - y \in R
    BY Zenon
  <2>2. m - x <= m - y
    BY Zenon, <1>2, <1>3, <2>1
  <2> QED
    BY <1>3, <2>2
<1>5. Max(S) \in S /\ \A y \in S : Max(S) >= y
  BY Zenon, <1>3, <1>4 DEF Max
<1> QED
  BY Zenon, <1>5

(* The iteration ends with a bucket that has room for every value.         *)
LEMMA Iterated ==
  ASSUME NEW h \in Hists, \A v \in Latencies : v > MaxValue => h.counts[v] = 0
  PROVE  /\ HdrBuckets(h) \in Nat
         /\ \A v \in Latencies : h.counts[v] > 0 => HdrBuckets(h) > 0 /\ v <= Bound(HdrBuckets(h))
<1> DEFINE R == {v \in Latencies : h.counts[v] > 0}
           top == Max(R)
           Last(i) == Bound(i) >= top /\ (i > 1 => Bound(i - 1) < top)
           b == HdrBuckets(h)
<1>1. R \subseteq Nat /\ \A v \in R : v <= MaxValue
  <2> SUFFICES ASSUME NEW v \in R PROVE v \in Nat /\ v <= MaxValue
    BY Zenon
  <2>1. v \in Nat /\ MaxValue \in Nat /\ v \in Latencies
    BY Zenon, HistogramAssumption
  <2>2. h.counts[v] # 0
    OBVIOUS
  <2> QED
    BY <2>1, <2>2
<1>2. CASE R = {}
  <2>1. b = 0
    BY Zenon, <1>2 DEF HdrBuckets
  <2> QED
    BY <1>2, <2>1
<1>3. CASE R # {}
  <2>1. top \in R /\ \A v \in R : v <= top
    <3>1. MaxValue \in Nat
      BY Zenon, HistogramAssumption
    <3> HIDE DEF R
    <3> QED
      BY Zenon, <1>1, <1>3, <3>1, GreatestExists
  <2>2. b = CHOOSE i \in 1..(top + 1) : Last(i)
    BY Zenon, <1>3 DEF HdrBuckets
  <2>3. top \in Nat
    BY Zenon, <1>1, <2>1
  <2> HIDE DEF R, top
  <2> DEFINE Enough == {i \in Nat \ {0} : Bound(i) >= top}
  <2>4. top + 1 \in Enough
    BY <2>3, Bounds
  <2>5. PICK i \in Enough : \A j \in Enough : i <= j
    <3>1. Enough \subseteq Nat /\ Enough # {}
      BY Zenon, <2>4
    <3> HIDE DEF Enough
    <3> QED
      BY Zenon, <3>1, LeastExists
  <2>6. i \in 1..(top + 1) /\ Last(i)
    <3>1. i \in 1..(top + 1)
      BY <2>3, <2>4, <2>5
    <3>2. ASSUME i > 1 PROVE Bound(i - 1) < top
      <4>1. i - 1 \in Nat \ {0} /\ i - 1 \notin Enough
        BY <2>5, <3>2
      <4>2. Bound(i - 1) \in Nat
        BY Zenon, <4>1, Bounds
      <4> QED
        BY <2>3, <4>1, <4>2
    <3> QED
      BY Zenon, <2>5, <3>1, <3>2
  <2>7. b \in 1..(top + 1) /\ Bound(b) >= top
    <3>1. b \in 1..(top + 1) /\ Last(b)
      <4> HIDE DEF Last, b
      <4> QED
        BY Zenon, <2>2, <2>6
    <3> QED
      BY Zenon, <3>1
  <2>8. Bound(b) \in Nat
    BY SMTT(30), <2>3, <2>7, Bounds
  <2>9. \A v \in R : v <= Bound(b)
    BY <1>1, <2>1, <2>3, <2>7, <2>8
  <2> QED
    BY <2>3, <2>7, <2>9 DEF R
<1> QED
  BY Zenon, <1>2, <1>3

(* Where no value was recorded above a bound, the count of it is the       *)
(* count of all.                                                           *)
LEMMA CountOfAll ==
  ASSUME NEW h \in Hists, NEW a \in Nat, NEW b \in Nat,
         \A v \in Latencies : h.counts[v] > 0 => v <= a /\ v <= b
  PROVE  UpTo(h, a) = UpTo(h, b)
<1> DEFINE Below(n) == {v \in Latencies : v <= n}
           R == {v \in Latencies : h.counts[v] > 0}
           f == h.counts
<1>1. ASSUME NEW n \in Nat, \A v \in Latencies : h.counts[v] > 0 => v <= n
      PROVE  UpTo(h, n) = SumFunctionOnSet(f, R)
  <2> DEFINE S == Below(n)
  <2>1. IsFiniteSet(S)
    <3>1. S \in SUBSET Nat /\ \A v \in S : v <= n
      BY Zenon, HistogramAssumption
    <3> HIDE DEF S
    <3> QED
      BY Zenon, <3>1, FS_BoundedSetOfNaturals
  <2>2. R \in SUBSET S /\ \A v \in S : f[v] \in Nat
    BY Zenon, <1>1 DEF Hists
  <2>3. \A v \in S \ R : f[v] = 0
    BY <2>2
  <2>4. UpTo(h, n) = SumFunctionOnSet(f, S)
    BY Zenon DEF UpTo
  <2> HIDE DEF S, R, f
  <2> QED
    BY Zenon, <2>1, <2>2, <2>3, <2>4, SumSupport
<1> QED
  BY Zenon, <1>1

(* The smaller of two numbers.                                             *)
LEMMA MinOfTwo ==
  ASSUME NEW a \in Int, NEW b \in Int
  PROVE  Min({a, b}) = IF a <= b THEN a ELSE b
<1> DEFINE m == Min({a, b})
<1>1. \E x \in {a, b} : \A y \in {a, b} : x <= y
  OBVIOUS
<1>2. m \in {a, b} /\ \A y \in {a, b} : m <= y
  BY Zenon, <1>1 DEF Min
<1> HIDE DEF m
<1>3. m = IF a <= b THEN a ELSE b
  BY <1>2
<1> QED
  BY Zenon, <1>3 DEF m

(* Padding goes on where the iteration has stopped.                        *)
LEMMA Padding ==
  ASSUME NEW b \in Nat, NEW i \in Nat, i > b
  PROVE  PaddingStart(b) * Doubled[i - b - 1] = Bound(i)
<1>d. FirstValue \in Nat /\ \A n \in Nat : Doubled[n] \in Nat
  BY Zenon, HistogramAssumption, DoubledStep
<1>1. CASE b = 0
  BY <1>1 DEF PaddingStart, Bound
<1>2. CASE b # 0
  <2> DEFINE x == Doubled[b - 1]
             y == Doubled[i - b - 1]
  <2>1. PaddingStart(b) = FirstValue * x * 2
    BY Zenon, <1>2 DEF PaddingStart, Bound
  <2>2. b - 1 \in Nat /\ i - b - 1 \in Nat /\ (b - 1) + 1 = b /\ b + (i - b - 1) = i - 1
    BY <1>2
  <2>3. Doubled[b] = 2 * x
    BY Zenon, <2>2, DoubledStep
  <2>4. Doubled[i - 1] = Doubled[b] * y
    BY ZenonT(60), <2>2, DoubledAdd
  <2>5. x \in Nat /\ y \in Nat
    BY Zenon, <1>d, <2>2
  <2> HIDE DEF x, y
  <2>6. (FirstValue * x * 2) * y = FirstValue * ((2 * x) * y)
    BY <1>d, <2>5
  <2> QED
    BY Zenon, <2>1, <2>3, <2>4, <2>6 DEF Bound, y
<1> QED
  BY Zenon, <1>1, <1>2

(* seastar_histogram_logform of any histogram that recorded no value it    *)
(* cannot hold.                                                            *)
LEMMA LogformBuckets ==
  ASSUME NEW h \in Hists, \A v \in Latencies : v > MaxValue => h.counts[v] = 0,
         NEW i \in 1..NumBuckets
  PROVE  Logform(h)[i] = [count |-> UpTo(h, Bound(i)), upper_bound |-> Bound(i)]
<1> DEFINE b == HdrBuckets(h)
           filled == Min({b, NumBuckets})
<1>1. b \in Nat /\ \A v \in Latencies : h.counts[v] > 0 => b > 0 /\ v <= Bound(b)
  BY Zenon, Iterated
<1>2. NumBuckets \in Nat /\ MaxValue \in Nat /\ i \in Nat \ {0} /\ i <= NumBuckets /\ Latencies \subseteq Nat
  BY SMTT(30), HistogramAssumption
<1>3. Logform(h)[i] = IF i <= filled THEN [count |-> UpTo(h, Bound(i)), upper_bound |-> Bound(i)]
                      ELSE [count |-> UpTo(h, MaxValue),
                            upper_bound |-> PaddingStart(filled) * Doubled[i - filled - 1]]
  BY Zenon DEF Logform
<1> HIDE DEF b
<1>4. filled = IF b <= NumBuckets THEN b ELSE NumBuckets
  BY <1>1, <1>2, MinOfTwo
<1> HIDE DEF filled
<1>5. CASE i <= filled
  BY Zenon, <1>3, <1>5
<1>6. CASE ~(i <= filled)
  <2>1. filled = b /\ i > b
    BY <1>1, <1>2, <1>4, <1>6
  <2>2. PaddingStart(filled) * Doubled[i - filled - 1] = Bound(i)
    BY Zenon, <1>1, <1>2, <2>1, Padding
  <2>3. Bound(i) \in Nat
    BY Zenon, <1>2, Bounds
  <2>4. ASSUME NEW v \in Latencies, h.counts[v] > 0 PROVE v <= MaxValue /\ v <= Bound(i)
    <3>1. v <= MaxValue
      BY <1>2, <2>4
    <3>2. b > 0 /\ v <= Bound(b)
      BY Zenon, <1>1, <2>4
    <3>3. Bound(b) \in Nat /\ Bound(b) <= Bound(i)
      BY SMTT(60), <1>1, <1>2, <2>1, <3>2, Bounds
    <3>4. v \in Nat
      BY Zenon, <1>2
    <3> QED
      BY SMTT(60), <2>3, <3>1, <3>2, <3>3, <3>4
  <2>5. UpTo(h, MaxValue) = UpTo(h, Bound(i))
    BY Zenon, <1>2, <2>3, <2>4, CountOfAll
  <2> QED
    BY Zenon, <1>3, <1>6, <2>2, <2>5
<1> QED
  BY Zenon, <1>5, <1>6

(* The histogram invariant holds throughout.                               *)
LEMMA HistInvAlways == Spec => []HistInv
<1>1. Init => HistogramComplete
  BY Zenon DEF Init, HistogramComplete
<1> QED
  BY <1>1, InitHist, NextHist, EndInvAlways, PTL DEF Spec

(* The buckets for the metrics are doubling and cumulative at every        *)
(* moment, for any number of buckets and any first bound, however the      *)
(* iteration and the padding share them out.                               *)
THEOREM BucketsOfMetrics == Spec => []BucketsCumulative
<1>1. HistInv => BucketsCumulative
  <2> SUFFICES ASSUME HistInv, NEW c \in Channels, NEW i \in 1..NumBuckets
               PROVE  Logform(hist[c])[i] =
                        [count |-> UpTo(hist[c], Bound(i)), upper_bound |-> Bound(i)]
    BY Zenon DEF BucketsCumulative
  <2>1. hist[c] \in Hists
    BY Zenon DEF HistInv
  <2>2. \A v \in Latencies : v > MaxValue => hist[c].counts[v] = 0
    BY HistogramAssumption DEF HistInv
  <2> QED
    BY Zenon, <2>1, <2>2, LogformBuckets
<1> QED
  BY <1>1, HistInvAlways, PTL

=============================================================================

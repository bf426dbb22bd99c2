---------------------------- MODULE LoadGenerator ----------------------------
(***************************************************************************)
(* smf::load_generator and load_channel (include/smf/load_generator.h,     *)
(* load_channel.h) as integration_tests/rpc/main.cc drives them: on every  *)
(* core one generator with a number of channels, each of which issues its  *)
(* share of the requests one after the other over its own rpc_client.      *)
(* Then the histograms of all cores are merged.                            *)
(*                                                                         *)
(* Of the rpc_client the model keeps what a channel notices: a call is     *)
(* answered, or fails because the connection drops, times out or is        *)
(* stopped; a write larger than the client's memory never gets its units   *)
(* and stays in the client's gate (rpc_client::dispatch_write).            *)
(***************************************************************************)
EXTENDS Histogram

CONSTANTS
  Args,          \* the arguments the program may be started with
  MinMemory,     \* kMinMemory of load_generator_args
  EnvelopeSize   \* the size of the envelopes the callback generates

ASSUME ArgsAssumption ==
  /\ EnvelopeSize \in Nat
  /\ \A a \in Args : a.cores \in Nat /\ a.concurrency \in Nat \ {0} /\ a.num_of_req \in Nat

VARIABLES
  args,      \* load_generator_args, the same on every core, and the cores
  phase,     \* how far main is
  state,     \* state[c]: what the channel c is doing
  left,      \* left[c]: the requests that its do_for_each still has to issue
  up,        \* up[c]: its connection is valid
  gate,      \* gate[c]: its client's dispatch gate
  stuck,     \* stuck[c]: a write waits for more memory than there is
  hist,      \* hist[c]: the histogram of its client
  limit,     \* limit[k]: the semaphore of the benchmark on core k
  bench,     \* bench[k]: the benchmark on core k has begun, has ended
  bytes,     \* bytes[k]: total_bytes of the duration on core k
  merged,    \* the histogram main writes
  latency    \* history: latency[v] calls took v until they were resolved

main == <<args, phase, merged>>
channel == <<state, left, up, gate, stuck, hist>>
core == <<limit, bench, bytes>>
vars == <<main, channel, core, latency>>

Cores == 1..args.cores
Channels == Cores \X (1..args.concurrency)
OfCore(k) == {c \in Channels : c[1] = k}

(* reqs_per_channel: the division is one of integers, before ceil; where   *)
(* there are fewer requests than channels each channel issues one.         *)
ReqsPerChannel == Max({1, args.num_of_req \div args.concurrency})

(* Mutant: a request of just the memory of the client waits for ever.      *)
FitsStrictly == EnvelopeSize < args.memory \div args.concurrency

(* The memory of a core is shared out among its channels.                  *)
Fits == EnvelopeSize <= args.memory \div args.concurrency

(* The check of load_generator_args.                                       *)
Accepted == ~(args.memory < MinMemory /\ args.concurrency > 1)

Init ==
  /\ args \in Args
  /\ phase = IF Accepted THEN "connect" ELSE "failed"
  /\ state = [c \in Channels |-> "new"]
  /\ left = [c \in Channels |-> 0]
  /\ up = [c \in Channels |-> FALSE]
  /\ gate = [c \in Channels |-> "open"]
  /\ stuck = [c \in Channels |-> FALSE]
  /\ hist = [c \in Channels |-> Empty]
  /\ limit = [k \in Cores |-> args.concurrency]
  /\ bench = [k \in Cores |-> "none"]
  /\ bytes = [k \in Cores |-> 0]
  /\ merged = Empty
  /\ latency = [v \in Latencies |-> 0]

-----------------------------------------------------------------------------
(* main connects every channel of every core and goes on if all succeeded. *)

ConnectOk(c) ==
  /\ phase = "connect" /\ state[c] = "new" /\ gate[c] = "open"
  /\ state' = [state EXCEPT ![c] = "ready"]
  /\ up' = [up EXCEPT ![c] = TRUE]
  /\ UNCHANGED <<main, left, gate, stuck, hist, core, latency>>

ConnectFails(c) ==
  /\ phase = "connect" /\ state[c] = "new"
  /\ state' = [state EXCEPT ![c] = "done"]
  /\ UNCHANGED <<main, left, up, gate, stuck, hist, core, latency>>

Connected ==
  /\ phase = "connect"
  /\ \A c \in Channels : state[c] # "new"
  /\ phase' = IF \A c \in Channels : state[c] = "ready" THEN "benchmark" ELSE "failed"
  /\ UNCHANGED <<args, merged, channel, core, latency>>

-----------------------------------------------------------------------------
(* load_generator::benchmark.                                              *)

(* begin(); each channel takes a unit at once and its loop is launched.    *)
Begin(k) ==
  /\ phase = "benchmark" /\ bench[k] = "none"
  /\ bench' = [bench EXCEPT ![k] = "begun"]
  /\ limit' = [limit EXCEPT ![k] = 0]
  /\ state' = [c \in Channels |-> IF c[1] = k THEN "next" ELSE state[c]]
  /\ left' = [c \in Channels |-> IF c[1] = k THEN ReqsPerChannel ELSE left[c]]
  /\ UNCHANGED <<main, up, gate, stuck, hist, bytes, latency>>

(* Mutant: the unit is returned by then, not by finally.                   *)
FinishIfOk(c, ok) ==
  /\ state' = [state EXCEPT ![c] = "done"]
  /\ limit' = IF ok THEN [limit EXCEPT ![c[1]] = @ + 1] ELSE limit

(* do_for_each is over, because it is through or because a request failed; *)
(* finally returns the unit.                                               *)
Finish(c, ok) ==
  /\ state' = [state EXCEPT ![c] = "done"]
  /\ limit' = [limit EXCEPT ![c[1]] = @ + 1]

(* A request was answered: the next one, if any.                           *)
Resume(c) ==
  IF left[c] = 0 THEN Finish(c, TRUE)
  ELSE state' = [state EXCEPT ![c] = "next"] /\ UNCHANGED limit

(* Mutant: total_bytes is added up when the call has been accepted.        *)
IssueCountsAccepted(c) ==
  /\ state[c] = "next"
  /\ left' = [left EXCEPT ![c] = @ - 1]
  /\ IF gate[c] # "open" \/ ~up[c]
     THEN Finish(c, FALSE) /\ UNCHANGED <<stuck, bytes>>
     ELSE /\ state' = [state EXCEPT ![c] = "call"]
          /\ stuck' = [stuck EXCEPT ![c] = ~Fits]
          /\ bytes' = [bytes EXCEPT ![c[1]] = @ + EnvelopeSize]
          /\ UNCHANGED limit
  /\ UNCHANGED <<main, up, gate, hist, bench, latency>>

(* One turn of the loop in load_channel::invoke.  The call is refused when *)
(* the gate is closed or the connection is not valid.                      *)
Issue(c) ==
  /\ state[c] = "next"
  /\ left' = [left EXCEPT ![c] = @ - 1]
  /\ bytes' = [bytes EXCEPT ![c[1]] = @ + EnvelopeSize]
  /\ IF gate[c] # "open" \/ ~up[c]
     THEN Finish(c, FALSE) /\ UNCHANGED stuck
     ELSE /\ state' = [state EXCEPT ![c] = "call"]
          /\ stuck' = [stuck EXCEPT ![c] = ~Fits]
          /\ UNCHANGED limit
  /\ UNCHANGED <<main, up, gate, hist, bench, latency>>

(* The destructor of histogram_measure, when a call is resolved after v.   *)
Measure(c, v) ==
  /\ hist' = [hist EXCEPT ![c] = Record(@, v)]
  /\ latency' = [latency EXCEPT ![v] = @ + 1]

Answer(c, v) ==
  /\ state[c] = "call" /\ up[c] /\ ~stuck[c]
  /\ Measure(c, v)
  /\ Resume(c)
  /\ UNCHANGED <<main, left, up, gate, stuck, bench, bytes>>

(* Mutant: a failed call is not measured.                                  *)
FailUnmeasured(c, v) ==
  /\ state[c] = "call"
  /\ latency' = [latency EXCEPT ![v] = @ + 1]
  /\ Finish(c, FALSE)
  /\ up' = [up EXCEPT ![c] = FALSE]
  /\ UNCHANGED <<main, left, gate, stuck, hist, bench, bytes>>

(* The connection drops, or the client's recv_timeout expires.             *)
Fail(c, v) ==
  /\ state[c] = "call"
  /\ Measure(c, v)
  /\ Finish(c, FALSE)
  /\ up' = [up EXCEPT ![c] = FALSE]
  /\ UNCHANGED <<main, left, gate, stuck, bench, bytes>>

(* The connection drops between two calls.                                 *)
Drop(c) ==
  /\ up[c] /\ state[c] # "call"
  /\ up' = [up EXCEPT ![c] = FALSE]
  /\ UNCHANGED <<main, state, left, gate, stuck, hist, core, latency>>

(* Mutant: the benchmark does not wait for the last channel.               *)
EndEarly(k) ==
  /\ bench[k] = "begun" /\ limit[k] >= args.concurrency - 1
  /\ bench' = [bench EXCEPT ![k] = "ended"]
  /\ limit' = [limit EXCEPT ![k] = @ - args.concurrency + 1]
  /\ UNCHANGED <<main, channel, bytes, latency>>

(* All units are back: end(), and the semaphore of do_with is destroyed.   *)
End(k) ==
  /\ bench[k] = "begun" /\ limit[k] = args.concurrency
  /\ bench' = [bench EXCEPT ![k] = "ended"]
  /\ limit' = [limit EXCEPT ![k] = 0]
  /\ UNCHANGED <<main, channel, bytes, latency>>

-----------------------------------------------------------------------------
(* map_reduce with unique_histogram_adder: copy_histogram of every core.   *)

CopyHistogram(k) == Merge(hist, OfCore(k))

Collect ==
  /\ phase = "benchmark"
  /\ \A k \in Cores : bench[k] = "ended"
  /\ phase' = "done"
  /\ merged' = Merge([k \in Cores |-> CopyHistogram(k)], Cores)
  /\ UNCHANGED <<args, channel, core, latency>>

(* load_generator::stop on one channel, at exit or after a signal: the     *)
(* client fails its calls and closes its gate.                             *)
StopChannel(c) ==
  /\ gate[c] = "open"
  /\ gate' = [gate EXCEPT ![c] = "closing"]
  /\ up' = [up EXCEPT ![c] = FALSE]
  /\ IF state[c] = "call"
     THEN Finish(c, FALSE) /\ \E v \in Latencies : Measure(c, v)
     ELSE UNCHANGED <<state, limit, hist, latency>>
  /\ UNCHANGED <<main, left, stuck, bench, bytes>>

(* The gate is empty.                                                      *)
Stopped(c) ==
  /\ gate[c] = "closing" /\ ~stuck[c]
  /\ gate' = [gate EXCEPT ![c] = "closed"]
  /\ UNCHANGED <<main, state, left, up, stuck, hist, core, latency>>

Step(c) ==
  \/ ConnectOk(c) \/ ConnectFails(c) \/ Issue(c) \/ Stopped(c)
  \/ \E v \in Latencies : Answer(c, v) \/ Fail(c, v)

Next ==
  \/ \E c \in Channels : Step(c) \/ StopChannel(c) \/ Drop(c)
  \/ \E k \in Cores : Begin(k) \/ End(k)
  \/ Connected \/ Collect

Spec == Init /\ [][Next]_vars

AtExit(c) == phase \in {"done", "failed"} /\ StopChannel(c)

(* Connection attempts end; a call is answered or times out; the reactor   *)
(* runs the continuations; and at exit main stops the generators.          *)
FairSpec ==
  /\ Spec
  /\ \A k \in 1..Max({a.cores : a \in Args}) :
       /\ WF_vars(k \in Cores /\ Begin(k)) /\ WF_vars(k \in Cores /\ End(k))
       /\ \A i \in 1..Max({a.concurrency : a \in Args}) :
            LET mine == <<k, i>> \in Channels
            IN WF_vars(mine /\ Step(<<k, i>>)) /\ WF_vars(mine /\ AtExit(<<k, i>>))
  /\ WF_vars(Connected) /\ WF_vars(Collect)

-----------------------------------------------------------------------------
(* Properties.                                                             *)

(* When a benchmark has ended none of its channels is still running: the   *)
(* loops, which nobody waits for, hold a reference to the semaphore that   *)
(* is destroyed then.                                                      *)
EndsAfterAll == \A k \in Cores : bench[k] = "ended" => \A c \in OfCore(k) : state[c] = "done"

(* When a benchmark has ended, a channel has stopped short of its share of *)
(* requests only if its own connection is down, whatever happened to the   *)
(* channels beside it; and total_bytes has the envelope of every request   *)
(* that was issued once, the failed and the refused ones too.              *)
RequestsAccounted ==
  \A k \in Cores : bench[k] = "ended" =>
    LET issued == SumFunctionOnSet([c \in Channels |-> ReqsPerChannel - left[c]], OfCore(k))
    IN /\ bytes[k] = issued * EnvelopeSize
       /\ \A c \in OfCore(k) : left[c] = 0 \/ ~up[c]

(* The merged histogram has every call of every core once, the failed ones *)
(* too, as long as its latency is one the histogram can hold.              *)
HistogramComplete ==
  phase = "done" =>
    merged.counts = [v \in Latencies |-> IF v <= MaxValue THEN latency[v] ELSE 0]

(* The buckets of the metrics double from first_value, none is missing or  *)
(* repeated where padding begins, and each counts the values up to it.     *)
BucketsCumulative ==
  \A c \in Channels : \A i \in 1..NumBuckets :
    Logform(hist[c])[i] = [count |-> UpTo(hist[c], Bound(i)), upper_bound |-> Bound(i)]

(* The benchmark ends whatever happens to the calls, also when a request   *)
(* is larger than the memory of its client: its call times out.            *)
BenchmarkEnds == phase = "benchmark" ~> phase = "done"

(* If an envelope fits in a channel's share of the memory, the program     *)
(* gets through its exit: every client stops.                              *)
ExitCompletes ==
  EnvelopeSize <= args.memory \div args.concurrency =>
    <>(\A c \in Channels : gate[c] = "closed")

=============================================================================

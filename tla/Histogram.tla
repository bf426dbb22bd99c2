------------------------------ MODULE Histogram ------------------------------
(***************************************************************************)
(* smf::histogram (include/smf/histogram.h, core/histogram.cc): a counter  *)
(* of samples beside an HdrHistogram, and the logarithmic buckets made     *)
(* from it for the metrics.  The HdrHistogram is the number of times each  *)
(* value was recorded; its three significant digits do not matter to       *)
(* values as small as the ones here.                                       *)
(***************************************************************************)
EXTENDS Integers, Sequences, FiniteSetsExt, Functions

CONSTANTS
  Latencies,   \* the durations a call may take
  MaxValue,    \* the largest value the HdrHistogram keeps
  FirstValue,  \* first_value of seastar_histogram_logform
  NumBuckets   \* num_buckets of seastar_histogram_logform

ASSUME HistogramAssumption ==
  /\ Latencies \subseteq Nat /\ Latencies # {} /\ MaxValue \in Nat
  /\ FirstValue \in Nat \ {0} /\ NumBuckets \in Nat

(* make_unique, make_lw_shared, hist_t.                                    *)
Empty == [samples |-> 0, sum |-> 0, counts |-> [v \in Latencies |-> 0]]

(* record: the sample is counted even if the HdrHistogram refuses it.      *)
Record(h, v) ==
  [samples |-> h.samples + 1, sum |-> h.sum + v,
   counts |-> [w \in Latencies |-> IF w = v /\ v <= MaxValue THEN h.counts[w] + 1
                                   ELSE h.counts[w]]]

(* operator+=: hdr_add, which leaves samples and sum alone.                *)
Add(h, o) ==
  [samples |-> h.samples, sum |-> h.sum,
   counts |-> [v \in Latencies |-> h.counts[v] + o.counts[v]]]

(* The histograms of S added to an empty one, one after the other.         *)
Merge(hists, S) == FoldFunctionOnSet(LAMBDA o, h : Add(h, o), Empty, hists, S)

(* How many values up to the bound were recorded.                          *)
UpTo(h, bound) == SumFunctionOnSet(h.counts, {v \in Latencies : v <= bound})

-----------------------------------------------------------------------------
(* seastar_histogram_logform.                                              *)

(* value_iterated_to, multiplied by log_base n times.                      *)
Doubled[n \in Nat] == IF n = 0 THEN 1 ELSE 2 * Doubled[n - 1]

Bound(i) == FirstValue * Doubled[i - 1]

(* The HdrHistogram's logarithmic iteration ends with the first bound that *)
(* no recorded value exceeds; it has no bucket when nothing is recorded.   *)
HdrBuckets(h) ==
  LET recorded == {v \in Latencies : h.counts[v] > 0}
  IN IF recorded = {} THEN 0
     ELSE CHOOSE i \in 1..(Max(recorded) + 1) :
            /\ Bound(i) >= Max(recorded)
            /\ i > 1 => Bound(i - 1) < Max(recorded)

(* Mutant: the first padding bucket repeats the last iterated bound.       *)
PaddingStays(filled) == IF filled = 0 THEN FirstValue ELSE Bound(filled)

(* value_iterated_to when padding begins.                                  *)
PaddingStart(filled) == IF filled = 0 THEN FirstValue ELSE Bound(filled) * 2

(* The iterated buckets, as many as fit, and the padding after them.       *)
Logform(h) ==
  LET filled == Min({HdrBuckets(h), NumBuckets})
  IN [i \in 1..NumBuckets |->
        IF i <= filled THEN [count |-> UpTo(h, Bound(i)), upper_bound |-> Bound(i)]
        ELSE [count |-> UpTo(h, MaxValue),
              upper_bound |-> PaddingStart(filled) * Doubled[i - filled - 1]]]

=============================================================================

----------------------------- MODULE ProofFacts -----------------------------
(***************************************************************************)
(* Facts that the invariants of the client and the server rest on, each    *)
(* stated as a formula: how a connection stays framed when a part is       *)
(* written to it, and how finite sets are counted.  ProofLemmas proves     *)
(* them.  A lemma over the handlers assumes the fact that it needs, and    *)
(* the theorem that follows from the lemma discharges it.                  *)
(***************************************************************************)
EXTENDS Integers, Sequences, FiniteSets

(* What goes over a connection in either direction is a sequence of parts: *)
(* the header of a message, then its body.                                 *)
PartsOf(S) == {"header", "body"} \X S

(* Every header is followed by the body of its message, if by anything.    *)
Framed(w) ==
  \A i \in 1..Len(w) : /\ w[i][1] = "header" <=> i % 2 = 1
                       /\ i % 2 = 0 => w[i][2] = w[i - 1][2]

(* A header may follow whole messages, and a body its header.              *)
FramesGrow(S) ==
  \A w \in Seq(PartsOf(S)), c \in S : Framed(w) =>
    /\ Len(w) % 2 = 0 =>
         \E v \in Seq(PartsOf(S)) : /\ v = Append(w, <<"header", c>>) /\ Framed(v)
                                    /\ Len(v) % 2 = 1 /\ v[Len(v)][2] = c
    /\ Len(w) % 2 = 1 /\ w[Len(w)][2] = c =>
         \E v \in Seq(PartsOf(S)) : /\ v = Append(w, <<"body", c>>) /\ Framed(v)
                                    /\ Len(v) % 2 = 0

(* The library's Cardinality counts a finite set, one element at a time.   *)
CountsAreNatural == \A S : IsFiniteSet(S) => Cardinality(S) \in Nat

CountsGrow ==
  \A S, x : IsFiniteSet(S) =>
    /\ IsFiniteSet(S \cup {x})
    /\ Cardinality(S \cup {x}) = IF x \in S THEN Cardinality(S) ELSE Cardinality(S) + 1

SubsetsAreFinite ==
  \A S, T : IsFiniteSet(T) /\ S \subseteq T =>
    /\ IsFiniteSet(S) /\ Cardinality(S) <= Cardinality(T)
    /\ Cardinality(S) = Cardinality(T) => S = T

IntervalsAreFinite == \A a, b \in Int : IsFiniteSet(a..b)

SetsAreCounted == CountsAreNatural /\ CountsGrow /\ SubsetsAreFinite /\ IntervalsAreFinite

=============================================================================

--------------------------- MODULE ReconnectProofs ---------------------------
(***************************************************************************)
(* Proofs about ReconnectClient, for any number of calls of connect().     *)
(***************************************************************************)
EXTENDS ReconnectClient, TLAPS

(* The clamp table has eleven entries.                                     *)
LEMMA BackoffTable ==
  /\ Len(Backoffs) = 11 /\ DOMAIN Backoffs = 1..11
  /\ Backoffs[1] = 0 /\ Backoffs[2] = 1 /\ Backoffs[3] = 3 /\ Backoffs[4] = 5
  /\ Backoffs[5] = 10 /\ Backoffs[6] = 20 /\ Backoffs[7] = 30 /\ Backoffs[8] = 60
  /\ Backoffs[9] = 300 /\ Backoffs[10] = 600 /\ Backoffs[11] = 1800
  BY DEF Backoffs

(* The table is increasing, so the entry operator++ finds is the next one. *)
LEMMA BackoffNext ==
  ASSUME NEW k \in 1..11
  PROVE  Increment(Backoffs[k]) = Backoffs[IF k < 11 THEN k + 1 ELSE 11]
<1> DEFINE later == {i \in DOMAIN Backoffs : Backoffs[k] + 1 <= Backoffs[i]}
           least == CHOOSE i \in later : \A j \in later : i <= j
<1>1. later = (k + 1)..11
  BY BackoffTable
<1>2. CASE k < 11
  <2>1. k + 1 \in later /\ \A j \in later : k + 1 <= j
    BY <1>1, <1>2
  <2>2. least \in later /\ \A j \in later : least <= j
    BY Zenon, <2>1
  <2>3. least = k + 1
    BY <2>1, <2>2, <1>1
  <2> QED
    BY Zenon, <2>1, <2>3, <1>2 DEF Increment
<1>3. CASE k = 11
  <2>1. later = {}
    BY <1>1, <1>3
  <2> QED
    BY <2>1, <1>3, BackoffTable DEF Increment, MaxBackoff
<1> QED
  BY <1>2, <1>3

-----------------------------------------------------------------------------
(* What the theorems rest on.  stop() goes through its steps with          *)
(* reconnect_gate_ closed and, once client_ is being stopped, without an   *)
(* active fiber.  When connect() is called in turn, at most one fiber is   *)
(* active, and a closed dispatch gate is one that it, or stop(), closed.   *)

Stopping == stopping \in {"client", "done"}

TurnInv ==
  /\ \A f, g \in Users : Active(f) /\ Active(g) => f = g
  /\ dispatch_closed => Stopping \/ \E f \in Users : fiber[f] = "gate"
  /\ ~aborted

IInv ==
  /\ TypeOK
  /\ BackoffFollowsFailures
  /\ reconnect_closed <=> stopping # "no"
  /\ Stopping => ~valid /\ \A f \in Users : ~Active(f)
  /\ serial => TurnInv

(* The invariant holds at first.                                           *)
LEMMA InitIInv == Init => IInv
<1> SUFFICES ASSUME Init PROVE IInv
  BY Zenon
<1>1. TypeOK /\ BackoffFollowsFailures
  <2>1. bo = Backoffs[1] /\ 1 \in DOMAIN Backoffs /\ failures = 0 /\ failures \in 0..(Len(Backoffs) - 1)
    BY BackoffTable DEF Init
  <2>2. BackoffFollowsFailures
    BY <2>1 DEF BackoffFollowsFailures
  <2> QED
    BY Zenon, <2>1, <2>2 DEF Init, TypeOK
<1>2. ~Stopping /\ \A f \in Users : ~Active(f)
  BY Zenon DEF Init, Stopping, Active
<1>3. reconnect_closed = FALSE /\ stopping = "no" /\ dispatch_closed = FALSE /\ aborted = FALSE
  BY Zenon DEF Init
<1> QED
  BY <1>1, <1>2, <1>3, Zenon DEF IInv, TurnInv

(* A retry and a success keep the backoff in step with the failures.       *)
LEMMA RetryBackoff ==
  ASSUME TypeOK, BackoffFollowsFailures, NEW f \in Users,
         Retry(f) \/ (bo' = 0 /\ failures' = 0)
  PROVE  /\ bo' \in {Backoffs[i] : i \in DOMAIN Backoffs}
         /\ failures' \in 0..(Len(Backoffs) - 1)
         /\ BackoffFollowsFailures'
<1> USE BackoffTable
<1>1. failures \in 0..10 /\ bo = Backoffs[failures + 1]
  BY DEF TypeOK, BackoffFollowsFailures
<1>2. CASE bo' = bo /\ failures' = failures
  BY <1>1, <1>2 DEF TypeOK, BackoffFollowsFailures
<1>3. CASE bo' = 0 /\ failures' = 0
  BY <1>3 DEF BackoffFollowsFailures
<1>4. CASE /\ bo' = Increment(bo)
           /\ failures' = IF failures < Len(Backoffs) - 1 THEN failures + 1 ELSE failures
  <2>1. failures + 1 \in 1..11
    BY <1>1
  <2>2. PICK k \in 1..11 : bo' = Backoffs[k] /\ failures' = k - 1
    <3>1. CASE failures = 10
      BY <3>1, <2>1, <1>1, <1>4, BackoffNext
    <3>2. CASE failures < 10
      <4>1. bo' = Backoffs[failures + 2]
        BY <3>2, <2>1, <1>1, <1>4, BackoffNext
      <4>2. failures' = (failures + 2) - 1 /\ failures + 2 \in 1..11
        BY <3>2, <1>1, <1>4
      <4> DEFINE k == failures + 2
      <4>3. bo' = Backoffs[k] /\ failures' = k - 1 /\ k \in 1..11
        BY <4>1, <4>2
      <4> HIDE DEF k
      <4> QED
        BY <4>3
    <3> QED
      BY <3>1, <3>2, <1>1
  <2>3. failures' \in 0..10 /\ failures' + 1 = k
    BY <2>2
  <2> QED
    BY <2>2, <2>3 DEF BackoffFollowsFailures
<1> QED
  BY <1>2, <1>3, <1>4 DEF Retry

(* Every step keeps the invariant.                                         *)
LEMMA NextIInv == IInv /\ [Next]_vars => IInv'
<1> SUFFICES ASSUME IInv, [Next]_vars PROVE IInv'
  BY Zenon
<1> USE DEF IInv
<1>1. CASE UNCHANGED vars
  BY Zenon, <1>1 DEF vars, TypeOK, BackoffFollowsFailures, TurnInv, Stopping, Active
<1>2. ASSUME NEW f \in Users, Connect(f), UNCHANGED serial, ~aborted PROVE IInv'
  <2>1. TypeOK' /\ BackoffFollowsFailures'
    BY Zenon, <1>2 DEF Connect, Attempt, CloseDispatch, TypeOK, BackoffFollowsFailures
  <2>2. (reconnect_closed <=> stopping # "no")'
    BY Zenon, <1>2 DEF Connect
  <2>3. (Stopping => ~valid /\ \A g \in Users : ~Active(g))'
    BY Zenon, <1>2 DEF Connect, Attempt, Stopping, Active, TypeOK
  <2>4. (serial => TurnInv)'
    BY ZenonT(60), <1>2 DEF Connect, Attempt, CloseDispatch, Stopping, Active, TypeOK, TurnInv
  <2> QED
    BY Zenon, <2>1, <2>2, <2>3, <2>4
<1>3. ASSUME NEW f \in Users, Reopen(f), UNCHANGED serial, ~aborted PROVE IInv'
  <2>1. TypeOK' /\ BackoffFollowsFailures'
    BY Zenon, <1>3 DEF Reopen, TypeOK, BackoffFollowsFailures
  <2>2. (reconnect_closed <=> stopping # "no")'
    BY Zenon, <1>3 DEF Reopen
  <2>3. (Stopping => ~valid /\ \A g \in Users : ~Active(g))'
    BY Zenon, <1>3 DEF Reopen, Stopping, Active, TypeOK
  <2>4. (serial => TurnInv)'
    BY Zenon, <1>3 DEF Reopen, Stopping, Active, TypeOK, TurnInv
  <2> QED
    BY Zenon, <2>1, <2>2, <2>3, <2>4
<1>4. ASSUME NEW f \in Users, ConnectOk(f) \/ ConnectFails(f), UNCHANGED serial, ~aborted
      PROVE IInv'
  <2>1. TypeOK' /\ BackoffFollowsFailures'
    BY Zenon, <1>4, RetryBackoff DEF ConnectOk, ConnectFails, Retry, TypeOK
  <2>2. (reconnect_closed <=> stopping # "no")'
    BY <1>4 DEF ConnectOk, ConnectFails
  <2>3. (Stopping => ~valid /\ \A g \in Users : ~Active(g))'
    BY Zenon, <1>4 DEF ConnectOk, ConnectFails, Stopping, Active
  <2>4. (serial => TurnInv)'
    BY ZenonT(60), <1>4 DEF ConnectOk, ConnectFails, Retry, Stopping, Active, TypeOK, TurnInv
  <2> QED
    BY Zenon, <2>1, <2>2, <2>3, <2>4
<1>5. ASSUME NEW f \in Users, Wake(f), UNCHANGED serial, ~aborted PROVE IInv'
  <2>1. TypeOK' /\ BackoffFollowsFailures'
    BY Zenon, <1>5 DEF Wake, Attempt, CloseDispatch, TypeOK, BackoffFollowsFailures
  <2>2. (reconnect_closed <=> stopping # "no")'
    BY Zenon, <1>5 DEF Wake
  <2>3. (Stopping => ~valid /\ \A g \in Users : ~Active(g))'
    BY Zenon, <1>5 DEF Wake, Attempt, Stopping, Active, TypeOK
  <2>4. (serial => TurnInv)'
    BY ZenonT(60), <1>5 DEF Wake, Attempt, CloseDispatch, Stopping, Active, TypeOK, TurnInv
  <2> QED
    BY Zenon, <2>1, <2>2, <2>3, <2>4
<1>6. ASSUME Stop \/ Stopped \/ Drop, UNCHANGED serial, ~aborted PROVE IInv'
  <2>1. TypeOK' /\ BackoffFollowsFailures'
    BY Zenon, <1>6 DEF Stop, Stopped, Drop, TypeOK, BackoffFollowsFailures
  <2>2. (reconnect_closed <=> stopping # "no")'
    BY <1>6 DEF Stop, Stopped, Drop
  <2>3. (Stopping => ~valid /\ \A g \in Users : ~Active(g))'
    BY Zenon, <1>6 DEF Stop, Stopped, Drop, Stopping, Active
  <2>4. (serial => TurnInv)'
    BY Zenon, <1>6 DEF Stop, Stopped, Drop, Stopping, Active, TurnInv
  <2> QED
    BY Zenon, <2>1, <2>2, <2>3, <2>4
<1>7. ASSUME StopClient, UNCHANGED serial, ~aborted PROVE IInv'
  <2>1. TypeOK' /\ BackoffFollowsFailures'
    BY Zenon, <1>7 DEF StopClient, CloseDispatch, TypeOK, BackoffFollowsFailures
  <2>2. (reconnect_closed <=> stopping # "no")'
    BY Zenon, <1>7 DEF StopClient
  <2>3. (Stopping => ~valid /\ \A g \in Users : ~Active(g))'
    BY Zenon, <1>7 DEF StopClient, Stopping, Active
  <2>4. (serial => TurnInv)'
    BY Zenon, <1>7 DEF StopClient, CloseDispatch, Stopping, Active, TypeOK, TurnInv
  <2> QED
    BY Zenon, <2>1, <2>2, <2>3, <2>4
<1> QED
  BY Zenon, <1>1, <1>2, <1>3, <1>4, <1>5, <1>6, <1>7 DEF Next, Step

-----------------------------------------------------------------------------
(* The invariant holds throughout.                                         *)
LEMMA IInvAlways == Spec => []IInv
  BY InitIInv, NextIInv, PTL DEF Spec

(* Every variable keeps its type; the backoff is an entry of the table.    *)
THEOREM TypeCorrect == Spec => []TypeOK
<1>1. IInv => TypeOK
  BY Zenon DEF IInv
<1> QED
  BY <1>1, IInvAlways, PTL

(* The wait is the entry of the table that the failures since the last     *)
(* success lead to, whichever calls of connect() they belong to.           *)
THEOREM BackoffInStep == Spec => []BackoffFollowsFailures
<1>1. IInv => BackoffFollowsFailures
  BY Zenon DEF IInv
<1> QED
  BY <1>1, IInvAlways, PTL

(* Calls of connect() made in turn, their background retries and stop()    *)
(* never close the dispatch gate of client_ twice.                         *)
THEOREM GatesClosedOnce == Spec => []GateClosedOnce
<1>1. IInv => GateClosedOnce
  BY Zenon DEF IInv, TurnInv, GateClosedOnce
<1> QED
  BY <1>1, IInvAlways, PTL

(* stop() leaves no fiber and no connection behind.                        *)
THEOREM StopIsQuiet == Spec => []QuietAfterStop
<1>1. IInv => QuietAfterStop
  BY Zenon DEF IInv, Stopping, QuietAfterStop
<1> QED
  BY <1>1, IInvAlways, PTL

=============================================================================

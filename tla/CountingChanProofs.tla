-------------------------- MODULE CountingChanProofs --------------------------
(***************************************************************************)
(* Proofs about CountingChan: for any number of collectors, any buffer,    *)
(* any capacity of the registry's channel and any number of metrics.       *)
(*                                                                         *)
(* CountIsDelivered is not inductive.  What makes it so is Conserved (no   *)
(* metric is lost or doubled between the collector, its channel, the       *)
(* forwarder's hand and the registry) and the order of the hand-over: the  *)
(* channel is closed after the last write (ClosedAfter), the forwarder     *)
(* ends after it is closed and empty (EndedDry), and instrument returns    *)
(* after the forwarder has ended (CountedLast).                            *)
(*                                                                         *)
(* That Collect returns is a liveness property, which is model-checked;    *)
(* its two ingredients are proved: nobody is ever stuck (NoneStuck, with   *)
(* Handed: a channel is closed before its count is waited for, and a count *)
(* is there until it is received), and the work left only shrinks          *)
(* (WorkRunsOut): a call of Collect makes a bounded number of steps.       *)
(***************************************************************************)
EXTENDS CountingChan, Integers, TLAPS

USE CountingChanAssumption

Conserved == \A k \in Collectors : /\ sent[k] = passed[k] + in[k] + InHand(k)
                                   /\ n[k] = passed[k]

ClosedAfter == \A k \in closed : pc[k] \in {"wait", "returned"}

EndedDry == \A k \in Collectors :
               /\ forwarder[k] = "ended" => k \in closed /\ in[k] = 0
               /\ done[k] # None => forwarder[k] = "ended" /\ done[k] = n[k]

CountedLast == /\ \A k \in Collectors :
                     pc[k] = "returned" => forwarder[k] = "ended" /\ counted[k] = n[k]
               /\ collect # "run" => \A k \in Collectors : pc[k] = "returned"

IInv == TypeOK /\ Conserved /\ ClosedAfter /\ EndedDry /\ CountedLast

LEMMA InitIInv == Init => IInv
  BY DEF Init, IInv, TypeOK, Conserved, ClosedAfter, EndedDry, CountedLast, InHand

LEMMA Inductive == IInv /\ [Next]_vars => IInv'
  <1> SUFFICES ASSUME IInv, [Next]_vars PROVE IInv'
    OBVIOUS
  <1> USE DEF IInv, InHand
  <1>0. ASSUME NEW k \in Collectors, Queried(k) PROVE IInv'
    <2> USE <1>0 DEF Queried
    <2>1. TypeOK'       BY DEF TypeOK
    <2>2. ClosedAfter'  BY DEF TypeOK, ClosedAfter
    <2>3. CountedLast'  BY DEF TypeOK, CountedLast
    <2> QED BY <2>1, <2>2, <2>3 DEF Conserved, EndedDry
  <1>1. ASSUME NEW k \in Collectors, Write(k) PROVE IInv'
    <2> USE <1>1 DEF Write, PutMetric
    <2>1. TypeOK'     BY DEF TypeOK
    <2>2. Conserved'  BY DEF TypeOK, Conserved
    <2>3. forwarder[k] # "ended"
      BY DEF EndedDry, ClosedAfter
    <2> QED BY <2>1, <2>2, <2>3 DEF TypeOK, ClosedAfter, EndedDry, CountedLast
  <1>2. ASSUME NEW k \in Collectors, ScrapeReturn(k) PROVE IInv'
    <2> USE <1>2 DEF ScrapeReturn
    <2>1. TypeOK'       BY DEF TypeOK
    <2>2. ClosedAfter'  BY DEF TypeOK, ClosedAfter
    <2>3. CountedLast'  BY DEF TypeOK, CountedLast
    <2> QED BY <2>1, <2>2, <2>3 DEF Conserved, EndedDry
  <1>3. ASSUME NEW k \in Collectors, CloseIn(k) PROVE IInv'
    <2> USE <1>3 DEF CloseIn
    <2>1. TypeOK'       BY DEF TypeOK
    <2>2. ClosedAfter'  BY DEF TypeOK, ClosedAfter
    <2>3. CountedLast'  BY DEF TypeOK, CountedLast
    <2> QED BY <2>1, <2>2, <2>3 DEF Conserved, EndedDry
  <1>4. ASSUME NEW k \in Collectors, Receive(k) PROVE IInv'
    <2> USE <1>4 DEF Receive
    <2>1. TypeOK'       BY DEF TypeOK
    <2>2. ClosedAfter'  BY DEF TypeOK, ClosedAfter
    <2>3. EndedDry'     BY DEF TypeOK, EndedDry
    <2>4. CountedLast'  BY DEF TypeOK, EndedDry, CountedLast
    <2> QED BY <2>1, <2>2, <2>3, <2>4 DEF Conserved
  <1>5. ASSUME NEW k \in Collectors, Take(k) PROVE IInv'
    <2> USE <1>5 DEF Take, TakeMetric
    <2>1. TypeOK'       BY DEF TypeOK
    <2>2. Conserved'    BY DEF TypeOK, Conserved
    <2>3. EndedDry'     BY DEF TypeOK, EndedDry
    <2>4. CountedLast'  BY DEF TypeOK, CountedLast
    <2> QED BY <2>1, <2>2, <2>3, <2>4 DEF ClosedAfter
  <1>6. ASSUME NEW k \in Collectors, Pass(k) PROVE IInv'
    <2> USE <1>6 DEF Pass
    <2>1. TypeOK'       BY DEF TypeOK
    <2>2. Conserved'    BY DEF TypeOK, Conserved
    <2>3. EndedDry'     BY DEF TypeOK, EndedDry
    <2>4. CountedLast'  BY DEF TypeOK, CountedLast
    <2> QED BY <2>1, <2>2, <2>3, <2>4 DEF ClosedAfter
  <1>7. ASSUME NEW k \in Collectors, Finish(k) PROVE IInv'
    <2> USE <1>7 DEF Finish
    <2>1. TypeOK'       BY DEF TypeOK
    <2>2. Conserved'    BY DEF TypeOK, Conserved
    <2>3. EndedDry'     BY DEF TypeOK, EndedDry
    <2>4. CountedLast'  BY DEF TypeOK, CountedLast
    <2> QED BY <2>1, <2>2, <2>3, <2>4 DEF ClosedAfter
  <1>8. CASE Drain
    BY <1>8 DEF Drain, TypeOK, Conserved, ClosedAfter, EndedDry, CountedLast
  <1>9. CASE Wait
    BY <1>9 DEF Wait, TypeOK, Conserved, ClosedAfter, EndedDry, CountedLast
  <1>10. CASE Return
    BY <1>10 DEF Return, TypeOK, Conserved, ClosedAfter, EndedDry, CountedLast
  <1>11. CASE UNCHANGED vars
    BY <1>11 DEF vars, TypeOK, Conserved, ClosedAfter, EndedDry, CountedLast
  <1> QED
    BY <1>0, <1>1, <1>2, <1>3, <1>4, <1>5, <1>6, <1>7, <1>8, <1>9, <1>10, <1>11
    DEF Next, Instrument, Forward

LEMMA Invariant == Spec => []IInv
  BY InitIInv, Inductive, PTL DEF Spec

(* Type correctness of every reachable state.                               *)
THEOREM TypeCorrect == Spec => []TypeOK
  BY Invariant, PTL DEF IInv

(* When the self-metrics are emitted, metric_cardinality is the number of   *)
(* metrics a collector wrote, and the registry has been given all of them.  *)
THEOREM CountExact == Spec => []CountIsDelivered
  <1>1. IInv => CountIsDelivered
    <2> SUFFICES ASSUME IInv, collect # "run", NEW k \in Collectors
                 PROVE  counted[k] = sent[k] /\ passed[k] = sent[k]
      BY DEF CountIsDelivered
    <2>1. forwarder[k] = "ended" /\ counted[k] = n[k] /\ in[k] = 0
      BY DEF IInv, CountedLast, EndedDry
    <2>2. sent[k] = passed[k] + in[k] + InHand(k) /\ n[k] = passed[k] /\ InHand(k) = 0
      BY <2>1 DEF IInv, Conserved, InHand
    <2>3. passed[k] \in Nat
      BY DEF IInv, TypeOK
    <2> QED BY <2>1, <2>2, <2>3
  <1> QED BY <1>1, Invariant, PTL

(* After Collect has returned every forwarder has ended and every channel   *)
(* is empty: none of them can send on the channel the registry closes.      *)
THEOREM NothingLeft == Spec => []NothingLeftBehind
  <1>1. IInv => NothingLeftBehind
    BY DEF IInv, EndedDry, CountedLast, NothingLeftBehind
  <1> QED BY <1>1, Invariant, PTL

-------------------------------------------------------------------------------
(* Nobody is stuck, and the work runs out.                                  *)

(* instrument has closed a channel whose count it waits for, and a          *)
(* forwarder that has ended has left its count.  No more is written than    *)
(* there is to write.                                                       *)
Handed == \A k \in Collectors :
             /\ pc[k] \in {"wait", "returned"} => k \in closed
             /\ pc[k] # "returned" /\ forwarder[k] = "ended" => done[k] # None
             /\ sent[k] <= total[k] /\ (pc[k] = "query" => sent[k] = 0)

LEMMA InitHanded == Init => Handed
  <1> SUFFICES ASSUME Init PROVE Handed
    OBVIOUS
  <1>1. \A k \in Collectors : /\ pc[k] = "query" /\ forwarder[k] = "recv"
                               /\ sent[k] = 0 /\ total[k] = 0
    BY DEF Init
  <1>2. 0 <= 0
    OBVIOUS
  <1>3. \A k \in Collectors : sent[k] <= total[k]
    BY <1>1, <1>2, Zenon
  <1>4. QED BY <1>1, <1>3 DEF Handed

LEMMA HandedStep == TypeOK /\ Handed /\ [Next]_vars => Handed'
  <1> SUFFICES ASSUME TypeOK, Handed, [Next]_vars PROVE Handed'
    OBVIOUS
  <1> USE DEF TypeOK, Handed
  <1>1. ASSUME NEW k \in Collectors, Instrument(k) PROVE Handed'
    <2>0. CASE Queried(k)
      <3>1. PICK m \in 0 .. MaxMetrics : total' = [total EXCEPT ![k] = m]
        BY <2>0 DEF Queried
      <3>2. /\ pc' = [pc EXCEPT ![k] = "write"]
            /\ pc[k] = "query"
            /\ UNCHANGED <<sent, closed, forwarder, done>>
        BY <2>0 DEF Queried
      <3>3. sent[k] = 0 /\ total'[k] = m /\ 0 <= m
        BY <3>1, <3>2
      <3>4. \A j \in Collectors \ {k} : total'[j] = total[j] /\ pc'[j] = pc[j]
        BY <3>1, <3>2
      <3>5. QED BY <3>2, <3>3, <3>4
    <2>1. CASE Write(k)        BY <2>1 DEF Write, PutMetric
    <2>2. CASE ScrapeReturn(k) BY <2>2 DEF ScrapeReturn
    <2>3. CASE CloseIn(k)      BY <2>3 DEF CloseIn
    <2>4. CASE Receive(k)      BY <2>4 DEF Receive
    <2>5. QED BY <1>1, <2>0, <2>1, <2>2, <2>3, <2>4 DEF Instrument
  <1>2. ASSUME NEW k \in Collectors, Forward(k) PROVE Handed'
    <2>1. CASE Take(k)   BY <2>1 DEF Take, TakeMetric
    <2>2. CASE Pass(k)   BY <2>2 DEF Pass
    <2>3. CASE Finish(k) BY <2>3 DEF Finish
    <2>4. QED BY <1>2, <2>1, <2>2, <2>3 DEF Forward
  <1>3. CASE Drain \/ Wait \/ Return \/ UNCHANGED vars
    BY <1>3 DEF Drain, Wait, Return, vars
  <1>4. QED BY <1>1, <1>2, <1>3 DEF Next

LEMMA HandedInvariant == Spec => [](IInv /\ Handed)
  <1>1. IInv /\ Handed /\ [Next]_vars => Handed'
    BY HandedStep DEF IInv
  <1>2. QED BY <1>1, InitHanded, Invariant, PTL DEF Spec

(* Until instrument returns, one of the collector's own goroutines can run  *)
(* or the registry has something to read: a full channel has a forwarder    *)
(* that is alive, and a count that is awaited has a forwarder that will     *)
(* send it.  No circle of waits, for any sizes of the two channels.         *)
THEOREM NoneStuck == Spec => []NobodyStuck
  <1>1. ASSUME IInv, Handed, NEW k \in Collectors, pc[k] # "returned"
        PROVE  CanGoOn(k) \/ (forwarder[k] = "send" /\ dst > 0)
    <2> USE <1>1 DEF IInv, TypeOK
    <2>1. CASE forwarder[k] = "send"
      BY <2>1 DEF CanGoOn
    <2>2. CASE forwarder[k] = "recv"
      <3>1. CASE in[k] > 0
        BY <2>2, <3>1 DEF CanGoOn
      <3>2. CASE in[k] = 0
        <4>1. done[k] = None
          BY <2>2 DEF EndedDry
        <4>2. CASE pc[k] \in {"query", "write", "close"}
          BY <3>2, <4>2 DEF CanGoOn
        <4>3. CASE pc[k] = "wait"
          BY <2>2, <4>1, <4>3 DEF CanGoOn, Handed
        <4>4. QED BY <4>2, <4>3
      <3>3. QED BY <3>1, <3>2
    <2>3. CASE forwarder[k] = "ended"
      <3>1. k \in closed /\ done[k] # None
        BY <2>3 DEF EndedDry, Handed
      <3>2. pc[k] = "wait"
        BY <3>1 DEF ClosedAfter
      <3>3. QED BY <3>1, <3>2 DEF CanGoOn
    <2>4. QED BY <2>1, <2>2, <2>3
  <1>2. IInv /\ Handed => NobodyStuck
    BY <1>1 DEF NobodyStuck
  <1>3. QED BY <1>2, HandedInvariant, PTL

(* What is left to do for a collector: a metric it may still write is three *)
(* steps, one in its channel two, one in the forwarder's hand one.          *)
Ahead(k) == IF pc[k] = "query" THEN 4
            ELSE IF pc[k] = "write" THEN 3
            ELSE IF pc[k] = "close" THEN 2
            ELSE IF pc[k] = "wait" THEN 1 ELSE 0
Alive(k) == IF forwarder[k] = "ended" THEN 0 ELSE 1

Work(k) == 3 * (MaxMetrics - sent[k]) + 2 * in[k] + InHand(k) + Ahead(k) + Alive(k)

(* No step of a call of Collect undoes another: each takes one unit of work *)
(* off one collector and adds none to any, or is the registry's, which      *)
(* reads what was passed to it, or one of the last two.  As work is a       *)
(* natural number, and nobody is stuck before it is done, Collect cannot go *)
(* on for ever.                                                             *)
WorkShrinks ==
    [][\/ \E k \in Collectors :
             /\ Work(k)' = Work(k) - 1
             /\ \A j \in Collectors \ {k} : Work(j)' = Work(j)
       \/ /\ dst' = dst - 1 \/ collect' # collect
          /\ \A j \in Collectors : Work(j)' = Work(j)]_vars

THEOREM WorkRunsOut == Spec => [](\A k \in Collectors : Work(k) \in Nat) /\ WorkShrinks
  <1> USE DEF Work, Ahead, Alive, InHand
  <1>1. IInv /\ Handed => \A k \in Collectors : Work(k) \in Nat
    <2> SUFFICES ASSUME IInv, Handed, NEW k \in Collectors PROVE Work(k) \in Nat
      OBVIOUS
    <2>1. sent[k] \in Nat /\ in[k] \in Nat /\ MaxMetrics - sent[k] \in Nat
      <3>1. sent[k] \in Nat /\ total[k] \in 0 .. MaxMetrics /\ sent[k] <= total[k]
        BY DEF IInv, TypeOK, Handed
      <3>2. in[k] \in Nat
        BY DEF IInv, TypeOK
      <3>3. QED BY <3>1, <3>2
    <2>2. QED BY <2>1
  <1>2. ASSUME TypeOK, NEW k \in Collectors, Instrument(k) \/ Forward(k)
        PROVE  Work(k)' = Work(k) - 1 /\ \A j \in Collectors \ {k} : Work(j)' = Work(j)
    <2> USE <1>2 DEF TypeOK
    <2>1. \A j \in Collectors \ {k} : UNCHANGED <<pc[j], sent[j], in[j], forwarder[j]>>
      <3>1. CASE Instrument(k)
        BY <3>1 DEF Instrument, Queried, Write, PutMetric, ScrapeReturn, CloseIn, Receive
      <3>2. CASE Forward(k)
        BY <3>2 DEF Forward, Take, TakeMetric, Pass, Finish
      <3>3. QED BY <1>2, <3>1, <3>2
    <2>2. \A j \in Collectors \ {k} : Work(j)' = Work(j)
      BY <2>1
    <2>3. Work(k)' = Work(k) - 1
      <3>1. CASE Write(k)
        <4>1. sent'[k] = sent[k] + 1 /\ in'[k] = in[k] + 1 /\ UNCHANGED <<pc, forwarder>>
          BY <3>1 DEF Write, PutMetric
        <4>2. QED BY <4>1
      <3>2. CASE Queried(k) \/ ScrapeReturn(k) \/ CloseIn(k) \/ Receive(k)
        <4>1. Ahead(k)' = Ahead(k) - 1 /\ UNCHANGED <<sent, in, forwarder>>
          BY <3>2 DEF Queried, ScrapeReturn, CloseIn, Receive
        <4> HIDE DEF Ahead
        <4>2. Ahead(k) \in Nat
          BY DEF Ahead
        <4>3. QED BY <4>1, <4>2
      <3>3. CASE Take(k) \/ Pass(k) \/ Finish(k)
        <4>1. UNCHANGED <<sent, pc>>
          BY <3>3 DEF Take, TakeMetric, Pass, Finish
        <4>2. sent[k] \in Nat /\ in[k] \in Nat
          OBVIOUS
        <4>3. Ahead(k) \in Nat /\ Ahead(k)' = Ahead(k)
          BY <4>1
        <4>4. \/ /\ in'[k] = in[k] - 1 /\ InHand(k) = 0 /\ InHand(k)' = 1
                 /\ Alive(k) = 1 /\ Alive(k)' = 1
              \/ /\ in'[k] = in[k] /\ InHand(k) = 1 /\ InHand(k)' = 0
                 /\ Alive(k) = 1 /\ Alive(k)' = 1
              \/ /\ in'[k] = in[k] /\ InHand(k) = 0 /\ InHand(k)' = 0
                 /\ Alive(k) = 1 /\ Alive(k)' = 0
          <5>1. CASE Take(k)
            <6>1. in'[k] = in[k] - 1 /\ forwarder[k] = "recv" /\ forwarder'[k] = "send"
              BY <5>1 DEF Take, TakeMetric
            <6>2. QED BY <6>1, Zenon DEF InHand, Alive
          <5>2. CASE Pass(k)
            <6>1. in'[k] = in[k] /\ forwarder[k] = "send" /\ forwarder'[k] = "recv"
              BY <5>2 DEF Pass
            <6>2. QED BY <6>1, Zenon DEF InHand, Alive
          <5>3. CASE Finish(k)
            <6>1. in'[k] = in[k] /\ forwarder[k] = "recv" /\ forwarder'[k] = "ended"
              BY <5>3 DEF Finish
            <6>2. QED BY <6>1, Zenon DEF InHand, Alive
          <5>4. QED BY <3>3, <5>1, <5>2, <5>3
        <4> HIDE DEF InHand, Alive, Ahead
        <4>5. sent'[k] = sent[k]
          BY <4>1
        <4> HIDE DEF TypeOK
        <4>6. QED BY <4>2, <4>3, <4>4, <4>5
      <3>4. QED BY <1>2, <3>1, <3>2, <3>3 DEF Instrument, Forward
    <2>4. QED BY <2>2, <2>3
  <1>3. ASSUME Drain \/ Wait \/ Return
        PROVE  /\ dst' = dst - 1 \/ collect' # collect
               /\ \A j \in Collectors : Work(j)' = Work(j)
    BY <1>3 DEF Drain, Wait, Return
  <1>4. TypeOK /\ [Next]_vars =>
          [\/ \E k \in Collectors :
                 /\ Work(k)' = Work(k) - 1
                 /\ \A j \in Collectors \ {k} : Work(j)' = Work(j)
           \/ /\ dst' = dst - 1 \/ collect' # collect
              /\ \A j \in Collectors : Work(j)' = Work(j)]_vars
    <2> HIDE DEF Work
    <2>1. QED BY <1>2, <1>3 DEF Next
  <1> HIDE DEF Work
  <1>5. QED BY <1>1, <1>4, HandedInvariant, TypeCorrect, PTL DEF Spec, WorkShrinks
===============================================================================

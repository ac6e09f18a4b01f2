----------------------------- MODULE CountingChan -----------------------------
(***************************************************************************)
(* One Collect call seen from its channels (exporter.go: instrument,       *)
(* countingChan).  Scrape of a collector runs its queries and then writes  *)
(* its metrics to a buffered channel of its own, in sends that look at no  *)
(* context; a forwarder passes them on to the registry's channel and       *)
(* counts them; when Scrape has returned instrument closes the collector's *)
(* channel and waits for the count.  The registry closes its channel when  *)
(* Collect has returned: a forwarder that still has a metric would panic.  *)
(***************************************************************************)
EXTENDS Naturals

CONSTANTS Collectors,  \* Exporter.collectors
          Buffer,      \* capacity of countingChan.in (64)
          MaxMetrics,  \* bound on the metrics of one collector
          Capacity,    \* capacity of the registry's channel (1000)
          None

ASSUME CountingChanAssumption ==
    /\ Buffer \in Nat \ {0} /\ Capacity \in Nat \ {0} /\ MaxMetrics \in Nat
    /\ None \notin Nat

VARIABLES pc,        \* instrument: "query", "write", "close", "wait" or "returned"
          total,     \* metrics Scrape has to write, once its queries are over
          sent,      \* metrics Scrape has written
          in,        \* countingChan.in: how many metrics it holds
          closed,    \* collectors whose channel in is closed
          forwarder, \* "recv", "send" (has a metric in hand) or "ended"
          n,         \* the forwarder's count
          done,      \* countingChan.done: the count, or None
          counted,   \* the value instrument sets metric_cardinality to, or None
          dst,       \* metrics in the registry's channel
          passed,    \* history: metrics of each collector passed to the registry
          collect    \* "run", "emit" (group.Wait has returned) or "returned"

vars == <<pc, total, sent, in, closed, forwarder, n, done, counted, dst, passed, collect>>

Init == /\ pc = [k \in Collectors |-> "query"]
        /\ total = [k \in Collectors |-> 0]
        /\ sent = [k \in Collectors |-> 0]
        /\ in = [k \in Collectors |-> 0]
        /\ closed = {}
        /\ forwarder = [k \in Collectors |-> "recv"]
        /\ n = [k \in Collectors |-> 0]
        /\ done = [k \in Collectors |-> None]
        /\ counted = [k \in Collectors |-> None]
        /\ dst = 0
        /\ passed = [k \in Collectors |-> 0]
        /\ collect = "run"

(* The queries are over.  After an error there is nothing to write: all     *)
(* clients' goroutines are waited for before collectInto writes the first   *)
(* metric.                                                                  *)
Queried(k) == /\ pc[k] = "query"
              /\ pc' = [pc EXCEPT ![k] = "write"]
              /\ \E m \in 0 .. MaxMetrics : total' = [total EXCEPT ![k] = m]
              /\ UNCHANGED <<sent, in, closed, forwarder, n, done, counted, dst, passed,
                             collect>>

PutMetric(k) == /\ pc[k] = "write"
                /\ sent[k] < total[k]
                /\ sent' = [sent EXCEPT ![k] = @ + 1]
                /\ in' = [in EXCEPT ![k] = @ + 1]
                /\ UNCHANGED <<pc, total, closed, forwarder, n, done, counted, dst, passed,
                               collect>>

(* Variant: a write to in does not wait for room.                           *)
WriteUnbounded(k) == PutMetric(k)

(* vec.Collect(ch) sends a metric, and waits for room if there is none ...  *)
Write(k) == in[k] < Buffer /\ PutMetric(k)

(* ... and Scrape returns when all are written.                             *)
ScrapeReturn(k) == /\ pc[k] = "write"
                   /\ sent[k] = total[k]
                   /\ pc' = [pc EXCEPT ![k] = "close"]
                   /\ UNCHANGED <<total, sent, in, closed, forwarder, n, done, counted, dst,
                                  passed, collect>>

(* Variant: in stays open.                                                  *)
CloseForgotten(k) == /\ pc[k] = "close"
                     /\ pc' = [pc EXCEPT ![k] = "wait"]
                     /\ UNCHANGED <<total, sent, in, closed, forwarder, n, done, counted, dst, passed,
                                    collect>>

CloseIn(k) == /\ pc[k] = "close"
              /\ closed' = closed \cup {k}
              /\ pc' = [pc EXCEPT ![k] = "wait"]
              /\ UNCHANGED <<total, sent, in, forwarder, n, done, counted, dst, passed, collect>>

(* Variant: the count is read without waiting for the forwarder.            *)
ReceiveEarly(k) == /\ pc[k] = "wait"
                   /\ counted' = [counted EXCEPT ![k] = n[k]]
                   /\ pc' = [pc EXCEPT ![k] = "returned"]
                   /\ UNCHANGED <<total, sent, in, closed, forwarder, n, done, dst, passed, collect>>

(* <-c.done; instrument sets the gauge and returns.                         *)
Receive(k) == /\ pc[k] = "wait"
              /\ done[k] # None
              /\ counted' = [counted EXCEPT ![k] = done[k]]
              /\ done' = [done EXCEPT ![k] = None]
              /\ pc' = [pc EXCEPT ![k] = "returned"]
              /\ UNCHANGED <<total, sent, in, closed, forwarder, n, dst, passed, collect>>

TakeMetric(k) == /\ forwarder[k] = "recv"
                 /\ in[k] > 0
                 /\ in' = [in EXCEPT ![k] = @ - 1]
                 /\ forwarder' = [forwarder EXCEPT ![k] = "send"]
                 /\ UNCHANGED <<pc, total, sent, closed, n, done, counted, dst, passed,
                                collect>>

(* Variant: the forwarder starts when the channel is closed.                *)
TakeLate(k) == k \in closed /\ TakeMetric(k)

(* The forwarder: for m := range c.in { dst <- m; n++ }                     *)
Take(k) == TakeMetric(k)

Pass(k) == /\ forwarder[k] = "send"
           /\ collect # "returned"
           /\ dst < Capacity
           /\ dst' = dst + 1
           /\ passed' = [passed EXCEPT ![k] = @ + 1]
           /\ n' = [n EXCEPT ![k] = @ + 1]
           /\ forwarder' = [forwarder EXCEPT ![k] = "recv"]
           /\ UNCHANGED <<pc, total, sent, in, closed, done, counted, collect>>

(* Variant: the forwarder ends as soon as the channel is closed.            *)
FinishAtClose(k) == /\ forwarder[k] = "recv"
                    /\ k \in closed
                    /\ forwarder' = [forwarder EXCEPT ![k] = "ended"]
                    /\ done' = [done EXCEPT ![k] = n[k]]
                    /\ UNCHANGED <<pc, total, sent, in, closed, n, counted, dst, passed, collect>>

(* The channel is closed and drained; done has room for the count.          *)
Finish(k) == /\ forwarder[k] = "recv"
             /\ in[k] = 0
             /\ k \in closed
             /\ done[k] = None
             /\ forwarder' = [forwarder EXCEPT ![k] = "ended"]
             /\ done' = [done EXCEPT ![k] = n[k]]
             /\ UNCHANGED <<pc, total, sent, in, closed, n, counted, dst, passed, collect>>

(* The registry takes a metric off its channel.                             *)
Drain == /\ dst > 0
         /\ dst' = dst - 1
         /\ UNCHANGED <<pc, total, sent, in, closed, forwarder, n, done, counted, passed, collect>>

(* group.Wait() returns, the self-metrics are written, Collect returns.     *)
Wait == /\ collect = "run"
        /\ \A k \in Collectors : pc[k] = "returned"
        /\ collect' = "emit"
        /\ UNCHANGED <<pc, total, sent, in, closed, forwarder, n, done, counted, dst, passed>>

Return == /\ collect = "emit"
          /\ collect' = "returned"
          /\ UNCHANGED <<pc, total, sent, in, closed, forwarder, n, done, counted, dst, passed>>

Instrument(k) == Queried(k) \/ Write(k) \/ ScrapeReturn(k) \/ CloseIn(k) \/ Receive(k)
Forward(k)    == Take(k) \/ Pass(k) \/ Finish(k)

Next == \/ \E k \in Collectors : Instrument(k) \/ Forward(k)
        \/ Drain
        \/ Wait
        \/ Return

Spec == Init /\ [][Next]_vars

(* Go runs every goroutine that can run, and the registry reads its channel *)
(* until the end.  The queries of a collector end, with an error at the     *)
(* latest when the collection deadline has passed: that is the fairness of  *)
(* Deadline and Cancel in Exporter.  No deadline ends a write.              *)
FairSpec == /\ Spec
            /\ \A k \in Collectors : /\ WF_vars(Queried(k)) /\ WF_vars(Write(k))
                                     /\ WF_vars(ScrapeReturn(k)) /\ WF_vars(CloseIn(k))
                                     /\ WF_vars(Receive(k)) /\ WF_vars(Take(k))
                                     /\ SF_vars(Pass(k)) /\ WF_vars(Finish(k))
            /\ WF_vars(Drain) /\ WF_vars(Wait) /\ WF_vars(Return)

-------------------------------------------------------------------------------
(* Properties.                                                              *)

InHand(k) == IF forwarder[k] = "send" THEN 1 ELSE 0

TypeOK ==
    /\ pc \in [Collectors -> {"query", "write", "close", "wait", "returned"}]
    /\ total \in [Collectors -> 0 .. MaxMetrics]
    /\ sent \in [Collectors -> Nat] /\ passed \in [Collectors -> Nat]
    /\ in \in [Collectors -> 0 .. Buffer]
    /\ closed \subseteq Collectors
    /\ forwarder \in [Collectors -> {"recv", "send", "ended"}]
    /\ n \in [Collectors -> Nat]
    /\ done \in [Collectors -> Nat \cup {None}]
    /\ counted \in [Collectors -> Nat \cup {None}]
    /\ dst \in 0 .. Capacity
    /\ collect \in {"run", "emit", "returned"}

(* The self-metrics are true when they are emitted: metric_cardinality is   *)
(* the number of metrics the collector wrote in this scrape, and all of     *)
(* them have reached the registry, whether Scrape succeeded or not.         *)
CountIsDelivered ==
    collect # "run" =>
        \A k \in Collectors : counted[k] = sent[k] /\ passed[k] = sent[k]

(* Nothing of the call is at work once Collect has returned and the         *)
(* registry closes its channel: no goroutine is leaked, none has a metric   *)
(* to send.                                                                 *)
NothingLeftBehind ==
    collect = "returned" => \A k \in Collectors : forwarder[k] = "ended" /\ in[k] = 0

(* No two of the goroutines wait for each other, whatever the buffer sizes:  *)
(* until instrument has returned for a collector, one of that collector's   *)
(* own goroutines can go on, or its forwarder waits for the registry, which *)
(* has a metric to read.  It never takes another collector to move on.      *)
CanGoOn(k) ==
    \/ pc[k] = "query"
    \/ pc[k] = "write" /\ (sent[k] = total[k] \/ in[k] < Buffer)
    \/ pc[k] = "close"
    \/ pc[k] = "wait" /\ done[k] # None
    \/ forwarder[k] = "recv" /\ in[k] > 0
    \/ forwarder[k] = "recv" /\ k \in closed /\ done[k] = None
    \/ forwarder[k] = "send" /\ dst < Capacity

NobodyStuck ==
    \A k \in Collectors : pc[k] # "returned" =>
        CanGoOn(k) \/ (forwarder[k] = "send" /\ dst > 0)

(* Collect returns once the queries are over: no writer, forwarder or       *)
(* reader of a count waits for ever on another, whatever the buffer sizes,  *)
(* although a collector has more to write than its channel holds.           *)
CollectReturns == <>(collect = "returned")
===============================================================================

----------------------------- MODULE ProcessProofs -----------------------------
(***************************************************************************)
(* Proofs about Process, for any number of requests, collectors, clients   *)
(* and connections.                                                        *)
(*                                                                         *)
(* Every step of the process is a step of the exporter or leaves it alone  *)
(* (RunsExporter), so what is proved of Exporter holds in the process.     *)
(* Of the rest, Ordered says how far the shutdown of the exporter can be   *)
(* at each place of main, and what the 30 seconds have to do with it.      *)
(***************************************************************************)
EXTENDS Process, ExporterProofs

USE ProcessAssumption

Ordered ==
    /\ phase \notin {"close", "exit 0"} => stop[Main] = "new"
    /\ phase \in {"close", "exit 0"} /\ ~expired => Open = {}
    /\ phase = "exit 0" => stop[Main] \in {"done", "aborted"}
    /\ stop[Main] \in {"new", "select"} => \A i \in Clients : pool[i] = "open"
    /\ stop[Main] = "aborted" => expired

LEMMA StepOfExporter == [ProcessNext]_all => [Next]_vars
  <1> SUFFICES ASSUME [ProcessNext]_all PROVE [Next]_vars
    OBVIOUS
  <1>1. CASE MainStep
    BY <1>1 DEF MainStep, Start, StartFail, SignalReceived, ListenerError, ServerDown,
                Exit, Next, StopStep
  <1>2. CASE Signal \/ ListenFail \/ Expire
    BY <1>2 DEF Signal, ListenFail, Expire
  <1>3. CASE RequestStep
    <2>1. ASSUME NEW s \in Scrapes, Request(s) PROVE Next
      BY <2>1 DEF Request, Next, CollectStep
    <2>2. ASSUME NEW s \in Scrapes, Answer(s) \/ TimeOut(s) PROVE UNCHANGED vars
      BY <2>2 DEF Answer, TimeOut, Respond
    <2>3. QED BY <1>3, <2>1, <2>2 DEF RequestStep
  <1>4. CASE ScrapeWork
    BY <1>4 DEF ScrapeWork, Next, CollectStep
  <1>5. CASE ShutdownWork
    BY <1>5 DEF ShutdownWork, GiveUp, Next, StopStep
  <1>6. CASE UNCHANGED all
    BY <1>6 DEF all
  <1>7. QED BY <1>1, <1>2, <1>3, <1>4, <1>5, <1>6 DEF ProcessNext

(* The exporter of the process behaves as module Exporter says: whatever is *)
(* proved of that holds here.                                               *)
THEOREM RunsExporter == ProcessSpec => Spec
  <1>1. ProcessInit => Init
    BY DEF ProcessInit
  <1>2. QED BY <1>1, StepOfExporter, PTL DEF ProcessSpec, Spec

LEMMA InitOrdered == ProcessInit => ProcessTypeOK /\ Ordered
  <1> SUFFICES ASSUME ProcessInit PROVE ProcessTypeOK /\ Ordered
    OBVIOUS
  <1>1. ProcessTypeOK BY DEF ProcessInit, ProcessTypeOK
  <1>2. Main \in Stops /\ stop[Main] = "new" /\ \A i \in Clients : pool[i] = "open"
    BY DEF ProcessInit, Init
  <1>3. Ordered BY <1>2 DEF ProcessInit, Ordered
  <1>4. QED BY <1>1, <1>3

LEMMA ProcessTypeStep == ProcessTypeOK /\ [ProcessNext]_all => ProcessTypeOK'
  <1> SUFFICES ASSUME ProcessTypeOK, [ProcessNext]_all PROVE ProcessTypeOK'
    OBVIOUS
  <1> USE DEF ProcessTypeOK, ExitCode
  <1>1. CASE MainStep
    BY <1>1 DEF MainStep, Start, StartFail, SignalReceived, ListenerError, ServerDown,
                Exit, Goto
  <1>2. CASE Signal \/ ListenFail \/ Expire
    BY <1>2 DEF Signal, ListenFail, Expire
  <1>3. CASE RequestStep
    <2>1. ASSUME NEW s \in Scrapes, Request(s) PROVE ProcessTypeOK'
      BY <2>1 DEF Request
    <2>2. ASSUME NEW s \in Scrapes, NEW how \in {"answered", "timed out"}, Respond(s, how)
          PROVE  ProcessTypeOK'
      BY <2>2 DEF Respond, Open
    <2>3. QED BY <1>3, <2>1, <2>2 DEF RequestStep, Answer, TimeOut
  <1>4. CASE ScrapeWork \/ ShutdownWork \/ UNCHANGED all
    BY <1>4 DEF ScrapeWork, ShutdownWork, all, main
  <1>5. QED BY <1>1, <1>2, <1>3, <1>4 DEF ProcessNext

(* The steps of the scrapes leave pools and shutdown alone.                 *)
LEMMA ScrapesKeep ==
  ASSUME TypeOK, ScrapeWork
  PROVE  UNCHANGED <<stop, pool, main>>
  <1>1. ASSUME NEW s \in Scrapes, CollectStart(s) \/ CollectEnd(s) PROVE UNCHANGED <<stop, pool>>
    BY <1>1 DEF CollectStart, StartGroup, CollectEnd, Emit, shutdown
  <1>2. ASSUME Deadline PROVE UNCHANGED <<stop, pool>>
    BY <1>2 DEF Deadline, shutdown
  <1>3. ASSUME NEW k \in Collectors, Instrumented(k) PROVE UNCHANGED <<stop, pool>>
    BY <1>3 DEF Instrumented, shutdown
  <1>4. ASSUME NEW w \in Workers, NEW i \in Clients, TaskStep(w, i)
        PROVE  UNCHANGED <<stop, pool>>
    BY <1>4, TaskStepGoes DEF shutdown
  <1>5. QED BY <1>1, <1>2, <1>3, <1>4 DEF ScrapeWork

LEMMA OrderedStep ==
  TypeOK /\ ProcessTypeOK /\ Ordered /\ [ProcessNext]_all => Ordered'
  <1> SUFFICES ASSUME TypeOK, ProcessTypeOK, Ordered, [ProcessNext]_all PROVE Ordered'
    OBVIOUS
  <1> USE DEF ProcessTypeOK, TypeOK, Ordered, ExitCode
  <1>1. CASE MainStep
    <2>1. CASE Start \/ StartFail \/ SignalReceived \/ ListenerError
      BY <2>1 DEF Start, StartFail, SignalReceived, ListenerError, Goto, Open, vars
    <2>2. CASE ServerDown
      BY <2>2 DEF ServerDown, Shutdown, Goto, Open
    <2>3. CASE Exit
      BY <2>3 DEF Exit, Goto, Open, vars
    <2>4. QED BY <1>1, <2>1, <2>2, <2>3 DEF MainStep
  <1>2. CASE Signal \/ ListenFail \/ Expire
    BY <1>2 DEF Signal, ListenFail, Expire, Open, vars
  <1>3. CASE RequestStep
    <2>1. ASSUME NEW s \in Scrapes, Request(s) PROVE Ordered'
      BY <2>1 DEF Request, CollectCall, shutdown, Open
    <2>2. ASSUME NEW s \in Scrapes, NEW how \in {"answered", "timed out"}, Respond(s, how)
          PROVE  Ordered'
      BY <2>2 DEF Respond, Open, vars
    <2>3. QED BY <1>3, <2>1, <2>2 DEF RequestStep, Answer, TimeOut
  <1>4. CASE ScrapeWork
    BY <1>4, ScrapesKeep DEF main, Open
  <1>5. CASE ShutdownWork
    <2>1. CASE LockerLock(Main) \/ SelectLocked(Main)
      BY <1>5, <2>1 DEF ShutdownWork, LockerLock, SelectLocked, main, Open
    <2>2. CASE GiveUp
      BY <1>5, <2>2 DEF ShutdownWork, GiveUp, SelectDone, main, Open
    <2>3. ASSUME NEW i \in Clients, CloseCall(Main, i) \/ CloseReturn(Main, i) PROVE Ordered'
      BY <1>5, <2>3 DEF ShutdownWork, CloseCall, CloseReturn, shutdown, main, Open
    <2>4. CASE ShutdownReturn(Main)
      BY <1>5, <2>4 DEF ShutdownWork, ShutdownReturn, main, Open
    <2>5. QED BY <1>5, <2>1, <2>2, <2>3, <2>4 DEF ShutdownWork
  <1>6. CASE UNCHANGED all
    BY <1>6 DEF all, vars, main, Open
  <1>7. QED BY <1>1, <1>2, <1>3, <1>4, <1>5, <1>6 DEF ProcessNext

LEMMA ProcessInductive == ProcessSpec => [](ProcessTypeOK /\ Ordered)
  <1>1. TypeOK /\ ProcessTypeOK /\ Ordered /\ [ProcessNext]_all => (ProcessTypeOK /\ Ordered)'
    BY ProcessTypeStep, OrderedStep
  <1>2. QED BY <1>1, InitOrdered, RunsExporter, TypeCorrect, PTL DEF ProcessSpec

(* A process that exits within the 30 seconds has answered every request    *)
(* and closed every pool with no connection in use.                         *)
THEOREM ExitsClean == ProcessSpec => []CleanExit
  <1>1. Ordered /\ ShutdownDrains => CleanExit
    BY DEF Ordered, ShutdownDrains, CleanExit
  <1>2. QED BY <1>1, ProcessInductive, RunsExporter, ShutdownDrained, PTL

(* No client that is still waiting is served from pools being closed.       *)
THEOREM ServesFromOpenPools == ProcessSpec => []ServedFromOpenPools
  <1>1. Ordered => ServedFromOpenPools
    BY DEF Ordered, ServedFromOpenPools
  <1>2. QED BY <1>1, ProcessInductive, PTL

-------------------------------------------------------------------------------
(* What the process inherits, and that its exit is not held up.             *)

(* Everything that is proved of the exporter holds of the one main runs.    *)
THEOREM ExporterKept ==
  ProcessSpec => /\ [](NoCloseUnderScrape /\ NoStrayWorker /\ ShutdownDrains)
                 /\ [](HolderGoesOn /\ ErrorsHaveCause /\ ErrorsExplainDown)
                 /\ UpMeansComplete
                 /\ GateSpec
  <1>1. Spec => [](NoCloseUnderScrape /\ NoStrayWorker /\ ShutdownDrains)
    BY ScrapeKeepsPools, WorkersJoined, ShutdownDrained, PTL
  <1>2. Spec => [](HolderGoesOn /\ ErrorsHaveCause /\ ErrorsExplainDown)
    BY NoCircle, ErrorsCaused, ErrorsExplained, PTL
  <1>3. QED BY RunsExporter, <1>1, <1>2, UpComplete, ImplementsGate

(* While main closes the pools every one of them is idle: pool.Close, which *)
(* looks at no context, returns at once, and there is always a next one to  *)
(* close until all are.  What can delay the exit is the wait for the mutex, *)
(* and main gives that up when the 30 seconds are over.                     *)
ClosesAtOnce ==
    stop[Main] = "closing" =>
        /\ \A i \in Clients : InUse(i) = {}
        /\ AllClosed \/ \E i \in Clients : ClosesNext(i)

LEMMA InCloseCalled == ProcessSpec => [](phase \in {"close", "exit 0"} => stop[Main] # "new")
  <1> DEFINE Called == phase \in {"close", "exit 0"} => stop[Main] # "new"
  <1>1. ProcessInit => Called
    BY DEF ProcessInit
  <1>2. TypeOK /\ Called /\ [ProcessNext]_all => Called'
    <2> SUFFICES ASSUME TypeOK, Called, [ProcessNext]_all PROVE Called'
      OBVIOUS
    <2> USE DEF TypeOK
    <2>1. CASE MainStep
      BY <2>1 DEF MainStep, Start, StartFail, SignalReceived, ListenerError, ServerDown,
                  Exit, Goto, Shutdown, vars
    <2>2. CASE Signal \/ ListenFail \/ Expire
      BY <2>2 DEF Signal, ListenFail, Expire, vars
    <2>3. CASE RequestStep
      <3>1. ASSUME NEW s \in Scrapes, Request(s) PROVE Called'
        BY <3>1 DEF Request, CollectCall, shutdown
      <3>2. ASSUME NEW s \in Scrapes, NEW how \in {"answered", "timed out"}, Respond(s, how)
            PROVE  Called'
        BY <3>2 DEF Respond, vars
      <3>3. QED BY <2>3, <3>1, <3>2 DEF RequestStep, Answer, TimeOut
    <2>4. CASE ScrapeWork
      BY <2>4, ScrapesKeep DEF main
    <2>5. CASE ShutdownWork
      BY <2>5 DEF ShutdownWork, GiveUp, LockerLock, SelectLocked, SelectDone, CloseCall,
                  CloseReturn, ShutdownReturn, shutdown, main
    <2>6. CASE UNCHANGED all
      BY <2>6 DEF all, vars, main
    <2>7. QED BY <2>1, <2>2, <2>3, <2>4, <2>5, <2>6 DEF ProcessNext
  <1>3. QED BY <1>1, <1>2, RunsExporter, TypeCorrect, PTL DEF ProcessSpec

(* Once main has called exp.Shutdown, that is waiting for the mutex under   *)
(* the deadline, closing idle pools, or has returned: nothing a server does *)
(* or fails to do keeps the process alive.                                  *)
THEOREM ExitNotHeldUp ==
  ProcessSpec =>
    [](/\ ClosesAtOnce
       /\ phase = "close" => stop[Main] \in {"select", "closing", "done", "aborted"})
  <1>1. IInv /\ HolderGoesOn => ClosesAtOnce
    <2> SUFFICES ASSUME IInv, HolderGoesOn, stop[Main] = "closing"
                 PROVE  /\ \A i \in Clients : InUse(i) = {}
                        /\ AllClosed \/ \E i \in Clients : ClosesNext(i)
      BY DEF ClosesAtOnce
    <2>1. mutex = Main
      BY DEF IInv, Closers, Owners
    <2>2. \A s \in Scrapes : at[s] # "run"
      BY <2>1, ExporterAssumption DEF IInv, Owners
    <2>3. ASSUME NEW k \in Collectors, NEW i \in Clients PROVE task[k][i] # "query"
      BY <2>2 DEF IInv, Joined, Ended
    <2>4. \A i \in Clients : InUse(i) = {}
      BY <2>3 DEF InUse, Workers
    <2>5. AllClosed \/ \E i \in Clients : ClosesNext(i)
      BY <2>1 DEF HolderGoesOn
    <2>6. QED BY <2>4, <2>5
  <1>2. TypeOK /\ (phase \in {"close", "exit 0"} => stop[Main] # "new")
          => (phase = "close" => stop[Main] \in {"select", "closing", "done", "aborted"})
    BY DEF TypeOK
  <1>3. QED BY <1>1, <1>2, RunsExporter, Inductive, NoCircle, TypeCorrect, InCloseCalled, PTL
===============================================================================

---------------------------- MODULE ExporterProofs ----------------------------
(***************************************************************************)
(* Proofs about Exporter, for any number of Collect, Shutdown and          *)
(* HealthCheck calls, collectors, database clients and connections.        *)
(*                                                                         *)
(* The argument: the mutex belongs to the Collect call that runs, or to    *)
(* the Shutdown call whose goroutine has taken it (Owners); only such a    *)
(* Shutdown closes pools (Closers); and errgroup.Wait keeps every          *)
(* goroutine of a collector inside the Collect call (Joined).  A scrape    *)
(* that starts with every pool closed finds each acquisition failing, so   *)
(* no collector succeeds that cannot do without a connection (Refused);    *)
(* that is why the scrape reports up = 0 if there is one.                  *)
(*                                                                         *)
(* What a scrape reports rests on two more: the errors of a running scrape *)
(* are those of the collectors that have returned and failed somewhere     *)
(* (Accounted), and every count of an error is owed to a scrape that has   *)
(* reported 0 or to the one that runs (Explained).                         *)
(***************************************************************************)
EXTENDS Exporter, FiniteSetTheorems, WellFoundedInduction, TLAPS

USE ExporterAssumption

Owners == /\ \A s \in Scrapes : at[s] = "run" <=> mutex = s
          /\ \A t \in Stops : locker[t] = "locked" <=> mutex = t

Closers == /\ \A t \in Stops : stop[t] = "closing" => locker[t] = "locked"
           /\ \A i \in Clients : pool[i] = "closing" => \E t \in Stops : stop[t] = "closing"
           /\ \A t \in Stops : stop[t] = "done" => AllClosed
           /\ \A t \in Stops : stop[t] = "new" => locker[t] = "none"

Joined == /\ (\A s \in Scrapes : at[s] # "run") => running = {}
          /\ \A k \in Collectors \ running, i \in Clients :
                task[k][i] \in Ended \cup {"idle"}

Drained == \A i \in Clients : pool[i] = "closed" => \A w \in Workers : task[w][i] # "query"

Refused == \A s \in Scrapes :
             /\ at[s] # "done" => up[s] = Unknown
             /\ (at[s] = "run" /\ AllClosed) =>
                  \A k \in Collectors \ MaySkip :
                     /\ k \in running => \A i \in Clients : task[k][i] \in {"acquire", "err"}
                     /\ k \notin running => k \in failed

IInv == TypeOK /\ Owners /\ Closers /\ Joined /\ Drained /\ Refused

LEMMA InitIInv == Init => IInv
  <1> SUFFICES ASSUME Init PROVE IInv
    OBVIOUS
  <1> USE DEF Init
  <1>1. TypeOK  BY DEF TypeOK
  <1>2. Owners  BY DEF Owners
  <1>3. Closers BY DEF Closers
  <1>4. Joined  BY DEF Joined, Workers
  <1>5. Drained BY DEF Drained
  <1>6. Refused BY DEF Refused
  <1>7. QED BY <1>1, <1>2, <1>3, <1>4, <1>5, <1>6 DEF IInv

(* A step of a goroutine that uses a pool changes the state of one worker   *)
(* with one client and, of the rest, only the history variable.             *)
LEMMA TaskStepGoes ==
  ASSUME TypeOK, NEW w \in Workers, NEW i \in Clients, TaskStep(w, i)
  PROVE  /\ culprits' \subseteq Collectors
         /\ UNCHANGED <<mutex, scrape, running, failed, errors, shutdown, pool>>
         /\ task[w][i] \in {"acquire", "query"}
         /\ \E v \in {"query"} \cup Ended :
               /\ task' = [task EXCEPT ![w][i] = v]
               /\ v = "query" => pool[i] = "open"
  BY DEF TaskStep, Acquire, AcquireFail, Skip, QueryDone, QueryFail, Cancel, Goes,
         Blames, TypeOK, Ended

(* An assignment to one place of a function of functions.                   *)
LEMMA TwoLevelExcept ==
  ASSUME NEW T, NEW f \in [Workers -> [Clients -> T]], NEW v \in T,
         NEW w \in Workers, NEW i \in Clients, NEW x \in Workers, NEW j \in Clients
  PROVE  [f EXCEPT ![w][i] = v][x][j] = IF x = w /\ j = i THEN v ELSE f[x][j]
  <1>1. CASE x = w BY <1>1
  <1>2. CASE x # w BY <1>2
  <1>3. QED BY <1>1, <1>2

(* The same, for the state of each worker with each client.                 *)
LEMMA TaskStepAt ==
  ASSUME TypeOK, NEW w \in Workers, NEW i \in Clients, TaskStep(w, i)
  PROVE  \E v \in {"query"} \cup Ended :
            /\ v = "query" => pool[i] = "open"
            /\ \A x \in Workers, j \in Clients :
                  task'[x][j] = IF x = w /\ j = i THEN v ELSE task[x][j]
  <1>1. task \in [Workers -> [Clients -> {"idle", "acquire", "query"} \cup Ended]]
    BY DEF TypeOK
  <1>2. PICK v \in {"query"} \cup Ended : /\ task' = [task EXCEPT ![w][i] = v]
                                          /\ v = "query" => pool[i] = "open"
    BY TaskStepGoes
  <1>3. v \in {"idle", "acquire", "query"} \cup Ended
    OBVIOUS
  <1>4. \A x \in Workers, j \in Clients :
           [task EXCEPT ![w][i] = v][x][j] = IF x = w /\ j = i THEN v ELSE task[x][j]
    BY <1>1, <1>3, TwoLevelExcept
  <1>5. \A x \in Workers, j \in Clients :
           task'[x][j] = IF x = w /\ j = i THEN v ELSE task[x][j]
    <2>1. task' = [task EXCEPT ![w][i] = v]  BY <1>2
    <2>2. QED BY <2>1, <1>4, Zenon
  <1>6. v = "query" => pool[i] = "open"  BY <1>2
  <1>7. QED BY <1>5, <1>6, Zenon

(* Every variable keeps its type.                                           *)
LEMMA TypeStep == TypeOK /\ [Next]_vars => TypeOK'
  <1> SUFFICES ASSUME TypeOK, [Next]_vars PROVE TypeOK'
    OBVIOUS
  <1> USE DEF TypeOK, Ended, scrape, group, shutdown
  <1>1. ASSUME NEW s \in Scrapes, CollectStep(s) PROVE TypeOK'
    <2>1. CASE CollectCall(s)  BY <2>1 DEF CollectCall
    <2>2. CASE CollectStart(s) BY <2>2 DEF CollectStart, StartGroup, Workers
    <2>3. CASE CollectEnd(s)   BY <2>3 DEF CollectEnd, Emit
    <2>4. QED BY <1>1, <2>1, <2>2, <2>3 DEF CollectStep
  <1>2. CASE Deadline BY <1>2 DEF Deadline
  <1>3. ASSUME NEW k \in Collectors, Instrumented(k) PROVE TypeOK'
    <2>1. errors' \in [Collectors -> Nat]
      BY <1>3 DEF Instrumented
    <2>2. failed' \subseteq Collectors
      BY <1>3 DEF Instrumented
    <2>3. QED BY <1>3, <2>1, <2>2 DEF Instrumented
  <1>4. ASSUME NEW w \in Workers, NEW i \in Clients, TaskStep(w, i) PROVE TypeOK'
    <2>1. PICK v \in {"query"} \cup Ended : task' = [task EXCEPT ![w][i] = v]
      BY <1>4, TaskStepGoes
    <2>2. task' \in [Workers -> [Clients -> {"idle", "acquire", "query"} \cup Ended]]
      BY <2>1
    <2>3. QED BY <1>4, <2>2, TaskStepGoes
  <1>5. ASSUME NEW p \in Pings, HealthCheck(p) PROVE TypeOK'
    BY <1>5 DEF HealthCheck, Workers
  <1>6. ASSUME NEW t \in Stops, StopStep(t) PROVE TypeOK'
    <2>1. CASE Shutdown(t) BY <2>1 DEF Shutdown
    <2>2. CASE LockerLock(t) BY <2>2 DEF LockerLock
    <2>3. CASE SelectLocked(t) BY <2>3 DEF SelectLocked
    <2>4. CASE SelectDone(t) BY <2>4 DEF SelectDone
    <2>5. ASSUME NEW i \in Clients, CloseCall(t, i) \/ CloseReturn(t, i) PROVE TypeOK'
      BY <2>5 DEF CloseCall, CloseReturn
    <2>6. CASE ShutdownReturn(t) BY <2>6 DEF ShutdownReturn
    <2>7. QED BY <1>6, <2>1, <2>2, <2>3, <2>4, <2>5, <2>6 DEF StopStep
  <1>7. CASE UNCHANGED vars BY <1>7 DEF vars
  <1>8. QED BY <1>1, <1>2, <1>3, <1>4, <1>5, <1>6, <1>7 DEF Next

(* The mutex has one owner.                                                 *)
LEMMA OwnersStep == TypeOK /\ Owners /\ Closers /\ [Next]_vars => Owners'
  <1> SUFFICES ASSUME TypeOK, Owners, Closers, [Next]_vars PROVE Owners'
    OBVIOUS
  <1> USE DEF TypeOK, Owners, Closers, scrape, group, shutdown
  <1>1. ASSUME NEW s \in Scrapes, CollectStep(s) PROVE Owners'
    BY <1>1 DEF CollectStep, CollectCall, CollectStart, StartGroup, CollectEnd, Emit
  <1>2. CASE Deadline BY <1>2 DEF Deadline
  <1>3. ASSUME NEW k \in Collectors, Instrumented(k) PROVE Owners'
    BY <1>3 DEF Instrumented
  <1>4. ASSUME NEW w \in Workers, NEW i \in Clients, TaskStep(w, i) PROVE Owners'
    BY <1>4, TaskStepGoes
  <1>5. ASSUME NEW p \in Pings, HealthCheck(p) PROVE Owners'
    BY <1>5 DEF HealthCheck
  <1>6. ASSUME NEW t \in Stops, StopStep(t) PROVE Owners'
    <2>1. CASE Shutdown(t)
      <3>1. locker[t] # "locked"
        BY <2>1 DEF Shutdown
      <3>2. QED BY <2>1, <3>1 DEF Shutdown
    <2>2. CASE LockerLock(t)     BY <2>2 DEF LockerLock
    <2>3. CASE SelectLocked(t)   BY <2>3 DEF SelectLocked
    <2>4. CASE SelectDone(t)     BY <2>4 DEF SelectDone
    <2>5. ASSUME NEW i \in Clients, CloseCall(t, i) \/ CloseReturn(t, i) PROVE Owners'
      BY <2>5 DEF CloseCall, CloseReturn
    <2>6. CASE ShutdownReturn(t) BY <2>6 DEF ShutdownReturn
    <2>7. QED BY <1>6, <2>1, <2>2, <2>3, <2>4, <2>5, <2>6 DEF StopStep
  <1>7. CASE UNCHANGED vars BY <1>7 DEF vars
  <1>8. QED BY <1>1, <1>2, <1>3, <1>4, <1>5, <1>6, <1>7 DEF Next

(* Only a Shutdown call whose goroutine has the mutex closes pools, and it  *)
(* returns nil with every pool closed.                                      *)
LEMMA ClosersStep == TypeOK /\ Closers /\ [Next]_vars => Closers'
  <1> SUFFICES ASSUME TypeOK, Closers, [Next]_vars PROVE Closers'
    OBVIOUS
  <1> USE DEF TypeOK, Closers, AllClosed, scrape, group, shutdown
  <1>1. ASSUME NEW s \in Scrapes, CollectStep(s) PROVE Closers'
    BY <1>1 DEF CollectStep, CollectCall, CollectStart, StartGroup, CollectEnd, Emit
  <1>2. CASE Deadline BY <1>2 DEF Deadline
  <1>3. ASSUME NEW k \in Collectors, Instrumented(k) PROVE Closers'
    BY <1>3 DEF Instrumented
  <1>4. ASSUME NEW w \in Workers, NEW i \in Clients, TaskStep(w, i) PROVE Closers'
    BY <1>4, TaskStepGoes
  <1>5. ASSUME NEW p \in Pings, HealthCheck(p) PROVE Closers'
    BY <1>5 DEF HealthCheck
  <1>6. ASSUME NEW t \in Stops, StopStep(t) PROVE Closers'
    <2>1. CASE Shutdown(t)       BY <2>1 DEF Shutdown
    <2>2. CASE LockerLock(t)     BY <2>2 DEF LockerLock
    <2>3. CASE SelectLocked(t)   BY <2>3 DEF SelectLocked
    <2>4. CASE SelectDone(t)     BY <2>4 DEF SelectDone
    <2>5. ASSUME NEW i \in Clients, CloseCall(t, i) PROVE Closers'
      BY <2>5 DEF CloseCall
    <2>6. ASSUME NEW i \in Clients, CloseReturn(t, i) PROVE Closers'
      BY <2>6 DEF CloseReturn
    <2>7. CASE ShutdownReturn(t) BY <2>7 DEF ShutdownReturn
    <2>8. QED BY <1>6, <2>1, <2>2, <2>3, <2>4, <2>5, <2>6, <2>7 DEF StopStep
  <1>7. CASE UNCHANGED vars BY <1>7 DEF vars
  <1>8. QED BY <1>1, <1>2, <1>3, <1>4, <1>5, <1>6, <1>7 DEF Next

(* group.Wait() keeps the goroutines of the collectors inside the Collect   *)
(* call that started them.                                                  *)
LEMMA JoinedStep == TypeOK /\ Owners /\ Joined /\ [Next]_vars => Joined'
  <1> SUFFICES ASSUME TypeOK, Owners, Joined, [Next]_vars PROVE Joined'
    OBVIOUS
  <1> USE DEF TypeOK, Joined, scrape, group, shutdown
  <1>1. ASSUME NEW s \in Scrapes, CollectStep(s) PROVE Joined'
    <2>1. CASE CollectCall(s)  BY <2>1 DEF CollectCall
    <2>2. CASE CollectStart(s) BY <2>2 DEF CollectStart, StartGroup
    <2>3. CASE CollectEnd(s)   BY <2>3 DEF CollectEnd, Emit
    <2>4. QED BY <1>1, <2>1, <2>2, <2>3 DEF CollectStep
  <1>2. CASE Deadline BY <1>2 DEF Deadline
  <1>3. ASSUME NEW k \in Collectors, Instrumented(k) PROVE Joined'
    BY <1>3 DEF Instrumented, HasEnded
  <1>4. ASSUME NEW w \in Workers, NEW i \in Clients, TaskStep(w, i) PROVE Joined'
    <2>1. w \notin Collectors \ running
      BY <1>4, TaskStepGoes DEF Ended
    <2>2. \A k \in Collectors : k # w => task'[k] = task[k]
      BY <1>4, TaskStepGoes DEF Workers
    <2>3. QED BY <1>4, <2>1, <2>2, TaskStepGoes
  <1>5. ASSUME NEW p \in Pings, HealthCheck(p) PROVE Joined'
    BY <1>5 DEF HealthCheck, Workers
  <1>6. ASSUME NEW t \in Stops, StopStep(t) PROVE Joined'
    BY <1>6 DEF StopStep, Shutdown, LockerLock, SelectLocked, SelectDone,
                CloseCall, CloseReturn, ShutdownReturn
  <1>7. CASE UNCHANGED vars BY <1>7 DEF vars
  <1>8. QED BY <1>1, <1>2, <1>3, <1>4, <1>5, <1>6, <1>7 DEF Next

(* A closed pool has no connection in use: Close waited for them, and none  *)
(* can be acquired afterwards.                                              *)
LEMMA DrainedStep == TypeOK /\ Drained /\ [Next]_vars => Drained'
  <1> SUFFICES ASSUME TypeOK, Drained, [Next]_vars PROVE Drained'
    OBVIOUS
  <1> USE DEF Drained, scrape, group, shutdown
  <1>1. ASSUME NEW s \in Scrapes, CollectStep(s) PROVE Drained'
    BY <1>1 DEF TypeOK, CollectStep, CollectCall, CollectStart, StartGroup, CollectEnd, Emit
  <1>2. CASE Deadline BY <1>2 DEF Deadline
  <1>3. ASSUME NEW k \in Collectors, Instrumented(k) PROVE Drained'
    BY <1>3 DEF Instrumented
  <1>4. ASSUME NEW w \in Workers, NEW i \in Clients, TaskStep(w, i) PROVE Drained'
    <2>1. PICK v \in {"query"} \cup Ended :
              /\ v = "query" => pool[i] = "open"
              /\ \A x \in Workers, j \in Clients :
                    task'[x][j] = IF x = w /\ j = i THEN v ELSE task[x][j]
      BY <1>4, TaskStepAt
    <2>2. pool' = pool
      BY <1>4, TaskStepGoes
    <2>3. ASSUME NEW j \in Clients, pool[j] = "closed", NEW x \in Workers
          PROVE  task'[x][j] # "query"
      BY <2>1, <2>3
    <2>4. QED BY <2>2, <2>3
  <1>5. ASSUME NEW p \in Pings, HealthCheck(p) PROVE Drained'
    BY <1>5 DEF TypeOK, HealthCheck
  <1>6. ASSUME NEW t \in Stops, StopStep(t) PROVE Drained'
    BY <1>6 DEF TypeOK, StopStep, Shutdown, LockerLock, SelectLocked, SelectDone,
                CloseCall, CloseReturn, ShutdownReturn, InUse
  <1>7. CASE UNCHANGED vars BY <1>7 DEF vars
  <1>8. QED BY <1>1, <1>2, <1>3, <1>4, <1>5, <1>6, <1>7 DEF Next

(* In a scrape that started with every pool closed each collector fails     *)
(* that cannot do without a connection.                                     *)
LEMMA RefusedStep == TypeOK /\ Owners /\ Closers /\ Refused /\ [Next]_vars => Refused'
  <1> SUFFICES ASSUME TypeOK, Owners, Closers, Refused, [Next]_vars PROVE Refused'
    OBVIOUS
  <1> USE DEF TypeOK, Refused, AllClosed, scrape, group, shutdown
  <1>1. ASSUME NEW s \in Scrapes, CollectStep(s) PROVE Refused'
    <2>1. CASE CollectCall(s)  BY <2>1 DEF CollectCall
    <2>2. CASE CollectStart(s) BY <2>2 DEF CollectStart, StartGroup, Workers
    <2>3. CASE CollectEnd(s)   BY <2>3 DEF CollectEnd, Emit
    <2>4. QED BY <1>1, <2>1, <2>2, <2>3 DEF CollectStep
  <1>2. CASE Deadline BY <1>2 DEF Deadline
  <1>3. ASSUME NEW k \in Collectors, Instrumented(k) PROVE Refused'
    <2>1. CASE HasError(k)  BY <1>3, <2>1 DEF Instrumented
    <2>2. CASE ~HasError(k)
      <3>1. \E i \in Clients : task[k][i] = "ok"
        <4>1. HasEnded(k)    BY <1>3 DEF Instrumented
        <4>2. 1 \in Clients  BY DEF Clients
        <4>3. task[k][1] = "ok"
          BY <2>2, <4>1, <4>2, Zenon DEF HasError, HasEnded, Ended
        <4>4. QED BY <4>2, <4>3, Zenon
      <3>2. \A s \in Scrapes : at[s] = "run" => ~AllClosed \/ k \in MaySkip
        BY <1>3, <3>1 DEF Instrumented
      <3>3. QED BY <1>3, <2>2, <3>2 DEF Instrumented
    <2>3. QED BY <2>1, <2>2
  <1>4. ASSUME NEW w \in Workers, NEW i \in Clients, TaskStep(w, i) PROVE Refused'
    <2>1. UNCHANGED <<scrape, running, failed, pool>>
      BY <1>4, TaskStepGoes
    <2>2. ASSUME NEW s \in Scrapes, at[s] = "run", AllClosed,
                 NEW k \in running \ MaySkip, NEW j \in Clients
          PROVE  task'[k][j] \in {"acquire", "err"}
      <3>1. task[k][j] \in {"acquire", "err"}
        BY <2>2
      <3>2. CASE k = w /\ j = i
        <4>1. task[w][i] = "acquire" /\ pool[i] # "open"
          BY <1>4, <2>2, <3>1, <3>2, TaskStepGoes
        <4>2. task'[w][i] = "err"
          BY <1>4, <2>2, <3>2, <4>1 DEF TaskStep, Acquire, AcquireFail, Skip, QueryDone, QueryFail,
                             Cancel, Goes, Workers
        <4>3. QED BY <3>2, <4>2
      <3>3. CASE ~(k = w /\ j = i)
        BY <1>4, <3>1, <3>3, TaskStepAt DEF Workers
      <3>4. QED BY <3>2, <3>3
    <2>3. QED BY <2>1, <2>2
  <1>5. ASSUME NEW p \in Pings, HealthCheck(p) PROVE Refused'
    BY <1>5 DEF HealthCheck, Workers
  <1>6. ASSUME NEW t \in Stops, StopStep(t) PROVE Refused'
    <2>1. CASE Shutdown(t)       BY <2>1 DEF Shutdown
    <2>2. CASE LockerLock(t)     BY <2>2 DEF LockerLock
    <2>3. CASE SelectLocked(t)   BY <2>3 DEF SelectLocked
    <2>4. CASE SelectDone(t)     BY <2>4 DEF SelectDone
    <2>5. ASSUME NEW i \in Clients, CloseCall(t, i) PROVE Refused'
      BY <2>5 DEF CloseCall
    <2>6. ASSUME NEW i \in Clients, CloseReturn(t, i) PROVE Refused'
      <3>1. \A s \in Scrapes : at[s] # "run"
        BY <2>6 DEF CloseReturn, Owners, Closers
      <3>2. QED BY <2>6, <3>1 DEF CloseReturn
    <2>7. CASE ShutdownReturn(t) BY <2>7 DEF ShutdownReturn
    <2>8. QED BY <1>6, <2>1, <2>2, <2>3, <2>4, <2>5, <2>6, <2>7 DEF StopStep
  <1>7. CASE UNCHANGED vars BY <1>7 DEF vars
  <1>8. QED BY <1>1, <1>2, <1>3, <1>4, <1>5, <1>6, <1>7 DEF Next

LEMMA Inductive == Spec => []IInv
  <1>1. IInv /\ [Next]_vars => IInv'
    BY TypeStep, OwnersStep, ClosersStep, JoinedStep, DrainedStep,
       RefusedStep DEF IInv
  <1>2. QED BY InitIInv, <1>1, PTL DEF Spec

(* The exporter's variables keep their types.                               *)
THEOREM TypeCorrect == Spec => []TypeOK
  BY Inductive, PTL DEF IInv

(* Shutdown never closes a pool under a running scrape.                     *)
THEOREM ScrapeKeepsPools == Spec => []NoCloseUnderScrape
  <1>1. IInv => NoCloseUnderScrape
    BY DEF IInv, TypeOK, Owners, Closers, NoCloseUnderScrape
  <1>2. QED BY <1>1, Inductive, PTL

(* No goroutine of a collector outlives the Collect call it belongs to.     *)
THEOREM WorkersJoined == Spec => []NoStrayWorker
  <1>1. IInv => NoStrayWorker
    BY DEF IInv, Joined, NoStrayWorker
  <1>2. QED BY <1>1, Inductive, PTL

(* When Shutdown has returned nil every pool is closed and every connection *)
(* has been given back.                                                     *)
THEOREM ShutdownDrained == Spec => []ShutdownDrains
  <1>1. IInv => ShutdownDrains
    BY DEF IInv, Closers, Drained, ShutdownDrains, AllClosed, InUse
  <1>2. QED BY <1>1, Inductive, PTL

-------------------------------------------------------------------------------
(* No circle of waits.                                                      *)

(* The goroutines of a collector that is running have started, and a        *)
(* Shutdown that has returned nil has no goroutine left that would take the *)
(* mutex.                                                                   *)
Underway == /\ \A k \in running, i \in Clients : task[k][i] # "idle"
            /\ \A t \in Stops : stop[t] = "done" => locker[t] = "none"

LEMMA UnderwayStep == TypeOK /\ Underway /\ [Next]_vars => Underway'
  <1> SUFFICES ASSUME TypeOK, Underway, [Next]_vars PROVE Underway'
    OBVIOUS
  <1> USE DEF TypeOK, Underway, scrape, group, shutdown
  <1>1. ASSUME NEW s \in Scrapes, CollectStep(s) PROVE Underway'
    <2>1. CASE CollectCall(s)  BY <2>1 DEF CollectCall
    <2>2. CASE CollectStart(s) BY <2>2 DEF CollectStart, StartGroup, Workers
    <2>3. CASE CollectEnd(s)   BY <2>3 DEF CollectEnd, Emit
    <2>4. QED BY <1>1, <2>1, <2>2, <2>3 DEF CollectStep
  <1>2. CASE Deadline BY <1>2 DEF Deadline
  <1>3. ASSUME NEW k \in Collectors, Instrumented(k) PROVE Underway'
    BY <1>3 DEF Instrumented
  <1>4. ASSUME NEW w \in Workers, NEW i \in Clients, TaskStep(w, i) PROVE Underway'
    <2>1. PICK v \in {"query"} \cup Ended :
             \A x \in Workers, j \in Clients :
                task'[x][j] = IF x = w /\ j = i THEN v ELSE task[x][j]
      BY <1>4, TaskStepAt
    <2>2. \A k \in running, j \in Clients : task'[k][j] # "idle"
      BY <2>1 DEF Ended, Workers
    <2>3. UNCHANGED <<running, stop, locker>>
      BY <1>4, TaskStepGoes
    <2>4. QED BY <2>2, <2>3
  <1>5. ASSUME NEW p \in Pings, HealthCheck(p) PROVE Underway'
    BY <1>5 DEF HealthCheck, Workers
  <1>6. ASSUME NEW t \in Stops, StopStep(t) PROVE Underway'
    BY <1>6 DEF StopStep, Shutdown, LockerLock, SelectLocked, SelectDone,
                CloseCall, CloseReturn, ShutdownReturn
  <1>7. CASE UNCHANGED vars BY <1>7 DEF vars
  <1>8. QED BY <1>1, <1>2, <1>3, <1>4, <1>5, <1>6, <1>7 DEF Next

LEMMA UnderwayAlways == Spec => [](IInv /\ Underway)
  <1>1. Init => Underway
    BY DEF Init, Underway
  <1>2. IInv /\ Underway /\ [Next]_vars => Underway'
    BY UnderwayStep DEF IInv
  <1>3. QED BY <1>1, <1>2, Inductive, PTL DEF Spec

(* The pools are closed in order: one that is not closed has a first.       *)
LEMMA LeastOf ==
  ASSUME NEW T, T \subseteq Nat, T # {}
  PROVE  \E m \in T : \A n \in T : ~ (n < m)
  <1> DEFINE R == {ss \in Nat \X Nat : ss[1] < ss[2]}
  <1>1. IsWellFoundedOn(R, Nat)
    BY NatLessThanWellFounded, Zenon DEF OpToRel
  <1>2. PICK m \in T : \A n \in T : <<n, m>> \notin R
    <2> HIDE DEF R
    <2>1. QED BY <1>1, WFMin
  <1>3. \A n \in T : ~(n < m)
    BY <1>2
  <1>4. QED BY <1>3

(* The mutex never goes round in a circle: a scrape that holds it ends by   *)
(* its own context, and a Shutdown that holds it closes a pool that at most *)
(* HealthChecks use, for any number of calls, pools and connections.        *)
THEOREM NoCircle == Spec => []HolderGoesOn
  <1>1. IInv /\ Underway => HolderGoesOn
    <2> SUFFICES ASSUME IInv, Underway PROVE HolderGoesOn
      OBVIOUS
    <2>1. ASSUME NEW s \in Scrapes, mutex = s
          PROVE  /\ at[s] = "run"
                 /\ \A k \in running, i \in Clients : task[k][i] # "idle"
      BY <2>1 DEF IInv, Owners, Underway
    <2>2. ASSUME NEW t \in Stops, mutex = t
          PROVE  \/ stop[t] \in {"select", "aborted"}
                 \/ stop[t] = "closing" /\ (AllClosed \/ \E i \in Clients : ClosesNext(i))
      <3>1. locker[t] = "locked"
        BY <2>2 DEF IInv, Owners
      <3>2. stop[t] \in {"select", "aborted", "closing"}
        BY <3>1 DEF IInv, TypeOK, Closers, Underway
      <3>3. ASSUME ~AllClosed PROVE \E i \in Clients : ClosesNext(i)
        <4> DEFINE T == {i \in Clients : pool[i] # "closed"}
        <4>1. T # {} /\ T \subseteq Nat
          BY <3>3 DEF AllClosed, Clients
        <4>2. PICK i \in T : \A j \in T : ~(j < i)
          <5> HIDE DEF T
          <5>1. QED BY <4>1, LeastOf
        <4>3. \A j \in 1 .. i - 1 : pool[j] = "closed"
          BY <4>2 DEF Clients
        <4>4. \A s \in Scrapes : at[s] # "run"
          BY <2>2 DEF IInv, Owners
        <4>5. InUse(i) \subseteq Pings
          BY <4>2, <4>4 DEF IInv, Joined, InUse, Workers, Ended
        <4>6. QED BY <4>2, <4>3, <4>5 DEF ClosesNext
      <3>4. QED BY <3>2, <3>3
    <2>3. QED BY <2>1, <2>2 DEF HolderGoesOn
  <1>2. QED BY <1>1, UnderwayAlways, PTL

(* A goroutine of a scrape goes forward.                                    *)
Onward(a, b) == \/ b = a
                \/ a = "acquire" /\ b \in {"query"} \cup Ended
                \/ a = "query" /\ b \in Ended

(* A running scrape is left alone: no other call of Collect restarts its    *)
(* goroutines, gives it a new context or clears the failures that decide    *)
(* what it reports, and it goes nowhere but to its end.  With NoCircle: it  *)
(* makes a bounded number of steps and is not stuck before the last.        *)
LeftAlone(s) ==
    \/ /\ at'[s] = "run"
       /\ ctx = "expired" => ctx' = "expired"
       /\ running' \subseteq running
       /\ failed \subseteq failed' /\ culprits \subseteq culprits'
       /\ \A k \in Collectors, i \in Clients : Onward(task[k][i], task'[k][i])
    \/ at'[s] = "done" /\ up[s] = Unknown /\ up'[s] \in {0, 1} /\ UNCHANGED task

ScrapeIsolated == [][\A s \in Scrapes : at[s] = "run" => LeftAlone(s)]_vars

THEOREM ScrapeUndisturbed == Spec => ScrapeIsolated
  <1>1. ASSUME IInv, [Next]_vars, NEW s \in Scrapes, at[s] = "run" PROVE LeftAlone(s)
    <2> USE <1>1 DEF LeftAlone, scrape, group, shutdown
    <2>0. TypeOK /\ mutex = s /\ up[s] = Unknown
      BY DEF IInv, Owners, Refused
    <2>1. ASSUME NEW r \in Scrapes, CollectStep(r) PROVE LeftAlone(s)
      <3>1. CASE CollectCall(r)
        BY <2>0, <3>1 DEF CollectCall, TypeOK, Onward
      <3>2. CASE CollectStart(r)
        BY <2>0, <3>2 DEF CollectStart
      <3>3. CASE CollectEnd(r)
        <4>1. r = s
          BY <2>0, <3>3 DEF CollectEnd, Emit, IInv, Owners
        <4>2. QED BY <2>0, <3>3, <4>1 DEF CollectEnd, Emit, TypeOK
      <3>4. QED BY <2>1, <3>1, <3>2, <3>3 DEF CollectStep
    <2>2. CASE Deadline
      BY <2>2 DEF Deadline, Onward
    <2>3. ASSUME NEW k \in Collectors, Instrumented(k) PROVE LeftAlone(s)
      BY <2>3 DEF Instrumented, Onward
    <2>4. ASSUME NEW w \in Workers, NEW i \in Clients, TaskStep(w, i) PROVE LeftAlone(s)
      <3>1. PICK v \in {"query"} \cup Ended :
               \A x \in Workers, j \in Clients :
                  task'[x][j] = IF x = w /\ j = i THEN v ELSE task[x][j]
        BY <2>0, <2>4, TaskStepAt
      <3>2. /\ UNCHANGED <<at, ctx, running, failed>>
            /\ task[w][i] \in {"acquire", "query"}
        BY <2>0, <2>4, TaskStepGoes
      <3>3. culprits \subseteq culprits'
        BY <2>4 DEF TaskStep, Acquire, AcquireFail, Skip, QueryDone, QueryFail, Cancel, Blames
      <3>4. task[w][i] = "query" => v # "query"
        <4>1. task'[w][i] = v
          BY <3>1
        <4>2. task[w][i] = "query" => task'[w][i] \in Ended
          <5>1. ASSUME NEW f, NEW t \in Ended, Goes(w, i, f, t) PROVE task'[w][i] \in Ended
            BY <2>0, <5>1 DEF Goes, TypeOK
          <5>2. QED
            BY <2>4, <5>1 DEF TaskStep, Acquire, AcquireFail, Skip, QueryDone, QueryFail, Cancel,
                              Goes, Ended
        <4>3. QED BY <4>1, <4>2 DEF Ended
      <3>5. \A k \in Collectors, j \in Clients : Onward(task[k][j], task'[k][j])
        BY <3>1, <3>2, <3>4 DEF Onward, Workers, Ended
      <3>6. QED BY <3>2, <3>3, <3>5
    <2>5. ASSUME NEW p \in Pings, HealthCheck(p) PROVE LeftAlone(s)
      BY <2>0, <2>5 DEF HealthCheck, Onward, Workers, TypeOK
    <2>6. ASSUME NEW t \in Stops, StopStep(t) PROVE LeftAlone(s)
      BY <2>6 DEF StopStep, Shutdown, LockerLock, SelectLocked, SelectDone, CloseCall,
                  CloseReturn, ShutdownReturn, Onward
    <2>7. CASE UNCHANGED vars
      BY <2>7 DEF vars, Onward
    <2>8. QED BY <2>1, <2>2, <2>3, <2>4, <2>5, <2>6, <2>7 DEF Next
  <1>2. IInv /\ [Next]_vars => \A s \in Scrapes : at[s] = "run" => LeftAlone(s)
    BY <1>1
  <1>3. QED BY <1>2, Inductive, PTL DEF Spec, ScrapeIsolated

-------------------------------------------------------------------------------
(* What a scrape reports: why it failed, and that it did if a part of it    *)
(* did.                                                                     *)

(* Whoever has an error in this scrape has it from a query of a collector   *)
(* that failed by itself, or from the deadline.                             *)
Caused == failed # {} \/ (\E k \in Collectors : HasError(k)) => culprits # {}

LEMMA CausedStep == TypeOK /\ Caused /\ [Next]_vars => Caused'
  <1> SUFFICES ASSUME TypeOK, Caused, [Next]_vars PROVE Caused'
    OBVIOUS
  <1> USE DEF Caused, HasError, scrape, group, shutdown
  <1>1. ASSUME NEW s \in Scrapes, CollectStep(s) PROVE Caused'
    <2>1. CASE CollectCall(s) BY <2>1 DEF CollectCall
    <2>2. CASE CollectStart(s)
      <3>1. failed' = {}  BY <2>2 DEF CollectStart, StartGroup
      <3>2. \A k \in Collectors, i \in Clients : task'[k][i] = "acquire"
        BY <2>2 DEF CollectStart, StartGroup, Workers
      <3>3. QED BY <3>1, <3>2
    <2>3. CASE CollectEnd(s)  BY <2>3 DEF CollectEnd, Emit
    <2>4. QED BY <1>1, <2>1, <2>2, <2>3 DEF CollectStep
  <1>2. CASE Deadline BY <1>2 DEF Deadline
  <1>3. ASSUME NEW k \in Collectors, Instrumented(k) PROVE Caused'
    BY <1>3 DEF Instrumented
  <1>4. ASSUME NEW w \in Workers, NEW i \in Clients, TaskStep(w, i) PROVE Caused'
    <2>1. PICK v \in {"query"} \cup Ended :
             \A x \in Workers, j \in Clients :
                task'[x][j] = IF x = w /\ j = i THEN v ELSE task[x][j]
      BY <1>4, TaskStepAt
    <2>2. failed' = failed  BY <1>4, TaskStepGoes DEF group
    <2>3. culprits \subseteq culprits'
      BY <1>4 DEF TaskStep, Acquire, AcquireFail, Skip, QueryDone, QueryFail, Cancel, Blames
    <2>4. CASE culprits # {} BY <2>3, <2>4
    <2>5. CASE culprits = {}
      <3>1. failed = {} /\ \A k \in Collectors, j \in Clients : task[k][j] # "err"
        BY <2>5
      <3>2. CASE v # "err" \/ w \notin Collectors
        BY <2>1, <2>2, <3>1, <3>2 DEF Workers
      <3>3. CASE v = "err" /\ w \in Collectors
        <4>1. task'[w][i] = "err"  BY <2>1, <3>3
        <4>2. ~Acquire(w, i) /\ ~Skip(w, i) /\ ~QueryDone(w, i)
          BY <4>1, <1>4 DEF Acquire, Skip, QueryDone, Goes, TypeOK
        <4>3. Cancel(w, i) => ctx = "expired"
          BY <3>1, <3>3 DEF Cancel, Cancelled, ExporterAssumption
        <4>4. Blames(w)
          BY <1>4, <4>2, <4>3 DEF TaskStep, AcquireFail, QueryFail, Cancel
        <4>5. QED BY <4>4, <3>3 DEF Blames
      <3>4. QED BY <3>2, <3>3
    <2>6. QED BY <2>4, <2>5
  <1>5. ASSUME NEW p \in Pings, HealthCheck(p) PROVE Caused'
    <2>1. \A k \in Collectors : task'[k] = task[k]
      BY <1>5 DEF HealthCheck, TypeOK, Workers
    <2>2. QED BY <1>5, <2>1 DEF HealthCheck
  <1>6. ASSUME NEW t \in Stops, StopStep(t) PROVE Caused'
    BY <1>6 DEF StopStep, Shutdown, LockerLock, SelectLocked, SelectDone,
                CloseCall, CloseReturn, ShutdownReturn
  <1>7. CASE UNCHANGED vars BY <1>7 DEF vars
  <1>8. QED BY <1>1, <1>2, <1>3, <1>4, <1>5, <1>6, <1>7 DEF Next

(* The collectors cancel each other, but a scrape that failed has one whose *)
(* own query, connection or deadline is the reason.                         *)
THEOREM ErrorsCaused == Spec => []ErrorsHaveCause
  <1>1. Init => Caused
    BY DEF Init, Caused, HasError, Workers
  <1>2. Caused => ErrorsHaveCause
    BY DEF Caused, ErrorsHaveCause
  <1>3. QED BY <1>1, <1>2, CausedStep, TypeCorrect, PTL DEF Spec

(* A running scrape has the errors of exactly the collectors that have      *)
(* returned and had one with some client.                                   *)
Accounted == \A s \in Scrapes : at[s] = "run" =>
                /\ \A k \in Collectors, i \in Clients : task[k][i] # "idle"
                /\ \A k \in Collectors : k \in failed <=> k \notin running /\ HasError(k)

LEMMA AccountedStep == IInv /\ Accounted /\ [Next]_vars => Accounted'
  <1> SUFFICES ASSUME IInv, Accounted, [Next]_vars PROVE Accounted'
    OBVIOUS
  <1> USE DEF Accounted, HasError, scrape, group, shutdown
  <1>t. TypeOK BY DEF IInv
  <1>1. ASSUME NEW s \in Scrapes, CollectStep(s) PROVE Accounted'
    <2>1. CASE CollectCall(s) BY <2>1, <1>t DEF CollectCall, TypeOK
    <2>2. CASE CollectStart(s)
      <3>1. failed' = {} /\ running' = Collectors
        BY <2>2 DEF CollectStart, StartGroup
      <3>2. \A k \in Collectors, i \in Clients : task'[k][i] = "acquire"
        BY <2>2 DEF CollectStart, StartGroup, Workers
      <3>3. QED BY <3>1, <3>2
    <2>3. CASE CollectEnd(s)
      BY <2>3, <1>t DEF CollectEnd, Emit, TypeOK
    <2>4. QED BY <1>1, <2>1, <2>2, <2>3 DEF CollectStep
  <1>2. CASE Deadline BY <1>2 DEF Deadline
  <1>3. ASSUME NEW k \in Collectors, Instrumented(k) PROVE Accounted'
    BY <1>3, <1>t DEF Instrumented, TypeOK
  <1>4. ASSUME NEW w \in Workers, NEW i \in Clients, TaskStep(w, i) PROVE Accounted'
    <2>1. PICK v \in {"query"} \cup Ended :
             \A x \in Workers, j \in Clients :
                task'[x][j] = IF x = w /\ j = i THEN v ELSE task[x][j]
      BY <1>4, <1>t, TaskStepAt
    <2>2. at' = at /\ running' = running /\ failed' = failed
      BY <1>4, <1>t, TaskStepGoes
    <2>3. task[w][i] \in {"acquire", "query"}
      BY <1>4, <1>t, TaskStepGoes
    <2>4. \A k \in Collectors \ running, j \in Clients : task'[k][j] = task[k][j]
      BY <2>1, <2>3 DEF IInv, Joined, Ended, Workers
    <2>5. \A k \in Collectors, j \in Clients : task[k][j] # "idle" => task'[k][j] # "idle"
      BY <2>1 DEF Ended, Workers
    <2>6. QED BY <2>2, <2>4, <2>5
  <1>5. ASSUME NEW p \in Pings, HealthCheck(p) PROVE Accounted'
    <2>1. \A k \in Collectors : task'[k] = task[k]
      BY <1>5, <1>t DEF HealthCheck, TypeOK, Workers
    <2>2. QED BY <1>5, <2>1 DEF HealthCheck
  <1>6. ASSUME NEW t \in Stops, StopStep(t) PROVE Accounted'
    BY <1>6 DEF StopStep, Shutdown, LockerLock, SelectLocked, SelectDone,
                CloseCall, CloseReturn, ShutdownReturn
  <1>7. CASE UNCHANGED vars BY <1>7 DEF vars
  <1>8. QED BY <1>1, <1>2, <1>3, <1>4, <1>5, <1>6, <1>7 DEF Next

(* up changes when a Collect call ends, to 1 if and only if all is well.    *)
LEMMA UpStep ==
  ASSUME IInv, Accounted, [Next]_vars, NEW s \in Scrapes, up[s] = Unknown, up'[s] # Unknown
  PROVE  up'[s] = 1 <=> \A k \in Collectors, i \in Clients : task[k][i] = "ok"
  <1>t. TypeOK BY DEF IInv
  <1>1. CollectEnd(s)
    <2>1. ASSUME UNCHANGED up PROVE FALSE
      BY <2>1
    <2>2. ASSUME NEW r \in Scrapes, CollectEnd(r), r # s PROVE FALSE
      BY <2>2, <1>t DEF CollectEnd, Emit, TypeOK
    <2>3. QED
      BY <2>1, <2>2 DEF Next, CollectStep, CollectCall, CollectStart, StartGroup, Deadline,
         Instrumented, TaskStep, Acquire, AcquireFail, Skip, QueryDone, QueryFail, Cancel, Goes,
         HealthCheck, StopStep, Shutdown, LockerLock, SelectLocked, SelectDone, CloseCall,
         CloseReturn, ShutdownReturn, vars, scrape
  <1>2. at[s] = "run" /\ running = {} /\ up'[s] = IF failed = {} THEN 1 ELSE 0
    BY <1>1, <1>t DEF CollectEnd, Emit, TypeOK
  <1>3. \A k \in Collectors, i \in Clients : task[k][i] \in Ended
    BY <1>2 DEF IInv, Joined, Accounted
  <1>4. failed = {} <=> \A k \in Collectors : ~HasError(k)
    BY <1>2, <1>t DEF Accounted, TypeOK
  <1>5. QED BY <1>2, <1>3, <1>4 DEF HasError, Ended

(* up is 1 exactly if every collector had its rows from every database.     *)
THEOREM UpComplete == Spec => UpMeansComplete
  <1>1. Init => Accounted
    BY DEF Init, Accounted
  <1>2. IInv /\ Accounted /\ [Next]_vars =>
          \A s \in Scrapes :
             (up[s] = Unknown /\ up'[s] # Unknown)
               => (up'[s] = 1 <=> \A k \in Collectors, i \in Clients : task[k][i] = "ok")
    BY UpStep
  <1>3. QED BY <1>1, <1>2, AccountedStep, Inductive, PTL DEF Spec, UpMeansComplete

-------------------------------------------------------------------------------
(* The error counters against pg_stat_up.                                   *)

(* What Owners and Closers say about who runs and who closes.               *)
LEMMA Phases ==
  ASSUME IInv
  PROVE  /\ mutex = Free => ~Running /\ ~Closing
         /\ \A s \in Scrapes : at[s] = "run" =>
               ~Closing /\ \A r \in Scrapes : at[r] = "run" => r = s
         /\ \A t \in Stops : stop[t] = "closing" =>
               ~Running /\ \A u \in Stops : locker[u] = "locked" => u = t
         /\ \A t \in Stops : locker[t] = "locked" =>
               ~Running /\ \A u \in Stops : stop[u] = "closing" => u = t
  BY DEF IInv, TypeOK, Owners, Closers, Running, Closing

(* The scrape that runs and has failed is one that will report 0: it has    *)
(* been counted already, and each collector that failed in it has counted   *)
(* it once.  No number of scrapes or collectors is assumed to be finite:    *)
(* only finitely many have ended or failed at any time.                     *)
Owed      == IF Running /\ failed # {} THEN 1 ELSE 0
OwedBy(k) == IF Running /\ k \in failed THEN 1 ELSE 0

Explained ==
    /\ IsFiniteSet(Down) /\ IsFiniteSet(Counted)
    /\ Cardinality(Down) + Owed <= Cardinality(Counted)
    /\ \A k \in Collectors : errors[k] <= Cardinality(Down) + OwedBy(k)

(* instrument's counter adds one count that was not there.                  *)
LEMMA CountedRises ==
  ASSUME TypeOK, NEW k \in Collectors, errors' = [errors EXCEPT ![k] = @ + 1],
         IsFiniteSet(Counted)
  PROVE  IsFiniteSet(Counted') /\ Cardinality(Counted') = Cardinality(Counted) + 1
  <1> DEFINE e == <<k, errors[k] + 1>>
  <1>0. errors \in [Collectors -> Nat]
    BY DEF TypeOK
  <1>1. e \notin Counted
    BY <1>0 DEF Counted
  <1>2. Counted' = Counted \cup {e}
    <2>1. ASSUME NEW j \in Collectors, NEW n
          PROVE  n \in 1 .. errors'[j] <=> n \in 1 .. errors[j] \/ <<j, n>> = e
      BY <1>0
    <2>2. Counted' \subseteq Counted \cup {e}
      BY <2>1 DEF Counted
    <2>3. Counted \cup {e} \subseteq Counted'
      BY <2>1 DEF Counted
    <2>4. QED BY <2>2, <2>3
  <1> HIDE DEF e
  <1>3. QED BY <1>1, <1>2, FS_AddElement

(* Of a running scrape the collector that returns has not failed yet.       *)
LEMMA FailsOnce ==
  ASSUME IInv, Accounted, NEW k \in running
  PROVE  Running /\ k \notin failed /\ k \in Collectors
  BY DEF IInv, TypeOK, Joined, Accounted, Running

(* A scrape that reports 0 becomes one of those that are down.              *)
LEMMA DownRises ==
  ASSUME TypeOK, NEW s \in Scrapes, NEW v \in {0, 1}, up[s] = Unknown,
         up' = [up EXCEPT ![s] = v], IsFiniteSet(Down)
  PROVE  /\ IsFiniteSet(Down')
         /\ Cardinality(Down') = Cardinality(Down) + (1 - v)
  <1>0. Cardinality(Down) \in Nat
    BY FS_CardinalityType
  <1>1. s \notin Down
    BY DEF Down
  <1>2. CASE v = 0
    <2>1. Down' = Down \cup {s}
      BY <1>2 DEF Down, TypeOK
    <2>2. QED BY <1>0, <1>1, <1>2, <2>1, FS_AddElement
  <1>3. CASE v = 1
    <2>1. Down' = Down
      BY <1>3 DEF Down, TypeOK
    <2>2. QED BY <1>0, <1>3, <2>1
  <1>4. QED BY <1>2, <1>3

(* A step that changes none of up, errors and failed, and neither starts    *)
(* nor ends a scrape.                                                       *)
LEMMA ExplainedKeeps ==
  ASSUME Explained, UNCHANGED <<up, errors, failed, Running>>
  PROVE  Explained'
  <1>1. UNCHANGED <<Down, Counted>>
    BY DEF Down, Counted
  <1>2. QED BY <1>1 DEF Explained, Owed, OwedBy

LEMMA ExplainedStep == IInv /\ Accounted /\ Explained /\ [Next]_vars => Explained'
  <1> SUFFICES ASSUME IInv, Accounted, Explained, [Next]_vars PROVE Explained'
    OBVIOUS
  <1> USE DEF scrape, group, shutdown
  <1>t. TypeOK BY DEF IInv
  <1>c. Cardinality(Down) \in Nat /\ Cardinality(Counted) \in Nat
    BY FS_CardinalityType DEF Explained
  <1>1. ASSUME NEW s \in Scrapes, CollectStep(s) PROVE Explained'
    <2>1. CASE CollectCall(s)
      <3>1. Running' <=> Running
        BY <2>1, <1>t DEF CollectCall, TypeOK, Running
      <3>2. UNCHANGED <<up, errors, failed>>
        BY <2>1 DEF CollectCall
      <3>3. Running' = Running
        BY <3>1 DEF Running
      <3>4. QED BY <3>2, <3>3, ExplainedKeeps
    <2>2. CASE CollectStart(s)
      <3>1. ~Running
        BY <2>2, Phases DEF CollectStart
      <3>2. failed' = {} /\ UNCHANGED <<Down, Counted, errors>>
        BY <2>2 DEF CollectStart, StartGroup, Down, Counted
      <3>3. Owed = 0 /\ \A k \in Collectors : OwedBy(k) = 0
        BY <3>1 DEF Owed, OwedBy
      <3>4. Owed' = 0 /\ \A k \in Collectors : OwedBy(k)' = 0
        BY <3>2 DEF Owed, OwedBy
      <3>5. QED BY <3>2, <3>3, <3>4 DEF Explained
    <2>3. CASE CollectEnd(s)
      <3>1. Running /\ up[s] = Unknown
        BY <2>3 DEF CollectEnd, Emit, IInv, Refused, Running
      <3>2. ~Running'
        BY <2>3, <1>t, Phases DEF CollectEnd, Emit, TypeOK, Running
      <3> DEFINE v == IF failed = {} THEN 1 ELSE 0
      <3>3. /\ v \in {0, 1} /\ (v = 1 <=> failed = {})
            /\ up' = [up EXCEPT ![s] = v]
        BY <2>3 DEF CollectEnd, Emit
      <3> HIDE DEF v
      <3>4. UNCHANGED <<errors, failed, Counted>>
        BY <2>3 DEF CollectEnd, Emit, Counted
      <3>5. /\ IsFiniteSet(Down')
            /\ Cardinality(Down') = Cardinality(Down) + (1 - v)
        <4>1. IsFiniteSet(Down)
          BY DEF Explained
        <4>2. QED BY <1>t, <3>1, <3>3, <4>1, DownRises
      <3>6. Owed' = 0 /\ \A k \in Collectors : OwedBy(k)' = 0
        BY <3>2 DEF Owed, OwedBy
      <3>7. /\ Owed = 1 - v
            /\ \A k \in Collectors : OwedBy(k) \in {0, 1} /\ OwedBy(k) <= 1 - v
        BY <3>1, <3>3 DEF Owed, OwedBy
      <3>8. ASSUME NEW k \in Collectors
            PROVE  errors'[k] <= Cardinality(Down') + OwedBy(k)'
        <4>1. errors[k] \in Nat
          BY <1>t DEF TypeOK
        <4>2. errors[k] <= Cardinality(Down) + OwedBy(k)
          BY DEF Explained
        <4>3. QED BY <4>1, <4>2, <1>c, <3>4, <3>5, <3>6, <3>7
      <3>9. Cardinality(Down') + Owed' <= Cardinality(Counted')
        BY <1>c, <3>4, <3>5, <3>6, <3>7 DEF Explained
      <3>10. QED BY <3>4, <3>5, <3>8, <3>9 DEF Explained
    <2>4. QED BY <1>1, <2>1, <2>2, <2>3 DEF CollectStep
  <1>2. CASE Deadline BY <1>2, ExplainedKeeps DEF Deadline, Running
  <1>3. ASSUME NEW k \in Collectors, Instrumented(k) PROVE Explained'
    <2>1. Running /\ k \notin failed
      BY <1>3, FailsOnce DEF Instrumented
    <2>2. UNCHANGED <<Down, Running>>
      BY <1>3 DEF Instrumented, Down, Running
    <2>3. CASE HasError(k)
      <3>1. /\ errors' = [errors EXCEPT ![k] = @ + 1]
            /\ failed' = failed \cup {k}
        BY <1>3, <2>3 DEF Instrumented
      <3>2. IsFiniteSet(Counted') /\ Cardinality(Counted') = Cardinality(Counted) + 1
        BY <1>t, <3>1, CountedRises DEF Explained
      <3>3. Owed \in {0, 1} /\ Owed' \in {0, 1}
        BY DEF Owed
      <3>4. ASSUME NEW j \in Collectors
            PROVE  errors'[j] <= Cardinality(Down') + OwedBy(j)'
        <4>1. errors[j] \in Nat /\ errors[j] <= Cardinality(Down) + OwedBy(j)
          BY <1>t DEF Explained, TypeOK
        <4>2. CASE j = k
          <5>1. OwedBy(j) = 0 /\ OwedBy(j)' = 1
            BY <2>1, <2>2, <3>1, <4>2 DEF OwedBy
          <5>2. errors'[j] = errors[j] + 1
            BY <1>t, <3>1, <4>2 DEF TypeOK
          <5>3. QED BY <1>c, <2>2, <4>1, <5>1, <5>2
        <4>3. CASE j # k
          <5>1. OwedBy(j)' = OwedBy(j)
            BY <2>2, <3>1, <4>3 DEF OwedBy
          <5>2. errors'[j] = errors[j]
            BY <1>t, <3>1, <4>3 DEF TypeOK
          <5>3. QED BY <2>2, <4>1, <5>1, <5>2
        <4>4. QED BY <4>2, <4>3
      <3>5. Cardinality(Down') + Owed' <= Cardinality(Counted')
        <4>1. Cardinality(Down) + Owed <= Cardinality(Counted)
          BY DEF Explained
        <4>2. QED BY <1>c, <2>2, <3>2, <3>3, <4>1
      <3>6. QED BY <2>2, <3>2, <3>4, <3>5 DEF Explained
    <2>4. CASE ~HasError(k)
      BY <1>3, <2>2, <2>4, ExplainedKeeps DEF Instrumented
    <2>5. QED BY <2>3, <2>4
  <1>4. ASSUME NEW w \in Workers, NEW i \in Clients, TaskStep(w, i) PROVE Explained'
    BY <1>4, <1>t, TaskStepGoes, ExplainedKeeps DEF Running
  <1>5. ASSUME NEW p \in Pings, HealthCheck(p) PROVE Explained'
    BY <1>5, ExplainedKeeps DEF HealthCheck, Running
  <1>6. ASSUME NEW t \in Stops, StopStep(t) PROVE Explained'
    <2>1. UNCHANGED <<up, errors, failed, at>>
      BY <1>6 DEF StopStep, Shutdown, LockerLock, SelectLocked, SelectDone,
                  CloseCall, CloseReturn, ShutdownReturn
    <2>2. QED BY <2>1, ExplainedKeeps DEF Running
  <1>7. CASE UNCHANGED vars BY <1>7, ExplainedKeeps DEF vars, Running
  <1>8. QED BY <1>1, <1>2, <1>3, <1>4, <1>5, <1>6, <1>7 DEF Next

(* Over any number of scrapes scrape_errors_total and pg_stat_up agree: a   *)
(* collector counts at most one error for each scrape that reports 0, and   *)
(* no scrape reports 0 without an error that is counted for it.             *)
THEOREM ErrorsExplained == Spec => []ErrorsExplainDown
  <1>1. Init => Accounted /\ Explained
    <2> SUFFICES ASSUME Init PROVE Accounted /\ Explained
      OBVIOUS
    <2>1. Accounted
      BY DEF Init, Accounted
    <2>2. Down = {} /\ Counted = {}
      BY DEF Init, Down, Counted
    <2>3. ~Running /\ \A k \in Collectors : errors[k] = 0
      BY DEF Init, Running
    <2>4. Explained
      BY <2>2, <2>3, FS_EmptySet DEF Explained, Owed, OwedBy
    <2>5. QED BY <2>1, <2>4
  <1>2. TypeOK /\ Explained => ErrorsExplainDown
    <2> SUFFICES ASSUME TypeOK, Explained PROVE ErrorsExplainDown
      OBVIOUS
    <2>1. Cardinality(Down) \in Nat /\ Cardinality(Counted) \in Nat
      BY FS_CardinalityType DEF Explained
    <2>2. Cardinality(Down) <= Cardinality(Counted)
      BY <2>1 DEF Explained, Owed, OwedBy
    <2>3. ASSUME NEW k \in Collectors
          PROVE  OwedBy(k) =
                   IF \E s \in Scrapes : at[s] = "run" /\ k \in failed THEN 1 ELSE 0
      BY DEF OwedBy, Running
    <2>4. QED BY <2>2, <2>3 DEF Explained, ErrorsExplainDown
  <1>3. QED
    BY <1>1, <1>2, ExplainedStep, AccountedStep, Inductive, TypeCorrect, PTL DEF Spec

-------------------------------------------------------------------------------
(* The refinement of ScrapeGate.                                            *)

(* Each step of the exporter is a step of the gate or leaves it alone.      *)
LEMMA StepOfGate == IInv /\ [Next]_vars => [Gate!GateNext]_(Gate!gateVars)
  <1> SUFFICES ASSUME IInv, [Next]_vars PROVE [Gate!GateNext]_(Gate!gateVars)
    OBVIOUS
  <1> USE DEF Phase, IsDown, Gate!gateVars, scrape, group, shutdown
  <1>0. TypeOK
    BY DEF IInv
  <1>1. ASSUME NEW s \in Scrapes, CollectStep(s)
        PROVE  [Gate!GateNext]_(Gate!gateVars)
    <2>1. CASE CollectCall(s)
      BY <1>0, <2>1 DEF CollectCall, TypeOK, Running, Closing, AllClosed
    <2>2. CASE CollectStart(s)
      <3>1. ~Running /\ ~Closing
        BY <2>2, Phases DEF CollectStart, StartGroup
      <3>2. Running' /\ UNCHANGED <<IsDown, up>>
        BY <1>0, <2>2 DEF CollectStart, StartGroup, TypeOK, Running, AllClosed
      <3>3. Gate!BeginScrape
        BY <3>1, <3>2 DEF Gate!BeginScrape
      <3>4. QED BY <3>3 DEF Gate!GateNext
    <2>3. CASE CollectEnd(s)
      <3>1. Running /\ ~Closing /\ up[s] = Unknown
        BY <2>3, Phases DEF CollectEnd, Emit, IInv, Refused, Running
      <3>2. ~Running' /\ ~Closing'
        BY <1>0, <2>3, <3>1, Phases DEF CollectEnd, Emit, TypeOK, Running, Closing
      <3>3. AllClosed /\ Collectors \ MaySkip # {} => failed # {}
        BY <2>3 DEF CollectEnd, Emit, IInv, Refused
      <3>4. PICK v \in {0, 1} : up' = [up EXCEPT ![s] = v] 
                              /\ (AllClosed /\ Collectors \ MaySkip # {} => v = 0)
        BY <2>3, <3>3 DEF CollectEnd, Emit
      <3>5. IsDown' = IsDown
        BY <2>3 DEF CollectEnd, Emit, AllClosed
      <3>6. Gate!EndScrape(s, v)
        BY <3>1, <3>2, <3>4, <3>5 DEF Gate!EndScrape
      <3>7. QED BY <3>6 DEF Gate!GateNext
    <2>4. QED BY <1>1, <2>1, <2>2, <2>3 DEF CollectStep
  <1>2. CASE Deadline BY <1>2 DEF Deadline, Running, Closing, AllClosed
  <1>3. ASSUME NEW k \in Collectors, Instrumented(k)
        PROVE  [Gate!GateNext]_(Gate!gateVars)
    BY <1>3 DEF Instrumented, Running, Closing, AllClosed
  <1>4. ASSUME NEW w \in Workers, NEW i \in Clients, TaskStep(w, i)
        PROVE  [Gate!GateNext]_(Gate!gateVars)
    <2>1. UNCHANGED <<at, up, stop, pool>>
      BY <1>0, <1>4, TaskStepGoes
    <2>2. QED BY <2>1 DEF Running, Closing, AllClosed
  <1>5. ASSUME NEW p \in Pings, HealthCheck(p)
        PROVE  [Gate!GateNext]_(Gate!gateVars)
    BY <1>5 DEF HealthCheck, Running, Closing, AllClosed
  <1>6. ASSUME NEW t \in Stops, StopStep(t)
        PROVE  [Gate!GateNext]_(Gate!gateVars)
    <2>1. CASE Shutdown(t)
      BY <1>0, <2>1 DEF Shutdown, TypeOK, Running, Closing, AllClosed
    <2>2. CASE LockerLock(t)
      BY <2>2 DEF LockerLock, Running, Closing, AllClosed
    <2>3. CASE SelectLocked(t)
      <3>1. ~Running /\ ~Closing
        BY <2>3, Phases DEF SelectLocked, Closing
      <3>2. ~Running' /\ Closing' /\ UNCHANGED <<IsDown, up>>
        BY <1>0, <2>3, <3>1 DEF SelectLocked, TypeOK, Running, Closing, AllClosed
      <3>3. Gate!BeginClose
        BY <3>1, <3>2 DEF Gate!BeginClose
      <3>4. QED BY <3>3 DEF Gate!GateNext
    <2>4. CASE SelectDone(t)
      BY <1>0, <2>4 DEF SelectDone, TypeOK, Running, Closing, AllClosed
    <2>5. ASSUME NEW i \in Clients, CloseCall(t, i)
          PROVE  [Gate!GateNext]_(Gate!gateVars)
      <3>1. ~AllClosed /\ ~AllClosed'
        BY <1>0, <2>5 DEF CloseCall, TypeOK, AllClosed
      <3>2. QED BY <2>5, <3>1 DEF CloseCall, Running, Closing
    <2>6. ASSUME NEW i \in Clients, CloseReturn(t, i)
          PROVE  [Gate!GateNext]_(Gate!gateVars)
      <3>1. ~AllClosed
        BY <2>6 DEF CloseReturn, AllClosed
      <3>2. ~Running /\ Closing
        BY <2>6, Phases DEF CloseReturn, Closing
      <3>3. UNCHANGED <<Running, Closing, up>>
        BY <2>6 DEF CloseReturn, Running, Closing
      <3>4. CASE AllClosed'
        <4>1. Gate!Close  BY <3>2, <3>3, <3>4 DEF Gate!Close
        <4>2. QED BY <4>1 DEF Gate!GateNext
      <3>5. CASE ~AllClosed'
        BY <3>1, <3>3, <3>5
      <3>6. QED BY <3>4, <3>5
    <2>7. CASE ShutdownReturn(t)
      <3>1. AllClosed /\ ~Running /\ Closing
        BY <2>7, Phases DEF ShutdownReturn, Closing
      <3>2. \A u \in Stops : stop[u] = "closing" => u = t
        BY <2>7, Phases DEF ShutdownReturn, IInv, Closers
      <3>3. ~Closing'
        BY <1>0, <2>7, <3>2 DEF ShutdownReturn, TypeOK, Closing
      <3>4. ~Running' /\ UNCHANGED <<IsDown, up>>
        BY <2>7, <3>1 DEF ShutdownReturn, Running, AllClosed
      <3>5. Gate!EndClose
        BY <3>1, <3>3, <3>4 DEF Gate!EndClose
      <3>6. QED BY <3>5 DEF Gate!GateNext
    <2>8. QED BY <1>6, <2>1, <2>2, <2>3, <2>4, <2>5, <2>6, <2>7 DEF StopStep
  <1>7. CASE UNCHANGED vars BY <1>7 DEF vars, Running, Closing, AllClosed
  <1>8. QED BY <1>1, <1>2, <1>3, <1>4, <1>5, <1>6, <1>7 DEF Next

(* Collect and Shutdown implement the gate: scrapes and shutdowns take      *)
(* turns, and a scrape after a completed shutdown reports up = 0, if some   *)
(* collector cannot do without a connection.                                *)
THEOREM ImplementsGate == Spec => GateSpec
  <1>1. Init => Gate!GateInit
    <2> SUFFICES ASSUME Init PROVE Gate!GateInit
      OBVIOUS
    <2>1. ~Running /\ ~Closing
      BY DEF Init, Running, Closing
    <2>2. ~AllClosed
      <3>1. 1 \in Clients  BY DEF Clients
      <3>2. QED BY <3>1 DEF Init, AllClosed
    <2>3. QED BY <2>1, <2>2 DEF Init, Gate!GateInit, Phase, IsDown
  <1>2. QED BY <1>1, StepOfGate, Inductive, PTL DEF Spec, GateSpec, Gate!GateSpec

(* A completed Shutdown is final (instrumentation_test.go:118: "After       *)
(* Shutdown the pool is closed; HealthCheck must fail"): the pools stay     *)
(* closed, and no goroutine of a scrape or a HealthCheck gets anything but  *)
(* an error, except one that a version gate spares the connection.  So each *)
(* up that is reported from then on is 0, unless all collectors are of that *)
(* kind (or there is none): then nothing tells such an exporter from one    *)
(* that works.                                                              *)
StaysDown ==
    /\ AllClosed'
    /\ Collectors \ MaySkip # {} => \A s \in Scrapes : up'[s] # up[s] => up'[s] = 0
    /\ \A w \in Workers, i \in Clients :
          task'[w][i] # task[w][i] =>
             \/ task'[w][i] \in {"acquire", "err"}
             \/ task'[w][i] = "ok" /\ w \in MaySkip

DownIsFinal == [][AllClosed => StaysDown]_vars

THEOREM ShutdownIsFinal == Spec => DownIsFinal
  <1>1. ASSUME IInv, [Next]_vars, AllClosed
        PROVE  /\ AllClosed'
               /\ Collectors \ MaySkip # {} =>
                     \A s \in Scrapes : up'[s] # up[s] => up'[s] = 0
    <2>1. up \in [Scrapes -> {0, 1, Unknown}]
      BY <1>1 DEF IInv, TypeOK
    <2>2. IsDown = "yes" /\ [Gate!GateNext]_(Gate!gateVars)
      BY <1>1, StepOfGate DEF IsDown
    <2>3. /\ IsDown' = "yes"
          /\ Collectors \ MaySkip # {} =>
                \A s \in Scrapes : up'[s] # up[s] => up'[s] = 0
      <3> HIDE DEF IsDown
      <3>1. CASE Gate!BeginScrape \/ Gate!BeginClose \/ Gate!Close \/ Gate!EndClose
        BY <2>2, <3>1 DEF Gate!BeginScrape, Gate!BeginClose, Gate!Close, Gate!EndClose
      <3>2. ASSUME NEW s \in Scrapes, NEW v \in {0, 1}, Gate!EndScrape(s, v)
            PROVE  /\ IsDown' = "yes"
                   /\ Collectors \ MaySkip # {} =>
                         \A r \in Scrapes : up'[r] # up[r] => up'[r] = 0
        BY <2>1, <2>2, <3>2 DEF Gate!EndScrape
      <3>3. CASE UNCHANGED Gate!gateVars
        BY <2>2, <3>3 DEF Gate!gateVars
      <3>4. QED BY <2>2, <3>1, <3>2, <3>3 DEF Gate!GateNext
    <2>4. QED BY <2>3 DEF IsDown
  <1>2. ASSUME IInv, [Next]_vars, AllClosed, NEW w \in Workers, NEW i \in Clients,
               task'[w][i] # task[w][i]
        PROVE  \/ task'[w][i] \in {"acquire", "err"}
               \/ task'[w][i] = "ok" /\ w \in MaySkip
    <2>0. TypeOK /\ pool[i] = "closed" /\ task[w][i] # "query"
      BY <1>2 DEF IInv, AllClosed, Drained
    <2> USE DEF scrape, group, shutdown
    <2>1. ASSUME NEW s \in Scrapes, CollectStep(s) PROVE task'[w][i] = "acquire"
      BY <1>2, <2>0, <2>1 DEF CollectStep, CollectCall, CollectStart, StartGroup, CollectEnd,
                              Emit, TypeOK
    <2>2. ASSUME NEW x \in Workers, NEW j \in Clients, TaskStep(x, j)
          PROVE  \/ task'[w][i] = "err"
                 \/ task'[w][i] = "ok" /\ w \in MaySkip
      <3>1. x = w /\ j = i
        BY <1>2, <2>0, <2>2, TaskStepAt
      <3>2. \/ task' = [task EXCEPT ![w][i] = "err"]
            \/ task' = [task EXCEPT ![w][i] = "ok"] /\ w \in MaySkip
        BY <2>0, <2>2, <3>1 DEF TaskStep, Acquire, AcquireFail, Skip, QueryDone, QueryFail, Cancel,
                                Goes
      <3>3. QED BY <2>0, <3>2 DEF TypeOK
    <2>3. ASSUME NEW p \in Pings, HealthCheck(p) PROVE task'[w][i] = "acquire"
      BY <1>2, <2>0, <2>3 DEF HealthCheck, TypeOK
    <2>4. QED
      BY <1>2, <2>1, <2>2, <2>3 DEF Next, Deadline, Instrumented, StopStep, Shutdown,
         LockerLock, SelectLocked, SelectDone, CloseCall, CloseReturn, ShutdownReturn, vars
  <1>3. IInv /\ [Next]_vars => (AllClosed => StaysDown)
    BY <1>1, <1>2 DEF StaysDown
  <1>4. QED BY <1>3, Inductive, PTL DEF Spec, DownIsFinal
-------------------------------------------------------------------------------
(* The mutex stays with t, and nothing goes on that needs it.               *)
BlockedBy(t) ==
    /\ mutex' = t /\ stop'[t] = "aborted"
    /\ UNCHANGED <<up, pool>>
    /\ \A s \in Scrapes : at'[s] # at[s] => at'[s] = "lock"
    /\ \A u \in Stops : stop'[u] # stop[u] => stop'[u] \in {"select", "aborted"}

AbortBlocks == [][\A t \in Stops : mutex = t /\ stop[t] = "aborted" => BlockedBy(t)]_vars

(* The other side of the finding CleanAbort: a Shutdown call that gave up   *)
(* and whose goroutine has taken the mutex nonetheless keeps it.  No scrape *)
(* starts or reports any more, no other Shutdown gets to the pools, and     *)
(* they stay as they are.                                                   *)
THEOREM AbortedHoldsOn == Spec => AbortBlocks
  <1>1. ASSUME IInv, [Next]_vars, NEW t \in Stops, mutex = t, stop[t] = "aborted"
        PROVE  BlockedBy(t)
    <2> USE <1>1 DEF scrape, group, shutdown
    <2>1. /\ \A s \in Scrapes : at[s] # "run"
          /\ \A u \in Stops : stop[u] # "closing"
          /\ mutex # Free
          /\ \A u \in Stops : locker[u] = "locked" => u = t
      BY DEF IInv, Owners, Closers
    <2>2. ASSUME NEW s \in Scrapes, CollectStep(s) PROVE BlockedBy(t)
      BY <2>1, <2>2 DEF CollectStep, CollectCall, CollectStart, CollectEnd, Emit, BlockedBy,
                        IInv, TypeOK
    <2>3. ASSUME NEW u \in Stops, StopStep(u) PROVE BlockedBy(t)
      BY <2>1, <2>3 DEF StopStep, Shutdown, LockerLock, SelectLocked, SelectDone, CloseCall,
                        CloseReturn, ShutdownReturn, BlockedBy, IInv, TypeOK
    <2>4. ASSUME NEW w \in Workers, NEW i \in Clients, TaskStep(w, i) PROVE BlockedBy(t)
      BY <2>4 DEF TaskStep, Acquire, AcquireFail, Skip, QueryDone, QueryFail, Cancel, Goes,
                  BlockedBy
    <2> QED BY <2>2, <2>3, <2>4 DEF Next, Deadline, Instrumented, HealthCheck, BlockedBy, vars
  <1>2. IInv /\ [Next]_vars
           => \A t \in Stops : mutex = t /\ stop[t] = "aborted" => BlockedBy(t)
    BY <1>1
  <1>3. QED BY <1>2, Inductive, PTL DEF Spec, AbortBlocks
===============================================================================

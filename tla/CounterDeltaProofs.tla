-------------------------- MODULE CounterDeltaProofs --------------------------
(***************************************************************************)
(* Proofs about CounterDelta, for any number of clients, label             *)
(* combinations and Gather calls, and any assignment of rows to label      *)
(* combinations (shared ones included).                                    *)
(*                                                                         *)
(* DeltasSumUp is inductive together with TypeOK and Serialised: the mutex   *)
(* keeps a second Observe from changing a child between the comparison     *)
(* with last and the assignment to last.                                   *)
(***************************************************************************)
EXTENDS CounterDelta, TLAPS

USE CounterDeltaAssumption

LEMMA InitOK == Init => TypeOK /\ Serialised /\ DeltasSumUp
  BY DEF Init, TypeOK, Serialised, DeltasSumUp, Stats, InSwitch, Changing

(* In each of the three cases of Observe the child ends up showing the      *)
(* absolute value, whatever it showed before.                               *)
LEMMA NewValue ==
  ASSUME TypeOK, Serialised, DeltasSumUp,
         NEW c \in Clients, First(c) \/ Readd(c) \/ Advance(c)
  PROVE  vec' = [vec EXCEPT ![KeyOf[c]] = arg[c]]
  <1> DEFINE k == KeyOf[c]
             Sum(x) == (IF vec[k] = Absent THEN 0 ELSE vec[k]) + x
  <1>0. k \in Keys /\ arg[c] \in Nat
    BY DEF TypeOK, Stats
  <1>1. CASE First(c)
    <2>1. vec[k] = Absent
      BY <1>1, <1>0 DEF First, TypeOK, Serialised, DeltasSumUp, Changing, InSwitch
    <2>2. Sum(arg[c]) = arg[c]
      BY <2>1, <1>0
    <2>3. QED BY <1>1, <2>2 DEF First, WithAdded
  <1>2. CASE Readd(c)
    <2>1. vec[k] = Absent
      BY <1>2 DEF Readd, DeltasSumUp
    <2>2. Sum(arg[c]) = arg[c]
      BY <2>1, <1>0
    <2>3. QED BY <1>2, <2>2 DEF Readd, WithAdded
  <1>3. CASE Advance(c)
    <2>1. vec[k] = last[k] /\ last[k] # Absent
      BY <1>3, <1>0 DEF Advance, TypeOK, Serialised, DeltasSumUp, Changing, InSwitch
    <2>2. last[k] \in Nat
      BY <2>1, <1>0 DEF TypeOK, Stats
    <2>3. Sum(arg[c] - last[k]) = arg[c]
      BY <2>1, <2>2, <1>0
    <2>4. QED BY <1>3, <2>3 DEF Advance, WithAdded
  <1>4. QED BY <1>1, <1>2, <1>3

(* Every variable keeps its type.  In particular the subtraction in Advance *)
(* never goes below zero, so Counter.Add is never given a negative number.  *)
LEMMA TypeStep == TypeOK /\ Serialised /\ DeltasSumUp /\ [Next]_vars => TypeOK'
  <1> SUFFICES ASSUME TypeOK, Serialised, DeltasSumUp, [Next]_vars
               PROVE  TypeOK'
    OBVIOUS
  <1> USE DEF TypeOK, Stats, InSwitch, server, row
  <1>1. ASSUME NEW c \in Clients, Server(c) PROVE TypeOK'
    <2>1. CASE Grow(c)  BY <2>1 DEF Grow
    <2>2. CASE Reset(c) BY <2>2 DEF Reset
    <2>3. QED BY <1>1, <2>1, <2>2 DEF Server
  <1>2. ASSUME NEW c \in Clients, Select(c) PROVE TypeOK'
    <2>1. CASE Fetch(c)
      <3>1. fetched' \in [Keys -> SUBSET Stats]
        <4>1. /\ KeyOf[c] \in Keys
              /\ fetched[KeyOf[c]] \cup {stat[c]} \in SUBSET Stats
          OBVIOUS
        <4>2. QED BY <2>1, <4>1 DEF Fetch
      <3>2. QED BY <2>1, <3>1 DEF Fetch
    <2>2. CASE NoRow(c)  BY <2>2 DEF NoRow
    <2>3. CASE Fail(c)   BY <2>3 DEF Fail
    <2>4. QED BY <1>2, <2>1, <2>2, <2>3 DEF Select
  <1>3. ASSUME NEW c \in Clients, Observe(c) PROVE TypeOK'
    <2>1. CASE Lock(c)   BY <2>1 DEF Lock
    <2>2. CASE First(c)
      <3>1. vec' = [vec EXCEPT ![KeyOf[c]] = arg[c]]
        BY <2>2, NewValue
      <3>2. QED BY <2>2, <3>1 DEF First
    <2>3. CASE Drop(c)
      <3>1. held' \in [Readers -> [Keys -> Nat \cup {Absent, Live}]]
        BY <2>3 DEF Drop
      <3>2. QED BY <2>3, <3>1 DEF Drop
    <2>4. CASE Readd(c)
      <3>1. vec' = [vec EXCEPT ![KeyOf[c]] = arg[c]]
        BY <2>4, NewValue
      <3>2. QED BY <2>4, <3>1 DEF Readd
    <2>5. CASE Advance(c)
      <3>1. vec' = [vec EXCEPT ![KeyOf[c]] = arg[c]]
        BY <2>5, NewValue
      <3>2. QED BY <2>5, <3>1 DEF Advance
    <2>6. CASE Store(c)  BY <2>6 DEF Store
    <2>7. QED BY <1>3, <2>1, <2>2, <2>3, <2>4, <2>5, <2>6 DEF Observe
  <1>4. ASSUME NEW r \in Readers, StartScrape(r) PROVE TypeOK'
    BY <1>4 DEF StartScrape
  <1>5. ASSUME NEW r \in Readers, NEW k \in Keys, Read(r, k) PROVE TypeOK'
    BY <1>5 DEF Read
  <1>6. CASE Collect
    BY <1>6 DEF Collect
  <1>7. CASE Abandon
    BY <1>7 DEF Abandon
  <1>8. CASE UNCHANGED vars
    BY <1>8 DEF vars
  <1>9. QED BY <1>1, <1>2, <1>3, <1>4, <1>5, <1>6, <1>7, <1>8 DEF Next

(* The mutex serialises the calls of Observe, and group.Wait() joins them.  *)
LEMMA SerialStep == TypeOK /\ Serialised /\ [Next]_vars => Serialised'
  <1> SUFFICES ASSUME TypeOK, Serialised, [Next]_vars
               PROVE  Serialised'
    OBVIOUS
  <1> USE DEF TypeOK, Serialised, InSwitch
  <1>1. ASSUME NEW c \in Clients, Server(c) PROVE Serialised'
    BY <1>1 DEF Server, Grow, Reset
  <1>2. ASSUME NEW c \in Clients, Select(c) PROVE Serialised'
    BY <1>2 DEF Select, Fetch, NoRow, Fail
  <1>3. ASSUME NEW c \in Clients, Observe(c) PROVE Serialised'
    BY <1>3 DEF Observe, Lock, First, Drop, Readd, Advance, Store
  <1>4. ASSUME NEW r \in Readers, StartScrape(r) PROVE Serialised'
    BY <1>4 DEF StartScrape
  <1>5. ASSUME NEW r \in Readers, NEW k \in Keys, Read(r, k) PROVE Serialised'
    BY <1>5 DEF Read
  <1>6. CASE Collect
    BY <1>6 DEF Collect
  <1>7. CASE Abandon
    BY <1>7 DEF Abandon
  <1>8. CASE UNCHANGED vars
    BY <1>8 DEF vars
  <1>9. QED BY <1>1, <1>2, <1>3, <1>4, <1>5, <1>6, <1>7, <1>8 DEF Next

(* The deltas added to a child sum up to the absolute value.  The mutex is  *)
(* what keeps another client's Observe off the children and off last.       *)
LEMMA DeltaStep ==
    TypeOK /\ Serialised /\ DeltasSumUp /\ [Next]_vars => DeltasSumUp'
  <1> SUFFICES ASSUME TypeOK, Serialised, DeltasSumUp, [Next]_vars
               PROVE  DeltasSumUp'
    OBVIOUS
  <1> USE DEF TypeOK, Serialised, InSwitch, DeltasSumUp, Changing, server, row
  <1>1. ASSUME NEW c \in Clients, Server(c) PROVE DeltasSumUp'
    BY <1>1 DEF Server, Grow, Reset
  <1>2. ASSUME NEW c \in Clients, Select(c) PROVE DeltasSumUp'
    BY <1>2 DEF Select, Fetch, NoRow, Fail
  <1>3. ASSUME NEW c \in Clients, Observe(c) PROVE DeltasSumUp'
    <2>1. CASE Lock(c)   BY <2>1 DEF Lock
    <2>2. CASE First(c)
      <3>1. vec' = [vec EXCEPT ![KeyOf[c]] = arg[c]]
        BY <2>2, NewValue
      <3>2. QED BY <2>2, <3>1 DEF First
    <2>3. CASE Drop(c)   BY <2>3 DEF Drop
    <2>4. CASE Readd(c)
      <3>1. vec' = [vec EXCEPT ![KeyOf[c]] = arg[c]]
        BY <2>4, NewValue
      <3>2. QED BY <2>4, <3>1 DEF Readd
    <2>5. CASE Advance(c)
      <3>1. vec' = [vec EXCEPT ![KeyOf[c]] = arg[c]]
        BY <2>5, NewValue
      <3>2. QED BY <2>5, <3>1 DEF Advance
    <2>6. CASE Store(c)  BY <2>6 DEF Store
    <2>7. QED BY <1>3, <2>1, <2>2, <2>3, <2>4, <2>5, <2>6 DEF Observe
  <1>4. ASSUME NEW r \in Readers, StartScrape(r) PROVE DeltasSumUp'
    BY <1>4 DEF StartScrape
  <1>5. ASSUME NEW r \in Readers, NEW k \in Keys, Read(r, k) PROVE DeltasSumUp'
    BY <1>5 DEF Read
  <1>6. CASE Collect
    BY <1>6 DEF Collect
  <1>7. CASE Abandon
    BY <1>7 DEF Abandon
  <1>8. CASE UNCHANGED vars
    BY <1>8 DEF vars
  <1>9. QED BY <1>1, <1>2, <1>3, <1>4, <1>5, <1>6, <1>7, <1>8 DEF Next

(* The counter keeps its types, its calls are serialised, and every child   *)
(* of the vector shows the last absolute value observed, in every           *)
(* reachable state.                                                         *)
THEOREM CounterCorrect == Spec => [](TypeOK /\ Serialised /\ DeltasSumUp)
  <1>1. TypeOK /\ Serialised /\ DeltasSumUp /\ [Next]_vars
          => TypeOK' /\ Serialised' /\ DeltasSumUp'
    BY TypeStep, SerialStep, DeltaStep
  <1>2. QED BY InitOK, <1>1, PTL DEF Spec

(* The variables of counterDelta keep their types: no value, and no child,  *)
(* goes below zero whatever the servers return.                             *)
THEOREM TypeCorrect == Spec => []TypeOK
  BY CounterCorrect, PTL

-------------------------------------------------------------------------------
(* Where the values come from: the arguments of the calls in progress, last *)
(* and the detached children show values that were read, and a pointer to   *)
(* a child of the vector does not dangle.                                   *)
Sourced ==
    /\ \A c \in Clients : pc[c] \in InSwitch \cup {"lock"} => arg[c] \in fetched[KeyOf[c]]
    /\ \A k \in Keys : last[k] # Absent => last[k] \in fetched[k]
    /\ \A r \in Readers, k \in Keys :
          /\ held[r][k] = Live => vec[k] # Absent
          /\ held[r][k] \in Nat => held[r][k] \in fetched[k]

IInv == TypeOK /\ Serialised /\ DeltasSumUp /\ Sourced

LEMMA VecSourced ==
  ASSUME IInv, NEW k \in Keys, vec[k] # Absent
  PROVE  vec[k] \in fetched[k]
  <1> USE DEF IInv, TypeOK, InSwitch
  <1>1. CASE ~Changing(k)
    BY <1>1 DEF DeltasSumUp, Sourced
  <1>2. CASE Changing(k)
    <2>1. PICK c \in Clients : KeyOf[c] = k /\ pc[c] \in {"readd", "store"}
      BY <1>2 DEF Changing
    <2>2. QED BY <2>1 DEF DeltasSumUp, Sourced
  <1>3. QED BY <1>1, <1>2

LEMMA SourcedStep == IInv /\ [Next]_vars => Sourced'
  <1> SUFFICES ASSUME IInv, [Next]_vars
               PROVE  Sourced'
    OBVIOUS
  <1> USE DEF IInv, TypeOK, InSwitch, Sourced, server, row
  <1>1. ASSUME NEW c \in Clients, Server(c) PROVE Sourced'
    BY <1>1 DEF Server, Grow, Reset
  <1>2. ASSUME NEW c \in Clients, Select(c) PROVE Sourced'
    <2>1. CASE Fetch(c)
      <3>1. \A k \in Keys : fetched[k] \subseteq fetched'[k]
        BY <2>1 DEF Fetch
      <3>2. arg'[c] \in fetched'[KeyOf[c]]
        BY <2>1 DEF Fetch
      <3>3. \A d \in Clients : d # c => pc'[d] = pc[d] /\ arg'[d] = arg[d]
        BY <2>1 DEF Fetch
      <3>4. last' = last /\ vec' = vec /\ held' = held
        BY <2>1 DEF Fetch
      <3>5. QED BY <3>1, <3>2, <3>3, <3>4
    <2>2. CASE NoRow(c)  BY <2>2 DEF NoRow
    <2>3. CASE Fail(c)   BY <2>3 DEF Fail
    <2>4. QED BY <1>2, <2>1, <2>2, <2>3 DEF Select
  <1>3. ASSUME NEW c \in Clients, Observe(c) PROVE Sourced'
    <2>1. CASE Lock(c)   BY <2>1 DEF Lock
    <2>2. CASE First(c)
      <3>1. \A k \in Keys : vec[k] # Absent => vec'[k] # Absent
        BY <2>2, NewValue DEF Stats
      <3>2. QED BY <2>2, <3>1 DEF First
    <2>3. CASE Drop(c)
      <3>1. ASSUME NEW r \in Readers, NEW k \in Keys
            PROVE  /\ held'[r][k] = Live => vec'[k] # Absent
                   /\ held'[r][k] \in Nat => held'[r][k] \in fetched'[k]
        <4>1. CASE k = KeyOf[c] /\ held[r][k] = Live
          <5>1. held'[r][k] = vec[k] /\ vec[k] # Absent /\ vec[k] \in Nat
            BY <2>3, <4>1 DEF Drop
          <5>2. vec[k] \in fetched[k]
            BY <5>1, VecSourced
          <5>3. QED BY <2>3, <5>1, <5>2 DEF Drop
        <4>2. CASE ~(k = KeyOf[c] /\ held[r][k] = Live)
          BY <2>3, <4>2 DEF Drop
        <4>3. QED BY <4>1, <4>2
      <3>2. QED BY <2>3, <3>1 DEF Drop
    <2>4. CASE Readd(c)
      <3>1. \A k \in Keys : vec[k] # Absent => vec'[k] # Absent
        BY <2>4, NewValue DEF Stats
      <3>2. QED BY <2>4, <3>1 DEF Readd
    <2>5. CASE Advance(c)
      <3>1. \A k \in Keys : vec[k] # Absent => vec'[k] # Absent
        BY <2>5, NewValue DEF Stats
      <3>2. QED BY <2>5, <3>1 DEF Advance
    <2>6. CASE Store(c)  BY <2>6 DEF Store
    <2>7. QED BY <1>3, <2>1, <2>2, <2>3, <2>4, <2>5, <2>6 DEF Observe
  <1>4. ASSUME NEW r \in Readers, StartScrape(r) PROVE Sourced'
    BY <1>4 DEF StartScrape
  <1>5. ASSUME NEW r \in Readers, NEW k \in Keys, Read(r, k) PROVE Sourced'
    BY <1>5 DEF Read
  <1>6. CASE Collect
    BY <1>6 DEF Collect
  <1>7. CASE Abandon
    BY <1>7 DEF Abandon
  <1>8. CASE UNCHANGED vars
    BY <1>8 DEF vars
  <1>9. QED BY <1>1, <1>2, <1>3, <1>4, <1>5, <1>6, <1>7, <1>8 DEF Next

LEMMA Inductive == Spec => []IInv
  <1>1. Init => IInv
    BY InitOK DEF Init, IInv, Sourced, InSwitch
  <1>2. IInv /\ [Next]_vars => IInv'
    BY TypeStep, SerialStep, DeltaStep, SourcedStep DEF IInv
  <1>3. QED BY <1>1, <1>2, PTL DEF Spec

(* What a Gather reads through a pointer it was given, however late and     *)
(* whatever Observe is doing meanwhile, is a value that was read from a     *)
(* server for that label combination.                                       *)
THEOREM ReportedValues == Spec => []PointersShowReported
  <1>1. IInv => PointersShowReported
    <2> SUFFICES ASSUME IInv, NEW r \in Readers, NEW k \in Keys, held[r][k] # Absent
                 PROVE  Pointee(r, k) \in fetched[k]
      BY DEF PointersShowReported
    <2>1. CASE held[r][k] = Live
      BY <2>1, VecSourced DEF Pointee, IInv, Sourced
    <2>2. CASE held[r][k] # Live
      BY <2>2 DEF Pointee, IInv, TypeOK, Sourced
    <2>3. QED BY <2>1, <2>2
  <1>2. QED BY <1>1, Inductive, PTL

-------------------------------------------------------------------------------
(* Observe takes effect atomically, when it gives the mutex back.           *)
LEMMA ShownIsLast == IInv => Shown = last
  <1> SUFFICES ASSUME IInv, NEW k \in Keys
               PROVE  (IF Busy(k) THEN last[k] ELSE vec[k]) = last[k]
    BY DEF Shown, IInv, TypeOK
  <1> QED
    BY DEF IInv, TypeOK, Serialised, DeltasSumUp, Changing, Busy, InSwitch

LEMMA RefinesStep == IInv /\ IInv' /\ [Next]_vars => [Abs!AbsNext]_(Abs!absVars)
  <1>s. IInv' => (Shown = last)'
    BY ShownIsLast, PTL
  <1> SUFFICES ASSUME IInv, IInv', [Next]_vars
               PROVE  Abs!AbsNext \/ (Asked' = Asked /\ Shown' = Shown)
    BY DEF Abs!absVars
  <1>a. Shown = last /\ Shown' = last'
    BY ShownIsLast, <1>s
  <1> USE DEF IInv, TypeOK, InSwitch, server, row
  <1>1. ASSUME NEW c \in Clients, Server(c) PROVE Asked' = Asked /\ Shown' = Shown
    BY <1>1, <1>a DEF Server, Grow, Reset, Asked
  <1>2. ASSUME NEW c \in Clients, Select(c)
        PROVE  Abs!AbsNext \/ (Asked' = Asked /\ Shown' = Shown)
    <2>1. CASE Fetch(c)
      <3>1. Asked[c] = Absent /\ stat[c] \in Stats
        BY <2>1 DEF Fetch, Asked
      <3>2. Asked' = [Asked EXCEPT ![c] = stat[c]]
        BY <2>1 DEF Fetch, Asked
      <3>3. Shown' = Shown
        BY <2>1, <1>a DEF Fetch
      <3>4. Abs!Ask(c, stat[c])
        BY <3>1, <3>2, <3>3 DEF Abs!Ask
      <3>5. QED BY <3>1, <3>4 DEF Abs!AbsNext
    <2>2. CASE NoRow(c)  BY <2>2, <1>a DEF NoRow, Asked
    <2>3. CASE Fail(c)   BY <2>3, <1>a DEF Fail, Asked
    <2>4. QED BY <1>2, <2>1, <2>2, <2>3 DEF Select
  <1>3. ASSUME NEW c \in Clients, Observe(c)
        PROVE  Abs!AbsNext \/ (Asked' = Asked /\ Shown' = Shown)
    <2>1. CASE Lock(c)    BY <2>1, <1>a DEF Lock, Asked
    <2>2. CASE First(c)   BY <2>2, <1>a DEF First, Asked
    <2>3. CASE Drop(c)    BY <2>3, <1>a DEF Drop, Asked
    <2>4. CASE Readd(c)   BY <2>4, <1>a DEF Readd, Asked
    <2>5. CASE Advance(c) BY <2>5, <1>a DEF Advance, Asked
    <2>6. CASE Store(c)
      <3>1. Asked[c] = arg[c] /\ arg[c] # Absent
        BY <2>6 DEF Store, Asked, Stats
      <3>2. Asked' = [Asked EXCEPT ![c] = Absent]
        BY <2>6 DEF Store, Asked
      <3>3. Shown' = [Shown EXCEPT ![KeyOf[c]] = Asked[c]]
        BY <2>6, <1>a, <3>1 DEF Store
      <3>4. Abs!Report(c)
        BY <3>1, <3>2, <3>3 DEF Abs!Report
      <3>5. QED BY <3>4 DEF Abs!AbsNext
    <2>7. QED BY <1>3, <2>1, <2>2, <2>3, <2>4, <2>5, <2>6 DEF Observe
  <1>4. ASSUME NEW r \in Readers, StartScrape(r) PROVE Asked' = Asked /\ Shown' = Shown
    BY <1>4, <1>a DEF StartScrape, Asked, Serialised
  <1>5. ASSUME NEW r \in Readers, NEW k \in Keys, Read(r, k)
        PROVE  Asked' = Asked /\ Shown' = Shown
    BY <1>5, <1>a DEF Read, Asked
  <1>6. CASE Collect
    BY <1>6, <1>a DEF Collect, Asked
  <1>7. CASE Abandon
    BY <1>7, <1>a DEF Abandon, Asked
  <1>8. CASE UNCHANGED vars
    BY <1>8, <1>a DEF vars, Asked
  <1>9. QED BY <1>1, <1>2, <1>3, <1>4, <1>5, <1>6, <1>7, <1>8 DEF Next

(* Observe, with its lock and its four steps, implements the atomic report  *)
(* of an absolute value that its callers rely on.                           *)
THEOREM ObserveIsAtomic == Spec => AbsSpec
  <1>1. Init => Abs!AbsInit
    <2> SUFFICES ASSUME Init PROVE Asked = [c \in Clients |-> Absent] /\ Shown = last
      BY DEF Abs!AbsInit, Init
    <2>1. Asked = [c \in Clients |-> Absent]
      BY DEF Init, Asked, InSwitch
    <2>2. Shown = last
      BY DEF Init, Shown, Busy
    <2>3. QED BY <2>1, <2>2
  <1>2. QED BY <1>1, Inductive, RefinesStep, PTL DEF Spec, AbsSpec, Abs!AbsSpec

-------------------------------------------------------------------------------
(* An entry in last is never above the counter of the server of the client  *)
(* that stored it, unless that server has reset it since.                   *)
Climbing ==
    \A c \in Clients :
        /\ pc[c] \notin InSwitch \cup {"lock"} /\ by[KeyOf[c]] = c /\ last[KeyOf[c]] # Absent
              => c \in restarted \/ stat[c] >= last[KeyOf[c]]
        /\ pc[c] \in {"lock", "switch"} /\ by[KeyOf[c]] = c /\ last[KeyOf[c]] # Absent
              => c \in dropped \/ arg[c] >= last[KeyOf[c]]
        /\ pc[c] \in InSwitch \cup {"lock"}
              => c \in restarted \/ stat[c] >= arg[c]

LEMMA ClimbingStep ==
  ASSUME IInv, Climbing, [Next]_vars
  PROVE  Climbing'
  <1> USE DEF IInv, TypeOK, InSwitch, Stats, server, row
  <1>1. ASSUME NEW c \in Clients, Server(c) PROVE Climbing'
    <2>1. CASE Grow(c)
      <3>1. \A d \in Clients : stat[d] \in Nat /\ stat'[d] \in Nat /\ stat'[d] >= stat[d]
        BY <2>1 DEF Grow
      <3>2. \A d \in Clients : arg[d] \in Nat
        OBVIOUS
      <3>3. \A k \in Keys : last[k] # Absent => last[k] \in Nat
        OBVIOUS
      <3>4. QED BY <2>1, <3>1, <3>2, <3>3 DEF Grow, Climbing
    <2>2. CASE Reset(c) BY <2>2 DEF Reset, Climbing
    <2>3. QED BY <1>1, <2>1, <2>2 DEF Server
  <1>2. ASSUME NEW c \in Clients, Select(c) PROVE Climbing'
    <2>1. CASE Fetch(c) BY <2>1 DEF Fetch, Climbing
    <2>2. CASE NoRow(c) BY <2>2 DEF NoRow, Climbing
    <2>3. CASE Fail(c)  BY <2>3 DEF Fail, Climbing
    <2>4. QED BY <1>2, <2>1, <2>2, <2>3 DEF Select
  <1>3. ASSUME NEW c \in Clients, Observe(c) PROVE Climbing'
    <2>1. CASE Lock(c)    BY <2>1 DEF Lock, Climbing
    <2>2. CASE First(c)   BY <2>2 DEF First, Climbing
    <2>3. CASE Drop(c)    BY <2>3 DEF Drop, Climbing
    <2>4. CASE Readd(c)   BY <2>4 DEF Readd, Climbing
    <2>5. CASE Advance(c) BY <2>5 DEF Advance, Climbing
    <2>6. CASE Store(c)
      <3> DEFINE k == KeyOf[c]
      <3>1. /\ pc' = [pc EXCEPT ![c] = "done"] /\ by' = [by EXCEPT ![k] = c]
            /\ last' = [last EXCEPT ![k] = arg[c]] /\ arg' = [arg EXCEPT ![c] = 0]
            /\ dropped' = dropped \ {c} /\ UNCHANGED <<stat, restarted>> /\ pc[c] = "store"
        BY <2>6 DEF Store
      <3>2. k \in Keys /\ last'[k] = arg[c] /\ by'[k] = c
        BY <3>1
      <3>3. c \in restarted \/ stat[c] >= arg[c]
        BY <3>1 DEF Climbing
      <3>4. ASSUME NEW d \in Clients, d # c, by'[KeyOf[d]] = d
            PROVE  by[KeyOf[d]] = d /\ last'[KeyOf[d]] = last[KeyOf[d]]
        BY <3>1, <3>4
      <3>5. \A d \in Clients \ {c} : /\ pc'[d] = pc[d] /\ arg'[d] = arg[d]
                                     /\ d \in dropped' <=> d \in dropped
        BY <3>1
      <3> HIDE DEF k
      <3>6. QED BY <3>1, <3>2, <3>3, <3>4, <3>5 DEF Climbing, k
    <2>7. QED BY <1>3, <2>1, <2>2, <2>3, <2>4, <2>5, <2>6 DEF Observe
  <1>4. ASSUME NEW r \in Readers, StartScrape(r) PROVE Climbing'
    BY <1>4 DEF StartScrape, Serialised, Climbing
  <1>5. ASSUME NEW r \in Readers, NEW k \in Keys, Read(r, k) PROVE Climbing'
    BY <1>5 DEF Read, Climbing
  <1>6. CASE Collect
    BY <1>6 DEF Collect, Climbing
  <1>7. CASE Abandon
    BY <1>7 DEF Abandon, Climbing
  <1>8. CASE UNCHANGED vars
    BY <1>8 DEF vars, Climbing
  <1>9. QED BY <1>1, <1>2, <1>3, <1>4, <1>5, <1>6, <1>7, <1>8 DEF Next

(* A child is deleted and re-created only after a reset on the server, or   *)
(* after a report of another client for the same labels.                    *)
THEOREM ResetsReal == Spec => ResetsAreReal
  <1>1. Init => Climbing
    BY DEF Init, Climbing, InSwitch
  <1>2. IInv /\ Climbing /\ [Next]_vars => Climbing'
    BY ClimbingStep
  <1>3. IInv /\ Climbing /\ [Next]_vars
          => [\A c \in Clients : (pc[c] = "switch" /\ pc'[c] = "readd" /\ by[KeyOf[c]] = c)
                                  => c \in dropped]_vars
    <2> SUFFICES ASSUME IInv, Climbing, Next,
                        NEW d \in Clients, pc[d] = "switch", pc'[d] = "readd",
                        by[KeyOf[d]] = d
                 PROVE  d \in dropped
      OBVIOUS
    <2> USE DEF IInv, TypeOK, InSwitch
    <2>1. Drop(d)
      <3>1. ASSUME NEW c \in Clients, Server(c) PROVE FALSE
        BY <3>1 DEF Server, Grow, Reset
      <3>2. ASSUME NEW c \in Clients, Select(c) PROVE FALSE
        BY <3>2 DEF Select, Fetch, NoRow, Fail
      <3>3. ASSUME NEW c \in Clients, Observe(c) PROVE Drop(d)
        BY <3>3 DEF Observe, Lock, First, Drop, Readd, Advance, Store
      <3>4. ASSUME NEW r \in Readers, StartScrape(r) PROVE FALSE
        BY <3>4 DEF StartScrape
      <3>5. ASSUME NEW r \in Readers, NEW k \in Keys, Read(r, k) PROVE FALSE
        BY <3>5 DEF Read
      <3>6. CASE Collect BY <3>6 DEF Collect
      <3>7. CASE Abandon BY <3>7 DEF Abandon
      <3>8. QED BY <3>1, <3>2, <3>3, <3>4, <3>5, <3>6, <3>7 DEF Next
    <2>2. last[KeyOf[d]] \in Nat /\ arg[d] \in Nat /\ arg[d] < last[KeyOf[d]]
      BY <2>1 DEF Drop, Stats
    <2>3. d \in dropped \/ arg[d] >= last[KeyOf[d]]
      BY <2>1 DEF Drop, Climbing
    <2>4. QED BY <2>2, <2>3
  <1>4. QED BY <1>1, <1>2, <1>3, Inductive, PTL DEF Spec, ResetsAreReal
===============================================================================

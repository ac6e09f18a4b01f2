--------------------------- MODULE VersionGateProofs ---------------------------
(***************************************************************************)
(* Proofs about VersionGate: for any number of goroutines, any pool size,  *)
(* any server version and any Select functions built from gates.           *)
(*                                                                         *)
(* The argument relates what a Select function has collected to the gates  *)
(* behind it.  An additive function has only parts the server has reached  *)
(* (AddsHeld), and any function that was never answered from an unknown    *)
(* version has exactly the parts the version says (Exact).  A function     *)
(* that begins by giving up on a server without the view has seen a        *)
(* version when it goes on (Sighted); of the functions of exporter/db only *)
(* SelectPgStatBgwriter is neither of the two.                             *)
(***************************************************************************)
EXTENDS VersionGate, TLAPS

(* A goroutine inside a Select function that still has a gate to pass, and  *)
(* one whose statement is complete.                                         *)
Asking   == {"read", "lock", "answer"} \cup Probing
Complete == {"send", "running"}

(* A goroutine is in probeServerVersion exactly while it holds probeMu, and *)
(* then the version is unknown.                                             *)
Probes ==
    \A g \in Goroutines : pc[g] \in Probing <=> mu = g
Unprobed ==
    \A g \in Goroutines : pc[g] \in Probing => version = Unknown

(* The gate and the half a goroutine is at exist.                           *)
AtGate ==
    \A g \in Goroutines :
        /\ pc[g] \in Asking =>
             /\ gate[g] <= Len(sel[g])
             /\ half[g] = "below" => /\ sel[g][gate[g]].below # 0
                                     /\ ~sel[g][gate[g]].skip
             /\ half[g] = "from" => sel[g][gate[g]].from # 0
        /\ pc[g] \in Complete => gate[g] = Len(sel[g]) + 1

(* The version the client knows is never later than the server's.           *)
NotAhead == version <= server

Passed(g) == 1 .. gate[g] - 1

Base == TypeOK /\ Probes /\ Unprobed /\ AtGate /\ NotAhead

-------------------------------------------------------------------------------
(* Enter only moves the goroutine that calls it, to a gate that exists or   *)
(* past the last one.                                                       *)
LEMMA EnterType ==
    ASSUME TypeOK, NEW g \in Goroutines, NEW s \in Seq(Gates), NEW k \in Nat \ {0},
           k <= Len(s) + 1, Enter(g, s, k)
    PROVE  /\ gate' = [gate EXCEPT ![g] = k] /\ gate' \in [Goroutines -> Nat \ {0}]
           /\ half' \in [Goroutines -> {"from", "below"}]
           /\ \A h \in Goroutines \ {g} : half'[h] = half[h] /\ pc'[h] = pc[h]
           /\ pc' \in [Goroutines -> {"idle", "read", "lock", "answer", "nil", "send",
                                      "running"} \cup Probing]
           /\ k <= Len(s) => pc'[g] = "read" /\ half'[g] = FirstHalf(s, k)
           /\ k > Len(s) => pc'[g] = "send" /\ k = Len(s) + 1
  BY DEF Enter, Goto, TypeOK, FirstHalf

(* Every Select function is a sequence of gates.                            *)
LEMMA SelSeq ==
    ASSUME TypeOK, NEW g \in Goroutines
    PROVE  sel[g] \in Seq(Gates)
  <1>1. CASE sel[g] = <<>>
    BY <1>1
  <1>2. CASE sel[g] \in Selects
    BY <1>2, VersionGateAssumption
  <1> QED BY <1>1, <1>2 DEF TypeOK

LEMMA BaseInit == Init => Base
  BY VersionGateAssumption DEF Init, Base, TypeOK, Probes, Unprobed, AtGate, NotAhead,
     Probing, Asking, Complete, Unknown

LEMMA BaseNext == Base /\ [Next]_vars => Base'
  <1> SUFFICES ASSUME Base, [Next]_vars PROVE Base'
    OBVIOUS
  <1> USE VersionGateAssumption
  <1>1. CASE UNCHANGED vars
    BY <1>1 DEF Base, TypeOK, Probes, Unprobed, AtGate, NotAhead, vars, select
  <1>2. CASE Upgrade
    <2>1. PICK v \in Versions : v > server /\ server' = v
      BY <1>2 DEF Upgrade
    <2>2. UNCHANGED <<version, mu, pc, sel, gate, half, parts, blind>>
      BY <1>2 DEF Upgrade, select
    <2>3. server \in Nat /\ v \in Nat /\ version \in Nat
      BY DEF Base, TypeOK, Unknown
    <2>4. NotAhead'
      BY <2>1, <2>2, <2>3 DEF Base, NotAhead
    <2>5. TypeOK'
      BY <2>1, <2>2 DEF Base, TypeOK
    <2>6. (Probes /\ Unprobed /\ AtGate)'
      BY <2>2 DEF Base, Probes, Unprobed, AtGate
    <2>7. QED BY <2>4, <2>5, <2>6 DEF Base
  <1>3. ASSUME NEW g \in Goroutines, Ask(g) PROVE Base'
    <2>1. CASE FirstRead(g)
      BY <2>1 DEF FirstRead, At, Goto, Base, TypeOK, Probes, Unprobed, AtGate, NotAhead,
         select, Probing, Asking, Complete
    <2>2. CASE Lock(g)
      <3>1. /\ pc[g] = "lock" /\ mu = Free /\ UNCHANGED <<server, version, blind>>
            /\ UNCHANGED <<sel, gate, half, parts>>
        BY <2>2 DEF Lock, At, select
      <3>2. CASE version # Unknown /\ Goto(g, "answer") /\ UNCHANGED mu
        BY <3>1, <3>2 DEF Goto, Base, TypeOK, Probes, Unprobed, AtGate, NotAhead,
           Probing, Asking, Complete
      <3>3. CASE version = Unknown /\ Goto(g, "acquire") /\ mu' = g
        BY <3>1, <3>3 DEF Goto, Base, TypeOK, Probes, Unprobed, AtGate, NotAhead,
           Probing, Asking, Complete
      <3>4. QED BY <2>2, <3>2, <3>3 DEF Lock
    <2>3. CASE ProbeAcquire(g)
      BY <2>3 DEF ProbeAcquire, At, Goto, Base, TypeOK, Probes, Unprobed, AtGate, NotAhead,
         select, Probing, Asking, Complete
    <2>4. CASE ProbeDone(g)
      BY <2>4 DEF ProbeDone, At, Goto, Base, TypeOK, Probes, Unprobed, AtGate, NotAhead,
         select, Probing, Asking, Complete
    <2>5. CASE ProbeFail(g)
      BY <2>5 DEF ProbeFail, At, Goto, Base, TypeOK, Probes, Unprobed, AtGate, NotAhead,
         select, Probing, Asking, Complete
    <2>6. QED BY <1>3, <2>1, <2>2, <2>3, <2>4, <2>5 DEF Ask
  <1>4. ASSUME NEW g \in Goroutines, Run(g) PROVE Base'
    <2>1. ASSUME NEW s \in Selects, Begin(g, s) PROVE Base'
      <3>1. s \in Seq(Gates) /\ Len(s) \in Nat
        OBVIOUS
      <3>2. Enter(g, s, 1) /\ 1 <= Len(s) + 1
        BY <2>1, <3>1 DEF Begin
      <3>3. /\ gate' = [gate EXCEPT ![g] = 1] /\ gate' \in [Goroutines -> Nat \ {0}]
            /\ half' \in [Goroutines -> {"from", "below"}]
            /\ \A h \in Goroutines \ {g} : half'[h] = half[h] /\ pc'[h] = pc[h]
            /\ pc' \in [Goroutines -> {"idle", "read", "lock", "answer", "nil", "send",
                                       "running"} \cup Probing]
            /\ 1 <= Len(s) => pc'[g] = "read" /\ half'[g] = FirstHalf(s, 1)
            /\ 1 > Len(s) => pc'[g] = "send" /\ 1 = Len(s) + 1
        BY <3>1, <3>2, EnterType DEF Base
      <3>4. 1 <= Len(s) => s[1] \in Gates
        BY <3>1
      <3> QED
        BY <2>1, <3>1, <3>3, <3>4 DEF Begin, At, Base, TypeOK, Probes, Unprobed, AtGate,
           NotAhead, Probing, Asking, Complete, FirstHalf, Gates
    <2>2. CASE Answer(g)
      <3> DEFINE s == sel[g]
                 k == gate[g]
      <3>1. s \in Seq(Gates) /\ Len(s) \in Nat
        BY SelSeq DEF Base
      <3>2. At(g, "answer") /\ k \in 1 .. Len(s) /\ k + 1 \in Nat \ {0} /\ s[k] \in Gates
        BY <2>2, <3>1 DEF Answer, Answered, At, Base, TypeOK, AtGate, Asking
      <3>3. UNCHANGED <<server, version, mu, sel>> /\ blind' \subseteq Goroutines
        BY <2>2 DEF Answer, Answered, Base, TypeOK
      <3>4. CASE Enter(g, s, k + 1) /\ parts' \in [Goroutines -> SUBSET Nat]
        <4>1. /\ gate' = [gate EXCEPT ![g] = k + 1] /\ gate' \in [Goroutines -> Nat \ {0}]
              /\ half' \in [Goroutines -> {"from", "below"}]
              /\ \A h \in Goroutines \ {g} : half'[h] = half[h] /\ pc'[h] = pc[h]
              /\ pc' \in [Goroutines -> {"idle", "read", "lock", "answer", "nil", "send",
                                         "running"} \cup Probing]
              /\ k + 1 <= Len(s) => pc'[g] = "read" /\ half'[g] = FirstHalf(s, k + 1)
              /\ k + 1 > Len(s) => pc'[g] = "send" /\ k + 1 = Len(s) + 1
          BY <3>1, <3>2, <3>4, EnterType DEF Base
        <4>2. k + 1 <= Len(s) => s[k + 1] \in Gates
          BY <3>1, <3>2
        <4>3. TypeOK' /\ NotAhead'
          BY <3>3, <3>4, <4>1 DEF Base, TypeOK, NotAhead
        <4>4. Probes' /\ Unprobed'
          BY <3>2, <3>3, <4>1 DEF At, Base, Probes, Unprobed, Probing
        <4>5. ASSUME NEW h \in Goroutines \ {g}
              PROVE  pc'[h] = pc[h] /\ gate'[h] = gate[h] /\ half'[h] = half[h]
          BY <4>1 DEF Base, TypeOK
        <4>6. gate'[g] = k + 1 /\ pc'[g] \in {"read", "send"}
          BY <3>1, <3>2, <4>1 DEF Base, TypeOK
        <4>7. AtGate'
          <5> SUFFICES ASSUME NEW h \in Goroutines
              PROVE /\ pc'[h] \in Asking =>
                         /\ gate'[h] <= Len(sel[h])
                         /\ half'[h] = "below" => /\ sel[h][gate'[h]].below # 0
                                                  /\ ~sel[h][gate'[h]].skip
                         /\ half'[h] = "from" => sel[h][gate'[h]].from # 0
                    /\ pc'[h] \in Complete => gate'[h] = Len(sel[h]) + 1
            BY <3>3 DEF AtGate, Asking, Probing, Complete
          <5>1. CASE h # g
            BY <4>5, <5>1 DEF Base, AtGate
          <5>2. CASE h = g
            <6>1. CASE k + 1 <= Len(s)
              <7>1. pc'[g] = "read" /\ s[k + 1] \in Gates
                BY <4>1, <4>2, <6>1
              <7>2. half'[g] = IF s[k + 1].from = 0 THEN "below" ELSE "from"
                BY <3>1, <4>1, <6>1 DEF FirstHalf
              <7>3. s[k + 1].from = 0 => s[k + 1].below # 0 /\ ~s[k + 1].skip
                BY <7>1 DEF Gates
              <7> QED BY <4>6, <5>2, <6>1, <7>1, <7>2, <7>3 DEF Complete
            <6>2. CASE ~(k + 1 <= Len(s))
              <7>1. pc'[g] = "send" /\ k + 1 = Len(s) + 1
                BY <3>1, <3>2, <4>1, <6>2
              <7> QED BY <4>6, <5>2, <7>1 DEF Asking, Probing
            <6> QED BY <6>1, <6>2
          <5> QED BY <5>1, <5>2
        <4> QED BY <4>3, <4>4, <4>7 DEF Base
      <3>5. CASE /\ half[g] = "from" /\ s[k].skip
                 /\ Goto(g, "nil")
                 /\ UNCHANGED <<gate, half, parts>>
        BY <3>2, <3>3, <3>5 DEF Goto, At, Base, TypeOK, Probes, Unprobed, AtGate,
           NotAhead, Probing, Asking, Complete
      <3>6. CASE /\ half[g] = "from" /\ s[k].below # 0
                 /\ half' = [half EXCEPT ![g] = "below"]
                 /\ Goto(g, "read")
                 /\ UNCHANGED <<gate, parts>>
        BY <3>2, <3>3, <3>6 DEF Goto, At, Base, TypeOK, Probes, Unprobed, AtGate,
           NotAhead, Probing, Asking, Complete, Gates
      <3>7. k \in Nat
        BY <3>2
      <3>8. \A x \in SUBSET Nat :
              [parts EXCEPT ![g] = @ \cup x] \in [Goroutines -> SUBSET Nat]
        BY DEF Base, TypeOK
      <3>9. \/ /\ half[g] = "from" /\ s[k].skip
               /\ Goto(g, "nil")
               /\ UNCHANGED <<gate, half, parts>>
            \/ /\ half[g] = "from" /\ s[k].below # 0
               /\ half' = [half EXCEPT ![g] = "below"]
               /\ Goto(g, "read")
               /\ UNCHANGED <<gate, parts>>
            \/ Enter(g, s, k + 1) /\ UNCHANGED parts
            \/ /\ Enter(g, s, k + 1)
               /\ \E x \in SUBSET Nat : parts' = [parts EXCEPT ![g] = @ \cup x]
        BY <2>2, <3>7 DEF Answer, Answered
      <3>10. UNCHANGED parts => parts' \in [Goroutines -> SUBSET Nat]
        BY DEF Base, TypeOK
      <3>11. (\E x \in SUBSET Nat : parts' = [parts EXCEPT ![g] = @ \cup x])
                => parts' \in [Goroutines -> SUBSET Nat]
        BY <3>8
      <3> QED
        BY <3>4, <3>5, <3>6, <3>9, <3>10, <3>11
    <2>3. CASE Send(g)
      BY <2>3 DEF Send, At, Goto, Base, TypeOK, Probes, Unprobed, AtGate, NotAhead,
         select, Probing, Asking, Complete
    <2>4. CASE Return(g)
      BY <2>4 DEF Return, At, Goto, Base, TypeOK, Probes, Unprobed, AtGate, NotAhead,
         select, Probing, Asking, Complete
    <2>5. QED BY <1>4, <2>1, <2>2, <2>3, <2>4 DEF Run
  <1>5. QED BY <1>1, <1>2, <1>3, <1>4 DEF Next

(* The invariant the other proofs start from.                               *)
LEMMA BaseInvariant == Spec => []Base
  BY BaseInit, BaseNext, PTL DEF Spec

(* Type correctness of every reachable state.                               *)
THEOREM TypeCorrect == Spec => []TypeOK
  BY BaseInvariant, PTL DEF Base

(* At most one probe is under way, under probeMu, and none once the version *)
(* is known: the promise of db.go:41-43, upgrades or not; and probeMu is    *)
(* never left locked.                                                       *)
THEOREM OneProbe == Spec => []SingleFlight
  <1>1. Base => SingleFlight
    BY DEF Base, Probes, Unprobed, SingleFlight
  <1>2. QED BY <1>1, BaseInvariant, PTL

(* The version is learnt once and kept (db.go:31-37), also when probes are  *)
(* under way at the time: a Select function whose questions were all        *)
(* answered from a known version had them answered from one version.        *)
LearntOnce == [][version # Unknown => UNCHANGED version]_vars

THEOREM VersionLearntOnce == Spec => LearntOnce
  <1>1. Base /\ [Next]_vars => (version # Unknown => UNCHANGED version)
    <2> SUFFICES ASSUME Base, [Next]_vars, version # Unknown PROVE UNCHANGED version
      OBVIOUS
    <2>1. ASSUME NEW g \in Goroutines, ProbeDone(g) PROVE FALSE
      BY <2>1 DEF Base, Unprobed, ProbeDone, At, Probing
    <2>2. QED
      BY <2>1 DEF Next, Ask, Run, FirstRead, Lock, ProbeAcquire, ProbeFail, Begin, Answer,
                  Answered, Send, Return, Upgrade, vars
  <1>2. QED BY <1>1, BaseInvariant, PTL DEF Spec, LearntOnce

-------------------------------------------------------------------------------
(* An additive Select function has added only columns the server has, and   *)
(* gone on only past views the server has.                                  *)
AddsHeld ==
    \A g \in Goroutines :
        pc[g] \in Asking \cup Complete /\ Additive(sel[g]) =>
            /\ parts[g] \subseteq {k \in Passed(g) : ~sel[g][k].skip /\ Has(server, sel[g][k])}
            /\ \A k \in Passed(g) : sel[g][k].skip => Has(server, sel[g][k])

(* What a yes to an additive gate says of the server, now and later.        *)
LEMMA YesHolds ==
    ASSUME NEW q \in Gates, q.below = 0, NEW n \in Nat, NEW m \in Nat, n <= m,
           n >= q.from * 10000
    PROVE  Has(m, q)
  BY DEF Has, Gates

LEMMA LaterHas ==
    ASSUME NEW q \in Gates, q.below = 0, NEW n \in Nat, NEW m \in Nat, n <= m, Has(n, q)
    PROVE  Has(m, q)
  BY DEF Has, Gates

LEMMA AddsHeldNext == Base /\ AddsHeld /\ [Next]_vars => AddsHeld'
  <1> SUFFICES ASSUME Base, AddsHeld, [Next]_vars,
                      NEW h \in Goroutines,
                      pc'[h] \in Asking \cup Complete, Additive(sel'[h])
               PROVE  /\ parts'[h] \subseteq {k \in Passed(h)' : ~sel'[h][k].skip /\ Has(server', sel'[h][k])}
                      /\ \A k \in Passed(h)' : sel'[h][k].skip => Has(server', sel'[h][k])
    BY DEF AddsHeld, Additive, Asking, Complete, Probing, Has
  <1> DEFINE Held(srv) ==
        /\ parts[h] \subseteq {k \in Passed(h) : ~sel[h][k].skip /\ Has(srv, sel[h][k])}
        /\ \A k \in Passed(h) : sel[h][k].skip => Has(srv, sel[h][k])
  <1>a. ASSUME pc[h] \in Asking \cup Complete, Additive(sel[h]) PROVE Held(server)
    BY <1>a DEF AddsHeld
  <1>b. server \in Nat /\ version \in Nat /\ version <= server
    BY VersionGateAssumption DEF Base, TypeOK, NotAhead, Unknown
  <1>c. sel[h] \in Seq(Gates) /\ Len(sel[h]) \in Nat /\ gate[h] \in Nat \ {0}
    BY SelSeq DEF Base, TypeOK
  <1>d. pc[h] \in Asking \cup Complete => gate[h] - 1 <= Len(sel[h])
    BY <1>c DEF Base, AtGate
  <1>1. CASE /\ UNCHANGED <<server, sel, gate, parts>>
             /\ pc[h] \in Asking \cup Complete
    BY <1>1, <1>a DEF Passed
  <1>2. CASE Upgrade
    <2>1. server' \in Nat /\ server < server' /\ UNCHANGED <<pc, sel, gate, parts>>
      BY <1>2, VersionGateAssumption DEF Upgrade, select
    <2>2. Held(server)
      BY <1>a, <2>1
    <2>3. ASSUME NEW k \in Passed(h), Has(server, sel[h][k]) PROVE Has(server', sel[h][k])
      <3>1. k \in 1 .. Len(sel[h]) /\ sel[h][k] \in Gates
        BY <1>c, <1>d, <2>1 DEF Passed
      <3>2. sel[h][k].below = 0
        BY <3>1, <2>1 DEF Additive
      <3> QED BY <3>1, <3>2, <2>1, <2>3, <1>b, LaterHas
    <2> QED BY <2>1, <2>2, <2>3 DEF Passed
  <1>3. ASSUME NEW g \in Goroutines, NEW s \in Selects, Begin(g, s), g = h
        PROVE  parts'[h] = {} /\ gate'[h] = 1
    BY <1>3 DEF Begin, Enter, Base, TypeOK
  <1>4. ASSUME NEW g \in Goroutines, Ask(g) \/ Run(g), g # h
        PROVE  UNCHANGED server /\ pc'[h] = pc[h] /\ sel'[h] = sel[h]
               /\ gate'[h] = gate[h] /\ parts'[h] = parts[h]
    <2>1. CASE Answer(g)
      BY <2>1, <1>4 DEF Answer, Answered, Enter, Goto, Base, TypeOK
    <2>2. CASE \E s \in Selects : Begin(g, s)
      BY <2>2, <1>4 DEF Begin, Enter, Goto, Base, TypeOK
    <2>3. CASE Ask(g) \/ Send(g) \/ Return(g)
      BY <2>3, <1>4 DEF Ask, FirstRead, Lock, ProbeAcquire, ProbeDone, ProbeFail, Send,
         Return, Goto, select, Base, TypeOK
    <2> QED BY <2>1, <2>2, <2>3, <1>4 DEF Run
  <1>5. CASE Answer(h)
    <2> DEFINE s == sel[h]
               k == gate[h]
    <2>1. k \in 1 .. Len(s) /\ s[k] \in Gates /\ UNCHANGED <<server, sel>> /\ Held(server)
      BY <1>5, <1>a, <1>c DEF Answer, Answered, At, Base, AtGate, Asking, Probing
    <2>2. s[k].below = 0 /\ half[h] = "from"
      BY <1>5, <2>1 DEF Additive, Answer, Answered, At, Base, TypeOK, AtGate, Asking
    <2>3. CASE AtLeast(s[k].from)
      <3>1. Has(server, s[k])
        BY <1>b, <2>1, <2>2, <2>3, YesHolds DEF AtLeast
      <3>2. gate'[h] = k + 1
            /\ parts'[h] = parts[h] \cup (IF s[k].skip THEN {} ELSE {k})
        BY <1>5, <2>2, <2>3 DEF Answer, Answered, Question, Enter, Base, TypeOK
      <3>3. Passed(h)' = Passed(h) \cup {k}
        BY <2>1, <3>2 DEF Passed
      <3> QED BY <2>1, <3>1, <3>2, <3>3
    <2>4. CASE ~AtLeast(s[k].from) /\ ~s[k].skip
      <3>1. gate'[h] = k + 1 /\ parts'[h] = parts[h]
        BY <1>5, <2>2, <2>4 DEF Answer, Answered, Question, Enter, Base, TypeOK
      <3>2. Passed(h)' = Passed(h) \cup {k}
        BY <2>1, <3>1 DEF Passed
      <3> QED BY <2>1, <2>4, <3>1, <3>2
    <2>5. CASE ~AtLeast(s[k].from) /\ s[k].skip
      <3>1. pc'[h] = "nil"
        BY <1>5, <2>2, <2>5 DEF Answer, Answered, Question, Goto, Base, TypeOK
      <3> QED BY <3>1 DEF Asking, Complete, Probing
    <2> QED BY <2>3, <2>4, <2>5
  <1>6. CASE Ask(h) \/ Send(h)
    <2>1. UNCHANGED <<server, sel, gate, parts>> /\ pc[h] \in Asking \cup Complete
      BY <1>6 DEF Ask, FirstRead, Lock, ProbeAcquire, ProbeDone, ProbeFail, Send, At,
         select, Asking, Complete, Probing
    <2> QED BY <1>1, <2>1
  <1>7. ASSUME Return(h) PROVE FALSE
    BY <1>7 DEF Return, Goto, Base, TypeOK, Asking, Complete, Probing
  <1>8. CASE \E s \in Selects : Begin(h, s)
    <2>1. parts'[h] = {} /\ gate'[h] = 1
      BY <1>3, <1>8
    <2> QED BY <2>1 DEF Passed
  <1>9. CASE \E g \in Goroutines \ {h} : Ask(g) \/ Run(g)
    <2>1. UNCHANGED server /\ pc'[h] = pc[h] /\ sel'[h] = sel[h]
          /\ gate'[h] = gate[h] /\ parts'[h] = parts[h]
      BY <1>4, <1>9
    <2> QED BY <2>1, <1>a DEF Passed
  <1>10. CASE UNCHANGED vars
    BY <1>1, <1>10 DEF vars, select
  <1> QED BY <1>2, <1>5, <1>6, <1>7, <1>8, <1>9, <1>10 DEF Next, Run

(* No upgrade and no failed probe makes the server reject the statement of  *)
(* a Select function that only adds columns.                                *)
THEOREM AdditiveSafe == Spec => []AdditiveNeverRejected
  <1>1. Init => AddsHeld
    BY DEF Init, AddsHeld, Asking, Complete, Probing
  <1>2. Base /\ AddsHeld => AdditiveNeverRejected
    <2> SUFFICES ASSUME Base, AddsHeld, NEW g \in Goroutines, pc[g] \in Complete,
                        Additive(sel[g])
                 PROVE  Fits(g)
      BY DEF AdditiveNeverRejected, Complete
    <2>1. Len(sel[g]) \in Nat
      BY SelSeq DEF Base
    <2>2. Passed(g) = 1 .. Len(sel[g])
      BY <2>1 DEF Base, AtGate, Passed
    <2> QED BY <2>2 DEF AddsHeld, Fits, View, Wanted
  <1>3. QED BY <1>1, <1>2, AddsHeldNext, BaseInvariant, PTL DEF Spec

-------------------------------------------------------------------------------
(* A goroutine that never got a blind answer has added exactly the columns  *)
(* of the gates it has passed that the known version has, and passed only   *)
(* views it has.  As long as it has no answer the version may be unknown    *)
(* and still change; after that it is fixed.                                *)
Added(v, g) == {k \in Passed(g) : ~sel[g][k].skip /\ Has(v, sel[g][k])}

ExactOf(g) ==
    /\ pc[g] \in Asking \cup Complete =>
          /\ parts[g] = Added(version, g)
          /\ \A k \in Passed(g) : sel[g][k].skip => Has(version, sel[g][k])
          /\ Passed(g) # {} => version # Unknown
    /\ pc[g] \in Asking /\ half[g] = "below" /\ sel[g][gate[g]].from # 0 =>
          version # Unknown /\ version >= sel[g][gate[g]].from * 10000
    /\ pc[g] = "nil" => version # Unknown /\ ~View(version, sel[g])

Exact == \A g \in Goroutines \ blind : ExactOf(g)

LEMMA OthersStay ==
    ASSUME Base, NEW h \in Goroutines, NEW g \in Goroutines, g # h, Ask(g) \/ Run(g)
    PROVE  /\ pc'[h] = pc[h] /\ sel'[h] = sel[h] /\ gate'[h] = gate[h]
           /\ half'[h] = half[h] /\ parts'[h] = parts[h]
           /\ h \in blind' <=> h \in blind
           /\ version' = version \/ version = Unknown
  <1>1. CASE Answer(g)
    BY <1>1 DEF Answer, Answered, Enter, Goto, Base, TypeOK
  <1>2. CASE \E s \in Selects : Begin(g, s)
    BY <1>2 DEF Begin, Enter, Goto, Base, TypeOK
  <1>3. CASE Ask(g) \/ Send(g) \/ Return(g)
    BY <1>3 DEF Ask, FirstRead, Lock, ProbeAcquire, ProbeDone, ProbeFail, Send, Return,
       At, Goto, select, Base, TypeOK, Unprobed, Probing
  <1> QED BY <1>1, <1>2, <1>3 DEF Run

(* The outcomes of an answer from a known version.                          *)
LEMMA ExactAnswer ==
    ASSUME Base, NEW h \in Goroutines, ExactOf(h), Answer(h), version # Unknown
    PROVE  ExactOf(h)'
  <1> DEFINE s == sel[h]
             k == gate[h]
             q == s[k]
  <1>1. /\ k \in 1 .. Len(s) /\ q \in Gates /\ s \in Seq(Gates) /\ Len(s) \in Nat
        /\ k \in Nat \ {0} /\ version \in Nat
        /\ UNCHANGED <<server, version, sel>> /\ pc[h] = "answer"
    BY SelSeq, VersionGateAssumption
       DEF Answer, Answered, At, Base, TypeOK, AtGate, Asking, Probing, Unknown
  <1>2. /\ parts[h] = Added(version, h)
        /\ \A j \in Passed(h) : s[j].skip => Has(version, s[j])
        /\ half[h] = "below" /\ q.from # 0 => version >= q.from * 10000
    BY <1>1 DEF ExactOf, Asking
  <1>3. /\ half[h] = "below" => q.below # 0 /\ ~q.skip
        /\ half[h] = "from" => q.from # 0
        /\ half[h] \in {"from", "below"}
    BY <1>1 DEF Base, TypeOK, AtGate, Asking
  <1>4. /\ q.from \in Nat /\ q.below \in Nat /\ q.skip \in BOOLEAN
        /\ q.skip => q.below = 0
    BY <1>1 DEF Gates
  <1>5. Has(version, q) <=> /\ version >= q.from * 10000
                            /\ q.below = 0 \/ version < q.below * 10000
    BY DEF Has
  <1> DEFINE Next1 == /\ gate'[h] = k + 1
                      /\ half'[h] = FirstHalf(s, k + 1)
                      /\ pc'[h] \in {"read", "send"}
                      /\ pc'[h] = "read" => k + 1 <= Len(s)
  <1>6. ASSUME Next1, Has(version, q),
               parts'[h] = parts[h] \cup (IF q.skip THEN {} ELSE {k})
        PROVE  ExactOf(h)'
    <2>1. Passed(h)' = Passed(h) \cup {k}
      BY <1>1, <1>6 DEF Passed
    <2>2. Added(version, h)' = Added(version, h) \cup (IF q.skip THEN {} ELSE {k})
      BY <1>1, <1>6, <2>1 DEF Added
    <2>3. pc'[h] = "read" /\ half'[h] = "below" => sel'[h][gate'[h]].from = 0
      BY <1>1, <1>6 DEF FirstHalf
    <2> QED BY <1>1, <1>2, <1>6, <2>1, <2>2, <2>3 DEF ExactOf, Added, Asking, Complete, Probing
  <1>7. ASSUME Next1, ~Has(version, q), ~q.skip, parts'[h] = parts[h]
        PROVE  ExactOf(h)'
    <2>1. Passed(h)' = Passed(h) \cup {k}
      BY <1>1, <1>7 DEF Passed
    <2>2. Added(version, h)' = Added(version, h)
      BY <1>1, <1>7, <2>1 DEF Added
    <2>3. pc'[h] = "read" /\ half'[h] = "below" => sel'[h][gate'[h]].from = 0
      BY <1>1, <1>7 DEF FirstHalf
    <2> QED BY <1>1, <1>2, <1>7, <2>1, <2>2, <2>3 DEF ExactOf, Added, Asking, Complete, Probing
  <1>e. ASSUME Enter(h, s, k + 1) PROVE Next1
    BY <1>e, <1>1 DEF Enter, Goto, Base, TypeOK
  <1>8. CASE half[h] = "below"
    <2>1. Question(h) = q.below /\ Enter(h, s, k + 1)
          /\ parts' = [parts EXCEPT ![h] = @ \cup (IF AtLeast(Question(h)) THEN {} ELSE {k})]
      BY <1>8 DEF Answer, Answered, Question
    <2>2. CASE AtLeast(q.below)
      <3>1. ~Has(version, q)
        BY <1>1, <1>3, <1>4, <1>5, <1>8, <2>2 DEF AtLeast
      <3>2. parts'[h] = parts[h]
        BY <2>1, <2>2 DEF Base, TypeOK
      <3> QED BY <1>3, <1>7, <1>8, <1>e, <2>1, <3>1, <3>2
    <2>3. CASE ~AtLeast(q.below)
      <3>1. version >= q.from * 10000
        BY <1>1, <1>2, <1>4, <1>8
      <3>2. Has(version, q)
        BY <1>1, <1>4, <1>5, <2>3, <3>1 DEF AtLeast
      <3>3. parts'[h] = parts[h] \cup {k}
        BY <2>1, <2>3 DEF Base, TypeOK
      <3> QED BY <1>3, <1>6, <1>8, <1>e, <2>1, <3>2, <3>3
    <2> QED BY <2>2, <2>3
  <1>9. CASE half[h] = "from"
    <2>1. Question(h) = q.from
      BY <1>9 DEF Question
    <2>2. CASE AtLeast(q.from) /\ q.below = 0
      <3>1. Enter(h, s, k + 1)
            /\ parts' = [parts EXCEPT ![h] = @ \cup (IF q.skip THEN {} ELSE {k})]
        BY <1>9, <2>1, <2>2 DEF Answer, Answered
      <3>2. Has(version, q)
        BY <1>5, <2>2 DEF AtLeast
      <3>3. parts'[h] = parts[h] \cup (IF q.skip THEN {} ELSE {k})
        BY <3>1 DEF Base, TypeOK
      <3> QED BY <1>6, <1>e, <3>1, <3>2, <3>3
    <2>3. CASE AtLeast(q.from) /\ q.below # 0
      <3>1. half'[h] = "below" /\ pc'[h] = "read" /\ gate'[h] = k /\ parts'[h] = parts[h]
        BY <1>9, <2>1, <2>3 DEF Answer, Answered, Goto, Base, TypeOK
      <3>2. version >= q.from * 10000
        BY <2>3 DEF AtLeast
      <3> QED BY <1>1, <1>2, <3>1, <3>2 DEF ExactOf, Passed, Added, Asking, Complete, Probing
    <2>4. CASE ~AtLeast(q.from) /\ ~q.skip
      <3>1. Enter(h, s, k + 1) /\ parts' = parts
        BY <1>9, <2>1, <2>4 DEF Answer, Answered
      <3>2. ~Has(version, q)
        BY <1>5, <2>4 DEF AtLeast
      <3> QED BY <1>7, <1>e, <2>4, <3>1, <3>2
    <2>5. CASE ~AtLeast(q.from) /\ q.skip
      <3>1. pc'[h] = "nil"
        BY <1>9, <2>1, <2>5 DEF Answer, Answered, Goto, Base, TypeOK
      <3>2. ~View(version, s)
        BY <1>1, <1>5, <2>5 DEF AtLeast, View
      <3> QED BY <1>1, <3>1, <3>2 DEF ExactOf, View, Asking, Complete, Probing
    <2> QED BY <2>2, <2>3, <2>4, <2>5
  <1> QED BY <1>3, <1>8, <1>9

LEMMA ExactNext == Base /\ Exact /\ [Next]_vars => Exact'
  <1> SUFFICES ASSUME Base, Exact, [Next]_vars, NEW h \in Goroutines, h \notin blind'
               PROVE  ExactOf(h)'
    BY DEF Exact
  <1>1. ASSUME UNCHANGED <<sel, gate, half, parts>>, h \notin blind,
               version' = version \/ version = Unknown,
               \/ pc'[h] = pc[h]
               \/ pc[h] \in Asking /\ pc'[h] \in Asking
               \/ pc[h] \in Complete /\ pc'[h] \in Complete
        PROVE  ExactOf(h)'
    <2>1. ExactOf(h)
      BY <1>1 DEF Exact
    <2>2. pc[h] \notin Asking \cap Complete /\ "nil" \notin Asking \cup Complete
          /\ Asking \cap Complete = {}
      BY DEF Asking, Complete, Probing
    <2>3. CASE version' = version
      BY <1>1, <2>1, <2>2, <2>3 DEF ExactOf, Added, Passed, View
    <2>4. CASE version = Unknown
      <3>1. pc[h] \in Asking \cup Complete => Passed(h) = {}
        BY <2>1, <2>4 DEF ExactOf
      <3>2. pc[h] # "nil"
        BY <2>1, <2>4 DEF ExactOf
      <3>3. ~(pc[h] \in Asking /\ half[h] = "below" /\ sel[h][gate[h]].from # 0)
        BY <2>1, <2>4 DEF ExactOf
      <3>4. pc[h] \in Asking \cup Complete => parts[h] = {}
        BY <2>1, <3>1 DEF ExactOf, Added
      <3>5. pc'[h] # "nil" /\ (pc'[h] \in Asking \cup Complete <=> pc[h] \in Asking \cup Complete)
            /\ (pc'[h] \in Asking <=> pc[h] \in Asking)
        BY <1>1, <2>2, <3>2
      <3> QED BY <1>1, <3>1, <3>3, <3>4, <3>5 DEF ExactOf, Added, Passed
    <2> QED BY <1>1, <2>3, <2>4
  <1>2. CASE Upgrade
    BY <1>2, <1>1 DEF Upgrade, select
  <1>3. CASE \E g \in Goroutines \ {h} : Ask(g) \/ Run(g)
    <2>1. /\ pc'[h] = pc[h] /\ sel'[h] = sel[h] /\ gate'[h] = gate[h]
          /\ half'[h] = half[h] /\ parts'[h] = parts[h] /\ h \notin blind
          /\ version' = version \/ version = Unknown
      BY <1>3, OthersStay
    <2>2. ExactOf(h)
      BY <2>1 DEF Exact
    <2>3. CASE version' = version
      BY <2>1, <2>2, <2>3 DEF ExactOf, Added, Passed, View
    <2>4. CASE version = Unknown
      <3>1. pc[h] \in Asking \cup Complete => Passed(h) = {} /\ parts[h] = {}
        BY <2>2, <2>4 DEF ExactOf, Added
      <3> QED BY <2>1, <2>2, <2>4, <3>1 DEF ExactOf, Added, Passed
    <2> QED BY <2>1, <2>3, <2>4
  <1>4. CASE Answer(h)
    <2>1. version # Unknown /\ h \notin blind
      BY <1>4 DEF Answer, Answered
    <2> QED BY <1>4, <2>1, ExactAnswer DEF Exact
  <1>5. CASE Ask(h)
    <2>1. UNCHANGED <<sel, gate, half, parts, blind>>
      BY <1>5 DEF Ask, FirstRead, Lock, ProbeAcquire, ProbeDone, ProbeFail, select
    <2>2. version' = version \/ version = Unknown
      BY <1>5 DEF Ask, FirstRead, Lock, ProbeAcquire, ProbeDone, ProbeFail, At, Base,
         Unprobed, Probing
    <2>3. pc[h] \in Asking /\ pc'[h] \in Asking
      BY <1>5 DEF Ask, FirstRead, Lock, ProbeAcquire, ProbeDone, ProbeFail, At, Goto, Base,
         TypeOK, Asking, Probing
    <2> QED BY <1>1, <2>1, <2>2, <2>3
  <1>6. CASE Send(h)
    <2>1. UNCHANGED <<sel, gate, half, parts, blind, version>>
      BY <1>6 DEF Send, select
    <2>2. pc[h] \in Complete /\ pc'[h] \in Complete
      BY <1>6 DEF Send, At, Goto, Base, TypeOK, Complete
    <2> QED BY <1>1, <2>1, <2>2
  <1>7. CASE Return(h)
    <2>1. pc'[h] = "idle"
      BY <1>7 DEF Return, Goto, Base, TypeOK
    <2> QED BY <2>1 DEF ExactOf, Asking, Complete, Probing
  <1>8. ASSUME NEW s \in Selects, Begin(h, s) PROVE ExactOf(h)'
    <2>1. /\ parts'[h] = {} /\ gate'[h] = 1 /\ sel'[h] = s /\ pc'[h] \in {"read", "send"}
          /\ half'[h] = FirstHalf(s, 1)
      BY <1>8 DEF Begin, Enter, Goto, Base, TypeOK
    <2>2. pc'[h] = "read" => 1 <= Len(s)
      BY <1>8 DEF Begin, Enter, Goto, Base, TypeOK
    <2>3. half'[h] = "below" => s[1].from = 0
      BY <2>1 DEF FirstHalf
    <2>4. Passed(h)' = {}
      BY <2>1 DEF Passed
    <2> QED BY <2>1, <2>3, <2>4 DEF ExactOf, Added, Asking, Complete, Probing
  <1>9. CASE UNCHANGED vars
    BY <1>1, <1>9 DEF vars, select
  <1> QED BY <1>2, <1>3, <1>4, <1>5, <1>6, <1>7, <1>8, <1>9 DEF Next, Run

(* A Select function that never got a blind answer sends exactly the        *)
(* columns of the version the client knows, and none if that has no such    *)
(* view, however the probes of other goroutines fail or succeed between     *)
(* its questions.                                                           *)
THEOREM GatesExact == Spec => []GateCorrect
  <1>1. Init => Exact
    BY DEF Init, Exact, ExactOf, Asking, Complete, Probing
  <1>2. Base /\ Exact => GateCorrect
    <2> SUFFICES ASSUME Base, Exact, NEW g \in Goroutines, g \notin blind
                 PROVE  /\ pc[g] \in Complete =>
                              View(version, sel[g]) /\ parts[g] = Wanted(version, sel[g])
                        /\ pc[g] = "nil" => ~View(version, sel[g])
      BY DEF GateCorrect, Complete
    <2>1. ExactOf(g)
      BY DEF Exact
    <2>2. Len(sel[g]) \in Nat
      BY SelSeq DEF Base
    <2>3. pc[g] \in Complete => Passed(g) = 1 .. Len(sel[g])
      BY <2>2 DEF Base, AtGate, Passed
    <2> QED BY <2>1, <2>3 DEF ExactOf, Added, View, Wanted
  <1>3. QED BY <1>1, <1>2, ExactNext, BaseInvariant, PTL DEF Spec
-------------------------------------------------------------------------------
(* The statements a server rejects.                                         *)

(* A Select function that begins by giving up on a server without the view  *)
(* gives up on an unknown version too: whoever gets past that gate has seen *)
(* a version, and none of the later answers is blind.                       *)
Guarded(s) == s # <<>> /\ s[1].skip

Sighted ==
    \A g \in Goroutines :
        pc[g] \in Asking \cup Complete /\ Guarded(sel[g]) => g \notin blind

(* A blind answer at a gate: it is the first one, and it is no.             *)
LEMMA BlindGivesUp ==
    ASSUME Base, Exact, NEW h \in Goroutines \ blind, Answer(h), version = Unknown,
           Guarded(sel[h])
    PROVE  pc'[h] = "nil"
  <1> DEFINE q == sel[h][gate[h]]
  <1>1. pc[h] = "answer" /\ gate[h] \in Nat \ {0} /\ sel[h] \in Seq(Gates)
        /\ gate[h] <= Len(sel[h]) /\ half[h] \in {"from", "below"}
    BY SelSeq DEF Answer, Answered, At, Base, TypeOK, AtGate, Asking
  <1>2. Passed(h) = {}
    BY <1>1 DEF Exact, ExactOf, Asking
  <1>3. gate[h] = 1
    <2>1. gate[h] # 1 => 1 \in Passed(h)
      BY <1>1 DEF Passed
    <2> QED BY <1>2, <2>1
  <1>4. q.skip /\ q \in Gates
    BY <1>1, <1>3 DEF Guarded
  <1>5. half[h] = "from" /\ q.from # 0
    BY <1>1, <1>4 DEF Base, AtGate, Asking
  <1>6. ~AtLeast(Question(h))
    BY <1>4, <1>5 DEF AtLeast, Question, Unknown, Gates
  <1>7. q.below = 0
    BY <1>4 DEF Gates
  <1> QED
    BY <1>4, <1>5, <1>6, <1>7 DEF Answer, Answered, Goto, Base, TypeOK

LEMMA SightedNext == Base /\ Exact /\ Sighted /\ [Next]_vars => Sighted'
  <1> SUFFICES ASSUME Base, Exact, Sighted, [Next]_vars, NEW h \in Goroutines,
                      pc'[h] \in Asking \cup Complete, Guarded(sel'[h])
               PROVE  h \notin blind'
    BY DEF Sighted, Guarded, Asking, Complete, Probing
  <1>1. ASSUME pc[h] \in Asking \cup Complete, sel'[h] = sel[h], h \in blind' => h \in blind
        PROVE  h \notin blind'
    BY <1>1 DEF Sighted, Guarded
  <1>2. CASE Upgrade \/ UNCHANGED vars
    BY <1>1, <1>2 DEF Upgrade, vars, select
  <1>3. CASE \E g \in Goroutines \ {h} : Ask(g) \/ Run(g)
    BY <1>1, <1>3, OthersStay
  <1>4. CASE Ask(h) \/ Send(h)
    <2>1. UNCHANGED <<sel, blind>> /\ pc[h] \in Asking \cup Complete
      BY <1>4 DEF Ask, FirstRead, Lock, ProbeAcquire, ProbeDone, ProbeFail, Send, At,
         select, Asking, Complete, Probing
    <2> QED BY <1>1, <2>1
  <1>5. CASE Answer(h)
    <2>1. pc[h] \in Asking /\ sel' = sel
      BY <1>5 DEF Answer, Answered, At, Asking
    <2>2. CASE version # Unknown
      <3>1. blind' = blind
        BY <1>5, <2>2 DEF Answer, Answered
      <3> QED BY <1>1, <2>1, <3>1
    <2>3. CASE version = Unknown
      <3>1. h \notin blind
        BY <2>1 DEF Sighted
      <3>2. pc'[h] = "nil"
        BY <1>5, <2>1, <2>3, <3>1, BlindGivesUp
      <3> QED BY <3>2 DEF Asking, Complete, Probing
    <2> QED BY <2>2, <2>3
  <1>6. CASE Return(h)
    <2>1. pc'[h] = "idle"
      BY <1>6 DEF Return, Goto, Base, TypeOK
    <2> QED BY <2>1 DEF Asking, Complete, Probing
  <1>7. CASE \E s \in Selects : Begin(h, s)
    BY <1>7 DEF Begin
  <1> QED BY <1>2, <1>3, <1>4, <1>5, <1>6, <1>7 DEF Next, Run

(* A statement the server rejects, with no upgrade since the probe, is that *)
(* of a goroutine with a blind answer whose function has a gate that adds   *)
(* columns on a no and is not guarded by its first gate.                    *)
LEMMA RejectedIsBlind ==
    ASSUME Base, Exact, Sighted, AdditiveNeverRejected, NEW g \in Goroutines,
           pc[g] \in Complete, ~Fits(g), version \in {Unknown, server}
    PROVE  g \in blind /\ ~Additive(sel[g]) /\ ~Guarded(sel[g])
  <1>1. Passed(g) = 1 .. Len(sel[g])
    <2>1. Len(sel[g]) \in Nat
      BY SelSeq DEF Base
    <2> QED BY <2>1 DEF Base, AtGate, Passed
  <1>2. g \in blind
    <2> SUFFICES ASSUME g \notin blind PROVE FALSE
      OBVIOUS
    <2>1. /\ parts[g] = Added(version, g)
          /\ \A k \in Passed(g) : sel[g][k].skip => Has(version, sel[g][k])
          /\ Passed(g) # {} => version # Unknown
      BY DEF Exact, ExactOf
    <2>2. CASE version = server
      BY <1>1, <2>1, <2>2 DEF Fits, View, Wanted, Added
    <2>3. CASE version = Unknown
      <3>1. Passed(g) = {} /\ parts[g] = {}
        BY <2>1, <2>3 DEF Added
      <3> QED BY <1>1, <3>1 DEF Fits, View
    <2> QED BY <2>2, <2>3
  <1>3. ~Additive(sel[g])
    BY DEF AdditiveNeverRejected, Complete
  <1>4. ~Guarded(sel[g])
    BY <1>2 DEF Sighted
  <1> QED BY <1>2, <1>3, <1>4

(* What the gates of the Select functions look like, one by one.            *)
LEMMA OneIsUnguarded ==
    ASSUME NEW s \in SelectFunctions, ~Additive(s), ~Guarded(s)
    PROVE  s = SelectPgStatBgwriter
  <1>1. \A q : Additive(<<q>>) <=> q.below = 0
    BY DEF Additive
  <1>2. \A q, r : Additive(<<q, r>>) <=> q.below = 0 /\ r.below = 0
    BY DEF Additive
  <1>3. \A q, r, t : Additive(<<q, r, t>>) <=> q.below = 0 /\ r.below = 0 /\ t.below = 0
    BY DEF Additive
  <1>4. Additive(<<>>)
    BY DEF Additive
  <1> QED
    BY <1>1, <1>2, <1>3, <1>4
       DEF SelectFunctions, Guarded, Skip, From, Within, SelectPgStatActivity,
           SelectPgReplicationSlots, SelectPgStatCheckpointer, SelectPgStatDatabase,
           SelectPgStatIO, SelectPgStatProgressAnalyze, SelectPgStatProgressBasebackup,
           SelectPgStatProgressCopy, SelectPgStatSLRU, SelectPgStatSubscriptionStats,
           SelectPgStatUserTables, SelectPgStatWal

(* Of the Select functions of exporter/db only SelectPgStatBgwriter can     *)
(* send a statement that a server rejects whose version has not changed     *)
(* since the probe, and only when it was composed from an unknown version.  *)
THEOREM OnlyBgwriter ==
    ASSUME Selects \subseteq SelectFunctions
    PROVE  Spec => []OnlyBgwriterRejected
  <1>1. Init => Exact /\ Sighted
    BY DEF Init, Exact, ExactOf, Sighted, Asking, Complete, Probing
  <1>2. Base /\ Exact /\ Sighted /\ AdditiveNeverRejected => OnlyBgwriterRejected
    <2> SUFFICES ASSUME Base, Exact, Sighted, AdditiveNeverRejected, NEW g \in Goroutines,
                        pc[g] \in Complete, ~Fits(g), version \in {Unknown, server}
                 PROVE  g \in blind /\ sel[g] = SelectPgStatBgwriter
      BY DEF OnlyBgwriterRejected, Complete
    <2>1. g \in blind /\ ~Additive(sel[g]) /\ ~Guarded(sel[g])
      BY RejectedIsBlind
    <2>2. sel[g] # <<>>
      BY <2>1 DEF Additive
    <2>3. sel[g] \in SelectFunctions
      BY <2>2 DEF Base, TypeOK
    <2> QED BY <2>1, <2>3, OneIsUnguarded
  <1>3. QED BY <1>1, <1>2, ExactNext, SightedNext, BaseInvariant, AdditiveSafe, PTL DEF Spec
-------------------------------------------------------------------------------
(* How much a Select function still has to do: the questions of its gates,  *)
(* two for each at the most, each of which takes five steps at the most,    *)
(* and the steps of the question, the statement or the return it is at.     *)
Places == {"idle", "read", "lock", "answer", "nil", "send", "running"} \cup Probing

Steps(l) == CASE l = "idle"            -> 0
              [] l = "running"         -> 1
              [] l \in {"nil", "send"} -> 2
              [] l = "answer"          -> 3
              [] l = "probe"           -> 4
              [] l = "acquire"         -> 5
              [] l = "lock"            -> 6
              [] OTHER                 -> 7

Halves(h)    == IF h = "from" THEN 1 ELSE 0
Questions(g) == IF pc[g] \in Asking THEN 2 * (Len(sel[g]) - gate[g]) + Halves(half[g]) ELSE 0
Work(g)      == 5 * Questions(g) + Steps(pc[g])

Mine(g) == <<pc[g], sel[g], gate[g], half[g], parts[g]>>

(* The steps of a goroutine never repeat: not because the probe failed, nor *)
(* because another goroutine learnt the version, or has taken probeMu.      *)
WorkFalls == [][\A g \in Goroutines : pc[g] # "idle" /\ Mine(g)' # Mine(g) => Work(g)' < Work(g)]_vars

(* It is never more than ten steps for each gate, and two; and 0 when the   *)
(* function has returned.                                                   *)
WorkBounded == \A g \in Goroutines : /\ Work(g) \in 0 .. 10 * Len(sel[g]) + 2
                                     /\ Work(g) = 0 <=> pc[g] = "idle"

LEMMA StepsOf ==
    /\ Steps("idle") = 0 /\ Steps("running") = 1 /\ Steps("nil") = 2 /\ Steps("send") = 2
    /\ Steps("answer") = 3 /\ Steps("probe") = 4 /\ Steps("acquire") = 5
    /\ Steps("lock") = 6 /\ Steps("read") = 7
  BY DEF Steps

LEMMA HalvesOf == Halves("from") = 1 /\ Halves("below") = 0
  BY DEF Halves

(* The gate of who asks exists, and so its questions are a number.          *)
LEMMA QuestionsLeft ==
    ASSUME Base, NEW g \in Goroutines
    PROVE  /\ Len(sel[g]) \in Nat /\ gate[g] \in Nat \ {0}
           /\ Halves(half[g]) \in 0 .. 1
           /\ pc[g] \in Asking =>
                /\ gate[g] <= Len(sel[g])
                /\ Questions(g) = 2 * (Len(sel[g]) - gate[g]) + Halves(half[g])
                /\ Questions(g) \in 0 .. 2 * Len(sel[g]) - 1
           /\ pc[g] \notin Asking => Questions(g) = 0
  <1>1. Len(sel[g]) \in Nat
    BY SelSeq DEF Base
  <1>2. gate[g] \in Nat \ {0} /\ half[g] \in {"from", "below"}
    BY DEF Base, TypeOK
  <1>3. Halves(half[g]) \in 0 .. 1
    BY <1>2, HalvesOf
  <1>4. pc[g] \in Asking => gate[g] <= Len(sel[g])
    BY DEF Base, AtGate
  <1> QED BY <1>1, <1>2, <1>3, <1>4 DEF Questions

LEMMA BoundOfWork == Base => WorkBounded
  <1> SUFFICES ASSUME Base, NEW g \in Goroutines
               PROVE  /\ Work(g) \in 0 .. 10 * Len(sel[g]) + 2
                      /\ Work(g) = 0 <=> pc[g] = "idle"
    BY DEF WorkBounded
  <1>1. pc[g] \in Places
    BY DEF Base, TypeOK, Places
  <1>2. CASE pc[g] \in Asking
    <2>1. Steps(pc[g]) \in 3 .. 7
      BY <1>2, StepsOf DEF Asking, Probing
    <2>2. Questions(g) \in 0 .. 2 * Len(sel[g]) - 1 /\ Len(sel[g]) \in Nat
      BY <1>2, QuestionsLeft
    <2>3. pc[g] # "idle"
      BY <1>2 DEF Asking, Probing
    <2> QED BY <2>1, <2>2, <2>3 DEF Work
  <1>3. CASE pc[g] \notin Asking
    <2>1. pc[g] \in {"idle", "nil", "send", "running"}
      BY <1>1, <1>3 DEF Places, Asking
    <2>2. Steps(pc[g]) \in 0 .. 2 /\ (Steps(pc[g]) = 0 <=> pc[g] = "idle")
      BY <2>1, StepsOf
    <2>3. Questions(g) = 0 /\ Len(sel[g]) \in Nat
      BY <1>3, QuestionsLeft
    <2> QED BY <2>2, <2>3 DEF Work
  <1> QED BY <1>2, <1>3

(* A step that leaves the questions of g alone.                             *)
LEMMA SameQuestions ==
    ASSUME Base, NEW g \in Goroutines, pc[g] \in Asking, pc'[g] \in Asking,
           UNCHANGED <<sel, gate, half>>
    PROVE  Questions(g)' = Questions(g)
  BY DEF Questions, Asking, Probing

LEMMA AskFalls ==
    ASSUME Base, NEW g \in Goroutines, Ask(g)
    PROVE  Work(g)' < Work(g)
  <1>1. pc[g] \in Asking /\ pc'[g] \in Asking /\ UNCHANGED <<sel, gate, half>>
    BY DEF Ask, FirstRead, Lock, ProbeAcquire, ProbeDone, ProbeFail, At, Goto, select,
       Base, TypeOK, Asking, Probing
  <1>2. Steps(pc'[g]) < Steps(pc[g]) /\ Steps(pc[g]) \in Nat /\ Steps(pc'[g]) \in Nat
    BY StepsOf DEF Ask, FirstRead, Lock, ProbeAcquire, ProbeDone, ProbeFail, At, Goto,
       Base, TypeOK, Probing
  <1>3. Questions(g)' = Questions(g) /\ Questions(g) \in Nat
    BY <1>1, SameQuestions, QuestionsLeft
  <1> QED BY <1>2, <1>3 DEF Work

LEMMA AnswerFalls ==
    ASSUME Base, Base', NEW g \in Goroutines, Answer(g)
    PROVE  Work(g)' < Work(g)
  <1> DEFINE left == Len(sel[g]) - gate[g]
  <1>1. pc[g] = "answer" /\ pc[g] \in Asking /\ sel'[g] = sel[g]
    BY DEF Answer, Answered, At, Asking
  <1>2. /\ left \in Nat /\ Halves(half[g]) \in 0 .. 1 /\ half[g] \in {"from", "below"}
        /\ Work(g) = 5 * (2 * left + Halves(half[g])) + 3
    BY <1>1, QuestionsLeft, StepsOf DEF Work, Base, TypeOK
  <1>3. CASE pc'[g] = "nil" \/ pc'[g] = "send"
    <2>1. Questions(g)' = 0 /\ Steps(pc'[g]) = 2
      BY <1>3, StepsOf DEF Questions, Asking, Probing
    <2> QED BY <1>2, <2>1 DEF Work
  <1>4. CASE pc'[g] = "read" /\ gate'[g] = gate[g] + 1
    <2>1. pc'[g] \in Asking
      BY <1>4 DEF Asking
    <2>2. Questions(g)' = 2 * (Len(sel'[g]) - gate'[g]) + Halves(half'[g])
      BY <2>1 DEF Questions
    <2>3. half'[g] \in {"from", "below"}
      BY DEF Base, TypeOK
    <2>4. Halves(half'[g]) \in 0 .. 1
      BY <2>3, HalvesOf
    <2>5. Len(sel[g]) \in Nat /\ gate[g] \in Nat
      BY QuestionsLeft
    <2>6. Len(sel'[g]) - gate'[g] = left - 1
      BY <1>1, <1>4, <2>5
    <2>7. Work(g)' = 5 * (2 * (left - 1) + Halves(half'[g])) + 7
      BY <1>4, <2>2, <2>6, StepsOf DEF Work
    <2> HIDE DEF left
    <2> QED BY <1>2, <2>4, <2>7
  <1>5. CASE pc'[g] = "read" /\ gate'[g] = gate[g] /\ half[g] = "from" /\ half'[g] = "below"
    <2>1. Questions(g)' = 2 * left + 0
      BY <1>1, <1>5, HalvesOf DEF Questions, Asking
    <2>2. Work(g)' = 5 * (2 * left) + 7
      BY <1>2, <1>5, <2>1, StepsOf DEF Work
    <2>3. Work(g) = 5 * (2 * left + 1) + 3
      BY <1>2, <1>5, HalvesOf
    <2> QED BY <1>2, <2>2, <2>3
  <1>6. \/ pc'[g] = "nil"
        \/ pc'[g] = "read" /\ gate'[g] = gate[g] /\ half[g] = "from" /\ half'[g] = "below"
        \/ Enter(g, sel[g], gate[g] + 1)
    BY DEF Answer, Answered, Goto, Base, TypeOK
  <1>7. ASSUME Enter(g, sel[g], gate[g] + 1)
        PROVE  pc'[g] = "send" \/ (pc'[g] = "read" /\ gate'[g] = gate[g] + 1)
    BY <1>7 DEF Enter, Goto, Base, TypeOK
  <1> QED BY <1>3, <1>4, <1>5, <1>6, <1>7

(* Every step of a Select function that has begun brings its end nearer,    *)
(* and no step of another goroutine or upgrade of the server moves it away: *)
(* what the checked liveness property SelectsReturn needs apart from the    *)
(* steps being taken.  With n gates it is at most 10n + 2 steps.            *)
THEOREM SelectRunsOut == Spec => []WorkBounded /\ WorkFalls
  <1>1. Base /\ Base' /\ [Next]_vars
           => \A g \in Goroutines : pc[g] # "idle" /\ Mine(g)' # Mine(g) => Work(g)' < Work(g)
    <2> SUFFICES ASSUME Base, Base', [Next]_vars, NEW g \in Goroutines, pc[g] # "idle",
                        Mine(g)' # Mine(g)
                 PROVE  Work(g)' < Work(g)
      OBVIOUS
    <2>1. ~UNCHANGED vars /\ ~Upgrade
      BY DEF vars, Upgrade, select, Mine
    <2>2. \A h \in Goroutines : Ask(h) \/ Run(h) => h = g
      BY OthersStay DEF Mine
    <2>3. Ask(g) \/ Run(g)
      BY <2>1, <2>2 DEF Next
    <2>4. ~\E s \in Selects : Begin(g, s)
      BY DEF Begin, At
    <2>5. CASE Send(g) \/ Return(g)
      <3>1. /\ pc[g] \in {"nil", "send", "running"} /\ pc'[g] \in {"idle", "running"}
            /\ pc'[g] = "running" => pc[g] = "send"
        BY <2>5 DEF Send, Return, At, Goto, Base, TypeOK
      <3>2. Steps(pc'[g]) < Steps(pc[g]) /\ Steps(pc'[g]) \in Nat /\ Steps(pc[g]) \in Nat
        BY <3>1, StepsOf
      <3>3. Questions(g) = 0 /\ Questions(g)' = 0
        BY <3>1 DEF Questions, Asking, Probing
      <3> QED BY <3>2, <3>3 DEF Work
    <2> QED BY <2>3, <2>4, <2>5, AskFalls, AnswerFalls DEF Run
  <1>2. Spec => []WorkBounded
    BY BoundOfWork, BaseInvariant, PTL
  <1>3. Spec => WorkFalls
    BY <1>1, BaseInvariant, PTL DEF Spec, WorkFalls
  <1> QED BY <1>2, <1>3
===============================================================================

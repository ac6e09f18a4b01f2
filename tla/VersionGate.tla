------------------------------ MODULE VersionGate ------------------------------
(***************************************************************************)
(* exporter/db: one Client, whose server version is probed lazily, and the *)
(* Select functions that compose their SQL from it.                        *)
(*                                                                         *)
(* New probes the version once; if that failed, AtLeast probes again, one  *)
(* goroutine at a time, on a connection of the same pool that the queries  *)
(* of the collectors use.  A Select function asks AtLeast once or twice    *)
(* for each of its gates, in order, and a probe may fail or succeed        *)
(* between two of these questions.                                         *)
(***************************************************************************)
EXTENDS Naturals, Sequences, FiniteSets, Queries

CONSTANTS Goroutines,  \* collector goroutines that use this client
          Selects,     \* the Select functions they call, as sequences of gates
          Versions,    \* server_version_num the server may have
          MaxConns,    \* PoolMaxConns
          MayUpgrade,  \* the server may be replaced by one of a later version
          Free         \* probeMu is not held

ASSUME VersionGateAssumption ==
    /\ Selects \subseteq Seq(Gates)
    /\ Versions \subseteq Nat \ {0}
    /\ MaxConns \in Nat \ {0}
    /\ MayUpgrade \in BOOLEAN
    /\ Free \notin Goroutines

VARIABLES server,   \* server_version_num of the PostgreSQL server
          version,  \* Client.ServerVersionNum, 0 if unknown
          mu,       \* Client.probeMu: its holder or Free
          pc,       \* where each goroutine is
          sel,      \* sel[g]: the Select function g runs
          gate,     \* gate[g]: the gate g evaluates, an index of sel[g]
          half,     \* half[g]: which AtLeast of that gate, "from" or "below"
          parts,    \* parts[g]: the gates whose columns g has added
          blind     \* goroutines that got an answer while the version was unknown

vars == <<server, version, mu, pc, sel, gate, half, parts, blind>>

select == <<sel, gate, half, parts>>

Unknown == 0
Probing == {"acquire", "probe"}            \* in probeServerVersion, past the re-check
InUse   == {g \in Goroutines : pc[g] \in {"probe", "running"}}
AConnection == Cardinality(InUse) < MaxConns    \* the pool can hand one out

Init == /\ server \in Versions
        /\ version \in {Unknown, server}
        /\ mu = Free
        /\ pc = [g \in Goroutines |-> "idle"]
        /\ sel = [g \in Goroutines |-> <<>>]
        /\ gate = [g \in Goroutines |-> 1]
        /\ half = [g \in Goroutines |-> "from"]
        /\ parts = [g \in Goroutines |-> {}]
        /\ blind = {}

-------------------------------------------------------------------------------
(* AtLeast.                                                                 *)

At(g, l)    == pc[g] = l
Goto(g, l)  == pc' = [pc EXCEPT ![g] = l]
Question(g) == LET q == sel[g][gate[g]]
               IN  IF half[g] = "from" THEN q.from ELSE q.below

(* Variant: an unknown version is not probed for again.                     *)
FirstReadOnly(g) == /\ At(g, "read")
                    /\ Goto(g, "answer")
                    /\ UNCHANGED <<server, version, mu, select, blind>>

(* The first look at ServerVersionNum, without probeMu.                     *)
FirstRead(g) == /\ At(g, "read")
                /\ Goto(g, IF version = Unknown THEN "lock" ELSE "answer")
                /\ UNCHANGED <<server, version, mu, select, blind>>

(* Variant: without looking again under the mutex.                          *)
LockBlindly(g) == /\ At(g, "lock")
                  /\ mu = Free
                  /\ Goto(g, "acquire")
                  /\ mu' = g
                  /\ UNCHANGED <<server, version, select, blind>>

(* probeMu is taken; another goroutine may have found the version already.  *)
Lock(g) == /\ At(g, "lock")
           /\ mu = Free
           /\ IF version # Unknown
              THEN Goto(g, "answer") /\ UNCHANGED mu
              ELSE Goto(g, "acquire") /\ mu' = g
           /\ UNCHANGED <<server, version, select, blind>>

ProbeAcquire(g) == /\ At(g, "acquire")
                   /\ AConnection
                   /\ Goto(g, "probe")
                   /\ UNCHANGED <<server, version, mu, select, blind>>

(* Variant: only the major version is kept.                                 *)
ProbeDoneMajor(g) == /\ At(g, "probe")
                     /\ version' = server \div 10000
                     /\ mu' = Free
                     /\ Goto(g, "answer")
                     /\ UNCHANGED <<server, select, blind>>

ProbeDone(g) == /\ At(g, "probe")
                /\ version' = server
                /\ mu' = Free
                /\ Goto(g, "answer")
                /\ UNCHANGED <<server, select, blind>>

(* Variant: the timeout does not cover the wait for a connection.           *)
ProbeFailLate(g) == /\ At(g, "probe")
                    /\ mu' = Free
                    /\ Goto(g, "answer")
                    /\ UNCHANGED <<server, version, select, blind>>

(* No connection, an error, or the five seconds of reprobeTimeout are over. *)
ProbeFail(g) == /\ pc[g] \in Probing
                /\ mu' = Free
                /\ Goto(g, "answer")
                /\ UNCHANGED <<server, version, select, blind>>

LaterThan(major) == version > major * 10000    \* variant: off by one

Optimistic(major) == version = Unknown \/ version >= major * 10000  \* variant

AtLeast(major) == version >= major * 10000

-------------------------------------------------------------------------------
(* The Select functions.                                                    *)

FirstHalf(s, k) == IF k <= Len(s) /\ s[k].from = 0 THEN "below" ELSE "from"

(* From gate k on; when there is none the statement is complete.            *)
Enter(g, s, k) == /\ gate' = [gate EXCEPT ![g] = k]
                  /\ half' = [half EXCEPT ![g] = FirstHalf(s, k)]
                  /\ Goto(g, IF k > Len(s) THEN "send" ELSE "read")

Begin(g, s) == /\ At(g, "idle")
               /\ sel' = [sel EXCEPT ![g] = s]
               /\ parts' = [parts EXCEPT ![g] = {}]
               /\ blind' = blind \ {g}
               /\ Enter(g, s, 1)
               /\ UNCHANGED <<server, version, mu>>

(* AtLeast has answered yes or no to the question of the current gate.      *)
Answered(g, yes) ==
    LET s == sel[g]
        k == gate[g]
        q == s[k]
    IN  /\ At(g, "answer")
        /\ blind' = IF version = Unknown THEN blind \cup {g} ELSE blind
        /\ \/ /\ half[g] = "from" /\ ~yes /\ q.skip       \* return nil, nil
              /\ Goto(g, "nil")
              /\ UNCHANGED <<gate, half, parts>>
           \/ /\ half[g] = "from" /\ yes /\ q.below # 0   \* && !AtLeast(below)
              /\ half' = [half EXCEPT ![g] = "below"]
              /\ Goto(g, "read")
              /\ UNCHANGED <<gate, parts>>
           \/ /\ half[g] = "from" /\ ~yes /\ ~q.skip
              /\ Enter(g, s, k + 1)
              /\ UNCHANGED parts
           \/ /\ half[g] = "from" /\ yes /\ q.below = 0
              /\ Enter(g, s, k + 1)
              /\ parts' = [parts EXCEPT ![g] = @ \cup (IF q.skip THEN {} ELSE {k})]
           \/ /\ half[g] = "below"
              /\ Enter(g, s, k + 1)
              /\ parts' = [parts EXCEPT ![g] = @ \cup (IF yes THEN {} ELSE {k})]
        /\ UNCHANGED <<server, version, mu, sel>>

Answer(g) == Answered(g, AtLeast(Question(g)))

Send(g) == /\ At(g, "send")
           /\ AConnection
           /\ Goto(g, "running")
           /\ UNCHANGED <<server, version, mu, select, blind>>

(* The Select function returns: no such view, no connection, or the         *)
(* statement has run, was rejected or was cancelled.                        *)
Return(g) == /\ pc[g] \in {"nil", "send", "running"}
             /\ Goto(g, "idle")
             /\ UNCHANGED <<server, version, mu, select, blind>>

(* A major upgrade, or a failover to an upgraded server, while the client   *)
(* lives on.                                                                *)
Upgrade == /\ MayUpgrade
           /\ \E v \in Versions : v > server /\ server' = v
           /\ UNCHANGED <<version, mu, pc, select, blind>>

Ask(g) == FirstRead(g) \/ Lock(g) \/ ProbeAcquire(g) \/ ProbeDone(g) \/ ProbeFail(g)
Run(g) == (\E s \in Selects : Begin(g, s)) \/ Answer(g) \/ Send(g) \/ Return(g)

Next == (\E g \in Goroutines : Ask(g) \/ Run(g)) \/ Upgrade

Spec == Init /\ [][Next]_vars

(* Go runs every goroutine that can run and its mutex does not starve a     *)
(* waiter; the timer of reprobeTimeout fires, and the context of the scrape *)
(* ends a query.  Nothing is assumed of the server or the pool.             *)
FairSpec == Spec /\ \A g \in Goroutines : /\ WF_vars(FirstRead(g)) /\ SF_vars(Lock(g))
                                          /\ WF_vars(ProbeFail(g)) /\ WF_vars(Answer(g))
                                          /\ WF_vars(Return(g))

-------------------------------------------------------------------------------
(* Properties.                                                              *)

TypeOK ==
    /\ server \in Versions
    /\ version \in {Unknown} \cup Versions
    /\ mu \in Goroutines \cup {Free}
    /\ pc \in [Goroutines -> {"idle", "read", "lock", "answer", "nil", "send", "running"}
                             \cup Probing]
    /\ sel \in [Goroutines -> Selects \cup {<<>>}]
    /\ gate \in [Goroutines -> Nat \ {0}]
    /\ half \in [Goroutines -> {"from", "below"}]
    /\ parts \in [Goroutines -> SUBSET Nat]
    /\ blind \subseteq Goroutines

(* db.go:41-43: the fan-out of a scrape "doesn't issue dozens of concurrent *)
(* version queries": at most one probe is under way, it holds probeMu, and  *)
(* none runs once the version is known.  Whoever holds probeMu is in the    *)
(* probe, whose timeout ends it: no circle of goroutines that wait for the  *)
(* mutex with a connection in hand and for a connection with the mutex.     *)
SingleFlight ==
    \A g \in Goroutines : /\ pc[g] \in Probing <=> mu = g
                          /\ mu = g => version = Unknown

(* A Select function that was never answered from an unknown version sends  *)
(* exactly the columns that the version of the server at the probe has, and *)
(* returns nil, nil exactly if that has no such view, whatever probes       *)
(* failed or succeeded for others, between its questions or before.         *)
Wanted(v, s) == {k \in 1 .. Len(s) : ~s[k].skip /\ Has(v, s[k])}
View(v, s)   == \A k \in 1 .. Len(s) : s[k].skip => Has(v, s[k])

GateCorrect ==
    \A g \in Goroutines \ blind :
        /\ pc[g] \in {"send", "running"} =>
              View(version, sel[g]) /\ parts[g] = Wanted(version, sel[g])
        /\ pc[g] = "nil" => ~View(version, sel[g])

(* Unless the server was upgraded after the probe, a statement asks for     *)
(* something the server does not have only if the version was unknown when  *)
(* it was composed, and only SelectPgStatBgwriter, which adds columns on a  *)
(* negative answer, can compose such a statement.                           *)
Fits(g) == View(server, sel[g]) /\ parts[g] \subseteq Wanted(server, sel[g])

OnlyBgwriterRejected ==
    \A g \in Goroutines :
        pc[g] \in {"send", "running"} /\ ~Fits(g) /\ version \in {Unknown, server}
            => g \in blind /\ sel[g] = SelectPgStatBgwriter

(* A Select function that only ever adds columns, or gives up, on a         *)
(* negative answer sends a statement that any later server accepts too: an  *)
(* unknown version or one that an upgrade has made stale costs it columns   *)
(* and never the statement.                                                 *)
Additive(s) == \A k \in 1 .. Len(s) : s[k].below = 0

AdditiveNeverRejected ==
    \A g \in Goroutines :
        pc[g] \in {"send", "running"} /\ Additive(sel[g]) => Fits(g)

(* No Select function hangs on the mutex, the pool or a server that does    *)
(* not answer.                                                              *)
SelectsReturn == \A g \in Goroutines : pc[g] = "read" ~> pc[g] = "idle"

(* db.go:36-38: a start against a server that is not ready "self-heals on   *)
(* the next call instead of poisoning version gating for the lifetime of    *)
(* the client".  If gates are asked again and again, who waits for a        *)
(* connection again and again gets one some day, and who has one again and  *)
(* again an answer, then the version becomes known, although all other      *)
(* probes fail and queries compete for the pool.                            *)
KeepAsking    == []<>(\E g \in Goroutines : pc[g] = "read")
PoolIsFair    == \A g \in Goroutines : []<>(pc[g] = "acquire") => []<>(pc[g] = "probe")
ServerAnswers == \A g \in Goroutines : SF_vars(ProbeDone(g))

SelfHeals == KeepAsking /\ PoolIsFair /\ ServerAnswers => <>(version # Unknown)

-------------------------------------------------------------------------------
(* db/doc.go:8-10: every SQL builder "version-gates its column set via      *)
(* [Client.AtLeast] so a single binary runs clean against PG 13-18": no     *)
(* statement asks for something the server does not have.                   *)
RunsClean == \A g \in Goroutines : pc[g] \in {"send", "running"} => Fits(g)
===============================================================================

----------------------------- MODULE CounterDelta -----------------------------
(***************************************************************************)
(* The delta-tracking counter of exporter/collectors/vec.go in the setting *)
(* every collector uses it in (for example pg_stat_database.go): a scrape  *)
(* starts one goroutine per database client, each reads a row of absolute  *)
(* cumulative values and pushes it through counterDelta.Observe; when all  *)
(* goroutines have succeeded the collector hands the children of the       *)
(* CounterVec to the registry, which reads their values later, possibly    *)
(* while the goroutines of the next scrape are at work.                    *)
(*                                                                         *)
(* A child of the vector is an object: the registry keeps a pointer to it. *)
(* Deleting a child detaches it from the vector, and a detached child      *)
(* keeps its value for ever.                                               *)
(***************************************************************************)
EXTENDS Naturals

CONSTANTS Clients,   \* Exporter.dbClients: one goroutine each in a scrape
          Keys,      \* label combinations of one counter metric
          KeyOf,     \* the label combination of the row a client reads
          Readers,   \* registry Gather calls (HTTP scrapes)
          MaxStat,   \* bound: a server's counter grows up to this value
          Absent,    \* no child, no entry, no pointer
          Live,      \* a pointer to the child that is in the vector
          Free       \* the mutex is not held / no scrape is running

ASSUME CounterDeltaAssumption ==
    /\ KeyOf \in [Clients -> Keys]
    /\ MaxStat \in Nat
    /\ Absent \notin Nat \cup Clients /\ Live \notin Nat /\ Live # Absent
    /\ Free \notin Clients /\ Free \notin Readers

VARIABLES stat,      \* stat[c]: the cumulative counter in c's PostgreSQL server
          restarted, \* clients whose server reset it since they last read it
          scraper,   \* the Gather whose Collect runs, or Free
          pc,        \* where the goroutine of client c is
          arg,       \* arg[c]: the absolute value c read from its row
          dropped,   \* clients whose row in progress was read after a reset
          mu,        \* counterDelta.mu: its holder or Free
          last,      \* counterDelta.last
          by,        \* history: by[k]: the client that stored last[k]
          vec,       \* counterDelta.vec: the value of the child of each key
          held,      \* held[r][k]: Gather r's pointer to a child: Live or detached
          fetched    \* history: the values ever read for each key

vars == <<stat, restarted, scraper, pc, arg, dropped, mu, last, by, vec, held,
          fetched>>

server == <<stat, restarted>>
row    == <<arg, dropped, fetched>>

Stats == 0 .. MaxStat

Init == /\ stat = [c \in Clients |-> 0]
        /\ restarted = {}
        /\ scraper = Free
        /\ pc = [c \in Clients |-> "done"]
        /\ arg = [c \in Clients |-> 0]
        /\ dropped = {}
        /\ mu = Free
        /\ last = [k \in Keys |-> Absent]
        /\ by = [k \in Keys |-> Absent]
        /\ vec = [k \in Keys |-> Absent]
        /\ held = [r \in Readers |-> [k \in Keys |-> Absent]]
        /\ fetched = [k \in Keys |-> {}]

-------------------------------------------------------------------------------
(* The PostgreSQL servers.                                                  *)

Grow(c) == /\ stat[c] < MaxStat
           /\ stat' = [stat EXCEPT ![c] = @ + 1]
           /\ UNCHANGED <<restarted, scraper, pc, row, mu, last, by, vec, held>>

(* pg_stat_reset(), crash recovery, or a dropped and re-created object.     *)
Reset(c) == /\ stat[c] > 0
            /\ stat' = [stat EXCEPT ![c] = 0]
            /\ restarted' = restarted \cup {c}
            /\ UNCHANGED <<scraper, pc, row, mu, last, by, vec, held>>

-------------------------------------------------------------------------------
(* One scrape of a collector: Exporter.Collect holds the exporter's mutex,  *)
(* so at most one runs.                                                     *)

StartScrape(r) == /\ scraper = Free
                  /\ \A k \in Keys : held[r][k] = Absent
                  /\ scraper' = r
                  /\ pc' = [c \in Clients |-> "select"]
                  /\ UNCHANGED <<server, row, mu, last, by, vec, held>>

(* The SELECT returned a row with a valid value; emit calls Observe.        *)
Fetch(c) == /\ pc[c] = "select"
            /\ arg' = [arg EXCEPT ![c] = stat[c]]
            /\ dropped' = dropped \cup (restarted \cap {c})
            /\ restarted' = restarted \ {c}
            /\ fetched' = [fetched EXCEPT ![KeyOf[c]] = @ \cup {stat[c]}]
            /\ pc' = [pc EXCEPT ![c] = "lock"]
            /\ UNCHANGED <<stat, scraper, mu, last, by, vec, held>>

(* The SELECT returned no such row, or the column was NULL: no Observe.     *)
NoRow(c) == /\ pc[c] = "select"
            /\ pc' = [pc EXCEPT ![c] = "done"]
            /\ UNCHANGED <<server, scraper, row, mu, last, by, vec, held>>

(* The SELECT failed.                                                       *)
Fail(c) == /\ pc[c] = "select"
           /\ pc' = [pc EXCEPT ![c] = "failed"]
           /\ UNCHANGED <<server, scraper, row, mu, last, by, vec, held>>

-------------------------------------------------------------------------------
(* counterDelta.Observe, step by step.                                      *)

(* WithLabelValues(...).Add(x): the child is created at zero if missing.    *)
WithAdded(k, x) ==
    [vec EXCEPT ![k] = (IF vec[k] = Absent THEN 0 ELSE vec[k]) + x]

(* Variant: without the mutex.                                              *)
LockUnguarded(c) == /\ pc[c] = "lock"
                    /\ mu' = c
                    /\ pc' = [pc EXCEPT ![c] = "switch"]
                    /\ UNCHANGED <<server, scraper, row, last, by, vec, held>>

Lock(c) == /\ pc[c] = "lock"
           /\ mu = Free
           /\ mu' = c
           /\ pc' = [pc EXCEPT ![c] = "switch"]
           /\ UNCHANGED <<server, scraper, row, last, by, vec, held>>

(* case !seen *)
First(c) == /\ pc[c] = "switch"
            /\ last[KeyOf[c]] = Absent
            /\ vec' = WithAdded(KeyOf[c], arg[c])
            /\ pc' = [pc EXCEPT ![c] = "store"]
            /\ UNCHANGED <<server, scraper, row, mu, last, by, held>>

(* Variants: the comparison is off by one, the child is set to zero in      *)
(* place.                                                                   *)
DropOnEqual(c) == LET k == KeyOf[c]
                  IN  /\ pc[c] = "switch"
                      /\ last[k] # Absent
                      /\ arg[c] <= last[k]
                      /\ vec' = [vec EXCEPT ![k] = Absent]
                      /\ held' = [r \in Readers |->
                                    IF held[r][k] = Live
                                    THEN [held[r] EXCEPT ![k] = vec[k]]
                                    ELSE held[r]]
                      /\ pc' = [pc EXCEPT ![c] = "readd"]
                      /\ UNCHANGED <<server, scraper, row, mu, last, by>>

DropInPlace(c) == /\ pc[c] = "switch"
                  /\ last[KeyOf[c]] # Absent
                  /\ arg[c] < last[KeyOf[c]]
                  /\ vec' = [vec EXCEPT ![KeyOf[c]] = 0]
                  /\ pc' = [pc EXCEPT ![c] = "readd"]
                  /\ UNCHANGED <<server, scraper, row, mu, last, by, held>>

(* case value < last: DeleteLabelValues detaches the child, and pointers    *)
(* the registry still has to it keep its value.                             *)
Drop(c) == LET k == KeyOf[c]
           IN  /\ pc[c] = "switch"
               /\ last[k] # Absent
               /\ arg[c] < last[k]
               /\ vec' = [vec EXCEPT ![k] = Absent]
               /\ held' = [r \in Readers |->
                             IF held[r][k] = Live
                             THEN [held[r] EXCEPT ![k] = vec[k]]
                             ELSE held[r]]
               /\ pc' = [pc EXCEPT ![c] = "readd"]
               /\ UNCHANGED <<server, scraper, row, mu, last, by>>

(* ... and the next WithLabelValues creates a new one.                      *)
Readd(c) == /\ pc[c] = "readd"
            /\ vec' = WithAdded(KeyOf[c], arg[c])
            /\ pc' = [pc EXCEPT ![c] = "store"]
            /\ UNCHANGED <<server, scraper, row, mu, last, by, held>>

(* Variant: the absolute value is added instead of the difference.          *)
AdvanceByValue(c) == LET k == KeyOf[c]
                     IN  /\ pc[c] = "switch"
                         /\ last[k] # Absent
                         /\ arg[c] >= last[k]
                         /\ vec' = WithAdded(k, arg[c])
                         /\ pc' = [pc EXCEPT ![c] = "store"]
                         /\ UNCHANGED <<server, scraper, row, mu, last, by, held>>

(* default *)
Advance(c) == LET k == KeyOf[c]
              IN  /\ pc[c] = "switch"
                  /\ last[k] # Absent
                  /\ arg[c] >= last[k]
                  /\ vec' = WithAdded(k, arg[c] - last[k])
                  /\ pc' = [pc EXCEPT ![c] = "store"]
                  /\ UNCHANGED <<server, scraper, row, mu, last, by, held>>

(* Variant: the assignment to c.last adds up.                               *)
StoreSum(c) == LET k == KeyOf[c]
               IN  /\ pc[c] = "store"
                   /\ last' = [last EXCEPT ![k] = arg[c] + IF @ = Absent THEN 0 ELSE @]
                   /\ by' = [by EXCEPT ![k] = c]
                   /\ mu' = Free
                   /\ pc' = [pc EXCEPT ![c] = "done"]
                   /\ arg' = [arg EXCEPT ![c] = 0]
                   /\ dropped' = dropped \ {c}
                   /\ UNCHANGED <<server, scraper, fetched, vec, held>>

(* c.last[key] = value, and the deferred Unlock; the locals are gone.       *)
Store(c) == /\ pc[c] = "store"
            /\ last' = [last EXCEPT ![KeyOf[c]] = arg[c]]
            /\ by' = [by EXCEPT ![KeyOf[c]] = c]
            /\ mu' = Free
            /\ pc' = [pc EXCEPT ![c] = "done"]
            /\ arg' = [arg EXCEPT ![c] = 0]
            /\ dropped' = dropped \ {c}
            /\ UNCHANGED <<server, scraper, fetched, vec, held>>

-------------------------------------------------------------------------------
(* group.Wait() returned nil: collectInto hands out every child of the      *)
(* vector, and Collect releases the exporter's mutex.                       *)
Collect == /\ scraper # Free
           /\ \A c \in Clients : pc[c] = "done"
           /\ held' = [held EXCEPT ![scraper] =
                         [k \in Keys |-> IF vec[k] = Absent THEN Absent ELSE Live]]
           /\ scraper' = Free
           /\ UNCHANGED <<server, pc, row, mu, last, by, vec>>

(* group.Wait() returned an error: nothing is handed out, though the        *)
(* goroutines that succeeded have updated the vector.                       *)
Abandon == /\ scraper # Free
           /\ \A c \in Clients : pc[c] \in {"done", "failed"}
           /\ \E c \in Clients : pc[c] = "failed"
           /\ scraper' = Free
           /\ UNCHANGED <<server, pc, row, mu, last, by, vec, held>>

(* The registry writes out the metric behind a pointer it holds.            *)
Pointee(r, k) == IF held[r][k] = Live THEN vec[k] ELSE held[r][k]

Read(r, k) == /\ held[r][k] # Absent
              /\ held' = [held EXCEPT ![r][k] = Absent]
              /\ UNCHANGED <<server, scraper, pc, row, mu, last, by, vec>>

Server(c)  == Grow(c) \/ Reset(c)
Select(c)  == Fetch(c) \/ NoRow(c) \/ Fail(c)
Observe(c) == Lock(c) \/ First(c) \/ Drop(c) \/ Readd(c) \/ Advance(c) \/ Store(c)

Next == \/ \E c \in Clients : Server(c) \/ Select(c) \/ Observe(c)
        \/ \E r \in Readers : StartScrape(r) \/ \E k \in Keys : Read(r, k)
        \/ Collect
        \/ Abandon

Spec == Init /\ [][Next]_vars

-------------------------------------------------------------------------------
(* Properties.                                                              *)

InSwitch == {"switch", "readd", "store"}    \* counterDelta.mu is held

TypeOK ==
    /\ stat \in [Clients -> Stats]
    /\ restarted \subseteq Clients
    /\ scraper \in Readers \cup {Free}
    /\ pc \in [Clients -> {"select", "lock", "done", "failed"} \cup InSwitch]
    /\ arg \in [Clients -> Stats]
    /\ dropped \subseteq Clients
    /\ mu \in Clients \cup {Free}
    /\ last \in [Keys -> Stats \cup {Absent}]
    /\ by \in [Keys -> Clients \cup {Absent}]
    /\ vec \in [Keys -> Nat \cup {Absent}]
    /\ held \in [Readers -> [Keys -> Nat \cup {Absent, Live}]]
    /\ fetched \in [Keys -> SUBSET Stats]

(* Only the holder of counterDelta.mu is between Lock and Unlock, and no    *)
(* Observe outlives the scrape it belongs to.                               *)
Serialised ==
    /\ \A c \in Clients : pc[c] \in InSwitch <=> mu = c
    /\ scraper = Free => \A c \in Clients : pc[c] \in {"done", "failed"}

(* The value of every child equals the last absolute value observed for its *)
(* key; while an Observe changes it, it is missing or already shows the     *)
(* value that call is about to store: the deltas added to a child sum up to *)
(* the absolute value, across any number of resets.                         *)
Changing(k) == \E c \in Clients : KeyOf[c] = k /\ pc[c] \in {"readd", "store"}

DeltasSumUp ==
    /\ \A k \in Keys : ~Changing(k) => vec[k] = last[k]
    /\ \A c \in Clients : /\ pc[c] = "readd" => vec[KeyOf[c]] = Absent
                          /\ pc[c] = "store" => vec[KeyOf[c]] = arg[c]

(* A Gather that reads through the pointers it was given while later        *)
(* scrapes observe is, at whatever time it reads, never shown a value the   *)
(* server did not report for that label combination: no zero from a         *)
(* re-created child, no sum of the values before and after a reset.         *)
PointersShowReported ==
    \A r \in Readers, k \in Keys :
        held[r][k] # Absent => Pointee(r, k) \in fetched[k]

(* A child is deleted and re-created, so that Prometheus sees a counter     *)
(* reset, only if the server did reset its counter since the client last    *)
(* read it, or if another client has reported for the same labels           *)
(* meanwhile: a client that reports alone is never shown a false reset.     *)
ResetsAreReal ==
    [][\A c \in Clients :
          (pc[c] = "switch" /\ pc'[c] = "readd" /\ by[KeyOf[c]] = c) => c \in dropped]_vars

(* Observe implements the atomic report of an absolute value.  A key whose  *)
(* Observe is in progress still shows its previous value.                   *)
Busy(k)     == \E c \in Clients : mu = c /\ KeyOf[c] = k
Asked       == [c \in Clients |-> IF pc[c] \in InSwitch \cup {"lock"}
                                  THEN arg[c] ELSE Absent]
Shown       == [k \in Keys |-> IF Busy(k) THEN last[k] ELSE vec[k]]

Abs == INSTANCE AbsoluteSeries WITH Values <- Stats, asked <- Asked, shown <- Shown
AbsSpec == Abs!AbsSpec
===============================================================================

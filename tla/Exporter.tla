------------------------------- MODULE Exporter -------------------------------
(***************************************************************************)
(* exporter/exporter.go: Collect, instrument, Shutdown and HealthCheck of  *)
(* one Exporter, called from any number of goroutines.                     *)
(*                                                                         *)
(* A Collect call takes the exporter's mutex and runs every collector in   *)
(* its own goroutine under an errgroup; a collector runs one goroutine per *)
(* database client under an errgroup of its own, and each of these uses a  *)
(* connection of that client's pool, or none if all it would ask for is    *)
(* behind a version gate that says no.  The first collector that returns   *)
(* an error cancels the context the others run under.  Shutdown waits for  *)
(* the mutex in a goroutine of its own, so that it can give up when its    *)
(* context is done, and closes the pools one after the other.  HealthCheck *)
(* uses the pools without the mutex.                                       *)
(***************************************************************************)
EXTENDS Naturals, FiniteSets

CONSTANTS Scrapes,     \* calls of Collect, one per HTTP request
          Stops,       \* calls of Shutdown
          Impatient,   \* the Shutdown calls whose ctx may be done before they return
          Pings,       \* calls of HealthCheck
          Collectors,  \* Exporter.collectors
          MaySkip,     \* those that may end well without a connection
          N,           \* number of database clients
          MaxConns,    \* PoolMaxConns of each pool
          HasDeadline, \* CollectionTimeout is not negative
          Free,        \* the mutex is not held
          Unknown      \* the scrape has not reported yet

ASSUME ExporterAssumption ==
    /\ N \in Nat \ {0}
    /\ MaxConns \in Nat \ {0}
    /\ MaySkip \subseteq Collectors
    /\ Impatient \subseteq Stops
    /\ Scrapes \cap Stops = {} /\ Free \notin Scrapes \cup Stops
    /\ Collectors \cap Pings = {}
    /\ HasDeadline \in BOOLEAN
    /\ Unknown \notin {0, 1}

Clients == 1 .. N
Workers == Collectors \cup Pings    \* the users of pool connections

VARIABLES mutex,    \* Exporter.mutex: its holder or Free
          at,       \* at[s]: where the Collect call s is
          up,       \* up[s]: the value of pg_stat_up it emitted
          ctx,      \* the context of the running scrape: "live" or "expired"
          task,     \* task[w][i]: what worker w does with client i
          running,  \* collectors whose instrument call has not returned
          failed,   \* collectors that returned an error in the running scrape
          culprits, \* history: those whose own queries failed in this scrape
          errors,   \* errors[k]: scrape_errors_total of collector k
          stop,     \* stop[t]: where the Shutdown call t is
          locker,   \* locker[t]: where the goroutine that call started is
          pool      \* pool[i]: "open", "closing" (Close was called) or "closed"

vars == <<mutex, at, up, ctx, task, running, failed, culprits, errors,
          stop, locker, pool>>

scrape   == <<at, up, ctx>>
group    == <<running, failed, culprits>>
shutdown == <<stop, locker>>

Ended == {"ok", "err"}

InUse(i)     == {w \in Workers : task[w][i] = "query"}
AllClosed    == \A i \in Clients : pool[i] = "closed"
HasError(w)  == \E i \in Clients : task[w][i] = "err"
HasEnded(w)  == \A i \in Clients : task[w][i] \in Ended

Init == /\ mutex = Free
        /\ at = [s \in Scrapes |-> "new"]
        /\ up = [s \in Scrapes |-> Unknown]
        /\ ctx = "live"
        /\ task = [w \in Workers |-> [i \in Clients |-> "idle"]]
        /\ running = {} /\ failed = {} /\ culprits = {}
        /\ errors = [k \in Collectors |-> 0]
        /\ stop = [t \in Stops |-> "new"]
        /\ locker = [t \in Stops |-> "none"]
        /\ pool = [i \in Clients |-> "open"]

-------------------------------------------------------------------------------
(* Collect.                                                                 *)

CollectCall(s) == /\ at[s] = "new"
                  /\ at' = [at EXCEPT ![s] = "lock"]
                  /\ UNCHANGED <<mutex, up, ctx, task, group, errors, shutdown, pool>>

StartGroup(s) == /\ at' = [at EXCEPT ![s] = "run"]
                 /\ ctx' = "live"
                 /\ running' = Collectors
                 /\ failed' = {} /\ culprits' = {}
                 /\ task' = [w \in Workers |-> IF w \in Collectors
                                               THEN [i \in Clients |-> "acquire"]
                                               ELSE task[w]]
                 /\ UNCHANGED <<up, errors, shutdown, pool>>

(* Variant: without waiting for the mutex.                                  *)
CollectStartUnguarded(s) == at[s] = "lock" /\ mutex' = s /\ StartGroup(s)

(* The mutex is taken and the goroutines of the errgroup start.             *)
CollectStart(s) == /\ at[s] = "lock"
                   /\ mutex = Free
                   /\ mutex' = s
                   /\ StartGroup(s)

(* The deadline of scrapeContext passes.                                    *)
Deadline == /\ HasDeadline
            /\ \E s \in Scrapes : at[s] = "run"
            /\ ctx = "live"
            /\ ctx' = "expired"
            /\ UNCHANGED <<mutex, at, up, task, group, errors, shutdown, pool>>

(* Variant: the error is returned but not counted.                          *)
InstrumentedUncounted(k) ==
    /\ k \in running
    /\ HasEnded(k)
    /\ running' = running \ {k}
    /\ failed' = failed \cup (IF HasError(k) THEN {k} ELSE {})
    /\ UNCHANGED <<mutex, scrape, task, culprits, errors, shutdown, pool>>

(* instrument returns: every goroutine of the collector's errgroup has      *)
(* ended, an error is counted and, being the errgroup's first, cancels the  *)
(* context of the other collectors.                                         *)
Instrumented(k) ==
    /\ k \in running
    /\ HasEnded(k)
    /\ running' = running \ {k}
    /\ \/ /\ HasError(k)
          /\ failed' = failed \cup {k}
          /\ errors' = [errors EXCEPT ![k] = @ + 1]
       \/ /\ ~HasError(k)
          /\ UNCHANGED <<failed, errors>>
    /\ UNCHANGED <<mutex, scrape, task, culprits, shutdown, pool>>

Emit(s, v) == /\ at[s] = "run"
              /\ up' = [up EXCEPT ![s] = v]
              /\ at' = [at EXCEPT ![s] = "done"]
              /\ UNCHANGED <<ctx, task, group, errors, shutdown, pool>>

(* Variants: up counts the collectors that succeeded, or is 0 only if none  *)
(* did; Collect does not wait, or does not unlock.                          *)
CollectEndCount(s) == running = {} /\ Emit(s, Cardinality(Collectors \ failed)) /\ mutex' = Free
CollectEndAny(s)   == running = {} /\ Emit(s, IF failed # Collectors THEN 1 ELSE 0) /\ mutex' = Free
CollectEndEarly(s) == Emit(s, IF failed = {} THEN 1 ELSE 0) /\ mutex' = Free
CollectEndHeld(s)  == running = {} /\ Emit(s, IF failed = {} THEN 1 ELSE 0) /\ UNCHANGED mutex

(* group.Wait() returns: up and the self-metrics are emitted, the deferred  *)
(* cancel and Unlock run.                                                   *)
CollectEnd(s) == /\ running = {}
                 /\ Emit(s, IF failed = {} THEN 1 ELSE 0)
                 /\ mutex' = Free

-------------------------------------------------------------------------------
(* The goroutines that use the pools: one per collector and client (Scrape  *)
(* of a collector), one per client in HealthCheck.                          *)

Goes(w, i, from, to) == /\ task[w][i] = from
                        /\ task' = [task EXCEPT ![w][i] = to]
                        /\ UNCHANGED <<mutex, scrape, running, failed, errors,
                                       shutdown, pool>>

Blames(w) == culprits' = culprits \cup (Collectors \cap {w})

(* The goroutine gets a connection of the pool ...                          *)
Acquire(w, i) == /\ pool[i] = "open"
                 /\ Cardinality(InUse(i)) < MaxConns
                 /\ Goes(w, i, "acquire", "query")
                 /\ UNCHANGED culprits

(* ... or an error, since none can be established or the pool is closed.    *)
AcquireFail(w, i) == /\ pool[i] # "open" \/ Cardinality(InUse(i)) < MaxConns
                     /\ Goes(w, i, "acquire", "err")
                     /\ Blames(w)

(* Every Select the collector would make of this client is behind a version *)
(* gate that says no, and returns nil without the pool: the server is known *)
(* to be older, or its version is unknown since the probe failed, as it     *)
(* does on a closed pool.  So does a spec with a MinPGVersion, and a custom *)
(* collector need not use the pools at all.  (A probe that has got a        *)
(* connection is an Acquire and a QueryDone.)                               *)
Skip(w, i) == /\ w \in MaySkip
              /\ Goes(w, i, "acquire", "ok")
              /\ UNCHANGED culprits

QueryDone(w, i) == Goes(w, i, "query", "ok") /\ UNCHANGED culprits
QueryFail(w, i) == Goes(w, i, "query", "err") /\ Blames(w)

(* The context is done: the deadline passed, a goroutine of the same        *)
(* collector failed, or another collector returned an error.  HealthCheck   *)
(* runs under its caller's context, and its goroutines do not cancel each   *)
(* other.  The connection in use goes back to the pool.                     *)
CancelledUnbounded(w) == w \in Pings \/ failed # {} \/ HasError(w)   \* variant: no deadline

CancelledAtOnce(w) == w \in Workers             \* variant: cancel() before Wait()

Cancelled(w) == \/ w \in Pings
                \/ ctx = "expired" \/ failed # {} \/ HasError(w)

Cancel(w, i) == /\ Cancelled(w)
                /\ \/ Goes(w, i, "acquire", "err")
                   \/ Goes(w, i, "query", "err")
                /\ IF ctx = "expired" THEN Blames(w) ELSE UNCHANGED culprits

HealthCheck(p) == /\ \A i \in Clients : task[p][i] = "idle"
                  /\ task' = [task EXCEPT ![p] = [i \in Clients |-> "acquire"]]
                  /\ UNCHANGED <<mutex, scrape, group, errors, shutdown, pool>>

-------------------------------------------------------------------------------
(* Shutdown.                                                                *)

Shutdown(t) == /\ stop[t] = "new"
               /\ stop' = [stop EXCEPT ![t] = "select"]
               /\ locker' = [locker EXCEPT ![t] = "lock"]
               /\ UNCHANGED <<mutex, scrape, task, group, errors, pool>>

(* Variant: without waiting for the mutex.                                  *)
LockerLockUnguarded(t) == /\ locker[t] = "lock"
                          /\ mutex' = t
                          /\ locker' = [locker EXCEPT ![t] = "locked"]
                          /\ UNCHANGED <<scrape, task, group, errors, stop, pool>>

(* The goroutine takes the mutex and closes the channel locked.             *)
LockerLock(t) == /\ locker[t] = "lock"
                 /\ mutex = Free
                 /\ mutex' = t
                 /\ locker' = [locker EXCEPT ![t] = "locked"]
                 /\ UNCHANGED <<scrape, task, group, errors, stop, pool>>

(* select: <-locked                                                         *)
SelectLocked(t) == /\ stop[t] = "select"
                   /\ locker[t] = "locked"
                   /\ stop' = [stop EXCEPT ![t] = "closing"]
                   /\ UNCHANGED <<mutex, scrape, task, group, errors, locker, pool>>

(* Variant: giving up returns nil.                                          *)
SelectDoneNil(t) == /\ t \in Impatient
                    /\ stop[t] = "select"
                    /\ stop' = [stop EXCEPT ![t] = "done"]
                    /\ UNCHANGED <<mutex, scrape, task, group, errors, locker, pool>>

(* select: <-ctx.Done()                                                     *)
SelectDone(t) == /\ t \in Impatient
                 /\ stop[t] = "select"
                 /\ stop' = [stop EXCEPT ![t] = "aborted"]
                 /\ UNCHANGED <<mutex, scrape, task, group, errors, locker, pool>>

(* The pools are closed in the order of dbClients; Close blocks until every *)
(* connection of the pool has been given back.                              *)
CloseCall(t, i) == /\ stop[t] = "closing"
                   /\ pool[i] = "open"
                   /\ \A j \in 1 .. i - 1 : pool[j] = "closed"
                   /\ pool' = [pool EXCEPT ![i] = "closing"]
                   /\ UNCHANGED <<mutex, scrape, task, group, errors, shutdown>>

CloseReturn(t, i) == /\ stop[t] = "closing"
                     /\ pool[i] = "closing"
                     /\ InUse(i) = {}
                     /\ pool' = [pool EXCEPT ![i] = "closed"]
                     /\ UNCHANGED <<mutex, scrape, task, group, errors, shutdown>>

(* Every pool is closed (already, for a second Shutdown): return nil, and   *)
(* the deferred Unlock runs.                                                *)
ShutdownReturn(t) == /\ stop[t] = "closing"
                     /\ AllClosed
                     /\ stop' = [stop EXCEPT ![t] = "done"]
                     /\ locker' = [locker EXCEPT ![t] = "none"]
                     /\ mutex' = Free
                     /\ UNCHANGED <<scrape, task, group, errors, pool>>

-------------------------------------------------------------------------------
CollectStep(s) == CollectCall(s) \/ CollectStart(s) \/ CollectEnd(s)

TaskStep(w, i) == \/ Acquire(w, i) \/ AcquireFail(w, i) \/ Skip(w, i)
                  \/ QueryDone(w, i) \/ QueryFail(w, i) \/ Cancel(w, i)

StopStep(t) == \/ Shutdown(t) \/ LockerLock(t) \/ SelectLocked(t) \/ SelectDone(t)
               \/ \E i \in Clients : CloseCall(t, i) \/ CloseReturn(t, i)
               \/ ShutdownReturn(t)

Next == \/ \E s \in Scrapes : CollectStep(s)
        \/ Deadline
        \/ \E k \in Collectors : Instrumented(k)
        \/ \E w \in Workers, i \in Clients : TaskStep(w, i)
        \/ \E p \in Pings : HealthCheck(p)
        \/ \E t \in Stops : StopStep(t)

Spec == Init /\ [][Next]_vars

(* Fairness.  Go runs every goroutine that can run, and its mutex does not  *)
(* starve a waiter.  The timer of the scrape context fires, and pgx returns *)
(* from a call whose context is done.  Nothing is assumed of the servers: a *)
(* connection or a query may hang for ever.  HealthCheck has no deadline of *)
(* its own, so its callers' contexts are assumed to be done at some time.   *)
Fairness ==
    /\ \A s \in Scrapes : WF_vars(CollectStart(s)) /\ WF_vars(CollectEnd(s))
    /\ WF_vars(Deadline)
    /\ \A k \in Collectors : WF_vars(Instrumented(k))
    /\ \A w \in Workers, i \in Clients : WF_vars(Cancel(w, i))
    /\ \A t \in Stops : /\ WF_vars(LockerLock(t)) /\ WF_vars(SelectLocked(t))
                       /\ WF_vars(ShutdownReturn(t))
                       /\ \A i \in Clients : /\ WF_vars(CloseCall(t, i))
                                            /\ WF_vars(CloseReturn(t, i))

FairSpec == Spec /\ Fairness

-------------------------------------------------------------------------------
(* Properties.                                                              *)

TypeOK ==
    /\ mutex \in Scrapes \cup Stops \cup {Free}
    /\ at \in [Scrapes -> {"new", "lock", "run", "done"}]
    /\ up \in [Scrapes -> {0, 1, Unknown}]
    /\ ctx \in {"live", "expired"}
    /\ task \in [Workers -> [Clients -> {"idle", "acquire", "query"} \cup Ended]]
    /\ running \subseteq Collectors
    /\ failed \subseteq Collectors
    /\ culprits \subseteq Collectors
    /\ errors \in [Collectors -> Nat]
    /\ stop \in [Stops -> {"new", "select", "closing", "done", "aborted"}]
    /\ locker \in [Stops -> {"none", "lock", "locked"}]
    /\ pool \in [Clients -> {"open", "closing", "closed"}]

(* No Shutdown closes a pool while a scrape is running on it: a query of a  *)
(* Collect call never loses its pool under way.                             *)
NoCloseUnderScrape ==
    \A s \in Scrapes : at[s] = "run" =>
        /\ \A t \in Stops : stop[t] # "closing"
        /\ \A i \in Clients : pool[i] # "closing"

(* Outside a running scrape no collector goroutine is alive: none outlives  *)
(* the Collect call that started it, holds a connection of a pool that is   *)
(* being closed, or writes to the channel of a scrape that has ended.       *)
NoStrayWorker ==
    (\A s \in Scrapes : at[s] # "run")
        => \A k \in Collectors, i \in Clients : task[k][i] \in Ended \cup {"idle"}

(* No circle of waits: who holds the mutex needs nobody who waits for it.   *)
(* Each goroutine of a running scrape is where the end of its context ends  *)
(* it, and a Shutdown that closes pools is at one that no collector uses,   *)
(* whose Close returns when the HealthChecks have.  (That a Shutdown which  *)
(* has given up does hold the mutex, for good, is CleanAbort below.)        *)
ClosesNext(i) == /\ pool[i] # "closed"
                 /\ \A j \in 1 .. i - 1 : pool[j] = "closed"
                 /\ InUse(i) \subseteq Pings

HolderGoesOn ==
    /\ \A s \in Scrapes : mutex = s =>
          /\ at[s] = "run"
          /\ \A k \in running, i \in Clients : task[k][i] # "idle"
    /\ \A t \in Stops : mutex = t =>
          \/ stop[t] \in {"select", "aborted"}
          \/ stop[t] = "closing" /\ (AllClosed \/ \E i \in Clients : ClosesNext(i))

(* pg_stat_up is 1 exactly if every collector has ended well with every     *)
(* client in that scrape: its queries did, or the gates left it nothing to  *)
(* ask for.  README.md: "1 if the last scrape succeeded, 0 on error".       *)
UpMeansComplete ==
    [][\A s \in Scrapes :
         (up[s] = Unknown /\ up'[s] # Unknown)
            => (up'[s] = 1 <=> \A k \in Collectors, i \in Clients : task[k][i] = "ok")]_vars

(* The error counters and the up gauge tell the same story over any number  *)
(* of scrapes: a collector's counter rises at most once in a scrape that    *)
(* reports 0 and in no other, and each scrape that reports 0 is explained   *)
(* by a count of its own.                                                   *)
Down    == {s \in Scrapes : up[s] = 0}
Counted == UNION {{k} \X (1 .. errors[k]) : k \in Collectors}

ErrorsExplainDown ==
    /\ Cardinality(Down) <= Cardinality(Counted)
    /\ \A k \in Collectors :
          errors[k] <= Cardinality(Down) +
                         IF \E s \in Scrapes : at[s] = "run" /\ k \in failed THEN 1 ELSE 0

(* The errors of a scrape have a cause: the collectors cancel each other    *)
(* once one has failed, but the first error is that of a query of its own   *)
(* or of the deadline.                                                      *)
ErrorsHaveCause == failed # {} => culprits # {}

(* A Shutdown that has returned nil has closed every pool, with every       *)
(* connection given back, those of concurrent HealthChecks included.        *)
ShutdownDrains ==
    \A t \in Stops : stop[t] = "done" =>
        \A i \in Clients : pool[i] = "closed" /\ InUse(i) = {}

(* Collect and Shutdown are serialised, and a Collect after a Shutdown      *)
(* reports up = 0 if some collector cannot do without a connection, whether *)
(* or not some Shutdown calls give up waiting.                              *)
Running == \E s \in Scrapes : at[s] = "run"
Closing == \E t \in Stops : stop[t] = "closing"
Phase   == IF Running THEN "scrape" ELSE IF Closing THEN "close" ELSE "idle"
IsDown  == IF AllClosed THEN "yes" ELSE "no"
Gate == INSTANCE ScrapeGate WITH NeedsPool <- Collectors \ MaySkip # {},
                                 phase <- Phase, down <- IsDown
GateSpec == Gate!GateSpec

(* Every Collect call returns, although queries may hang for ever: a slow   *)
(* collector cannot hang the scrape.  It needs a deadline.                  *)
EveryScrapeEnds == \A s \in Scrapes : at[s] = "lock" ~> at[s] = "done"

(* Every Shutdown call returns, if none gives up.                           *)
ShutdownCompletes == \A t \in Stops : stop[t] = "select" ~> stop[t] = "done"

-------------------------------------------------------------------------------
(* Statements of the repository that the code does not live up to.          *)

(* instrumentation_test.go:86-87: "ctx cancellation cleanly aborts the      *)
(* wait".  A Shutdown call that has returned ctx.Err() does not hold the    *)
(* mutex.                                                                   *)
CleanAbort == \A t \in Stops : stop[t] = "aborted" => mutex # t
===============================================================================

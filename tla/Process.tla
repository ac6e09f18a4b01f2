-------------------------------- MODULE Process --------------------------------
(***************************************************************************)
(* cmd/main.go: the process around one Exporter.  It builds the exporter,  *)
(* serves /metrics until a signal arrives or the listener fails, and then  *)
(* shuts the HTTP server and the exporter down, one after the other, under *)
(* one deadline of 30 seconds.                                             *)
(*                                                                         *)
(* The exporter is that of module Exporter.  A request for /metrics is one *)
(* call of Collect.  promhttp answers 503 when its timeout passes, or when *)
(* the client has gone, and leaves the Collect call running; the timeout   *)
(* starts with the request, that of the scrape only with the mutex.        *)
(***************************************************************************)
EXTENDS Exporter

CONSTANT Main    \* main's call of exp.Shutdown

ASSUME ProcessAssumption == Stops = {Main} /\ Impatient = {Main} /\ Pings = {}

VARIABLES phase,     \* where main is
          signalled, \* SIGINT or SIGTERM has arrived: ctx is done
          listener,  \* what ListenAndServe left in errCh: "none" or "error"
          expired,   \* the 30 seconds of shutdownCtx are over
          req        \* req[s]: the request that Collect call s is made for

main == <<phase, signalled, listener, expired, req>>
all  == <<vars, main>>

ExitCode == {"exit 0", "exit 1"}
Alive    == phase \notin ExitCode
Open     == {s \in Scrapes : req[s] = "open"}    \* the client waits for an answer

ProcessInit == /\ Init
               /\ phase = "new"
               /\ signalled = FALSE
               /\ listener = "none"
               /\ expired = FALSE
               /\ req = [s \in Scrapes |-> "none"]

-------------------------------------------------------------------------------
(* main.  A signal only makes ctx done: a New under way goes on, since a    *)
(* client whose probe fails is a client with an unknown version.            *)

Signal == /\ ~signalled
          /\ signalled' = TRUE
          /\ UNCHANGED <<vars, phase, listener, expired, req>>

Goto(from, to) == /\ phase = from
                  /\ phase' = to
                  /\ UNCHANGED <<signalled, listener, expired, req>>

(* exporter.New and reg.Register have succeeded, ListenAndServe is started. *)
Start == Goto("new", "serve") /\ UNCHANGED vars

StartFail == Goto("new", "exit 1") /\ UNCHANGED vars

(* The address cannot be listened on, or Accept has failed.                 *)
ListenFail == /\ phase = "serve"
              /\ listener = "none"
              /\ listener' = "error"
              /\ UNCHANGED <<vars, phase, signalled, expired, req>>

(* select: <-errCh.  The process exits without any shutdown.                *)
ListenerError == /\ listener = "error"
                 /\ Goto("serve", "exit 1")
                 /\ UNCHANGED vars

(* select: <-ctx.Done().  srv.Shutdown is called.                           *)
SignalReceived == /\ signalled
                  /\ Goto("serve", "drain")
                  /\ UNCHANGED vars

(* The timer of shutdownCtx.                                                *)
Expire == /\ phase \in {"drain", "close"}
          /\ ~expired
          /\ expired' = TRUE
          /\ UNCHANGED <<vars, phase, signalled, listener, req>>

(* Variants: the exporter is shut down with no regard to the requests, or   *)
(* the HTTP server is given no deadline.                                    *)
ServerDownAtOnce   == Goto("drain", "close") /\ Shutdown(Main)
ServerDownUnlimited == Open = {} /\ Goto("drain", "close") /\ Shutdown(Main)

(* srv.Shutdown returns, with every request answered or with an error that  *)
(* is logged; exp.Shutdown is called with what is left of the 30 seconds.   *)
ServerDown == /\ Open = {} \/ expired
              /\ Goto("drain", "close")
              /\ Shutdown(Main)

(* exp.Shutdown has returned, with nil or with an error that is logged.     *)
Exit == /\ stop[Main] \in {"done", "aborted"}
        /\ Goto("close", "exit 0")
        /\ UNCHANGED vars

-------------------------------------------------------------------------------
(* The requests.  The listener is closed when srv.Shutdown begins, but one  *)
(* may still come in on a connection that is open.                          *)

Request(s) == /\ phase \in {"serve", "drain"} /\ ~expired
              /\ req[s] = "none"
              /\ req' = [req EXCEPT ![s] = "open"]
              /\ CollectCall(s)
              /\ UNCHANGED <<phase, signalled, listener, expired>>

Respond(s, how) == /\ s \in Open
                   /\ req' = [req EXCEPT ![s] = how]
                   /\ UNCHANGED <<vars, phase, signalled, listener, expired>>

(* Gather has all metrics of the Collect call: 200.                         *)
Answer(s) == at[s] = "done" /\ Respond(s, "answered")

(* The timeout handler answers 503; a timeout of 0 or less means none.      *)
TimeOut(s) == HasDeadline /\ Respond(s, "timed out")

(* ctx.Done() in exp.Shutdown is that of shutdownCtx.                       *)
GiveUpDead == SelectDone(Main)                     \* variant: ctx, which is done

GiveUp == expired /\ SelectDone(Main)

(* The steps of the exporter that do not involve main: of the scrapes, and  *)
(* of exp.Shutdown once it is called.                                       *)
ScrapeWork == /\ \/ \E s \in Scrapes : CollectStart(s) \/ CollectEnd(s)
                 \/ Deadline
                 \/ \E k \in Collectors : Instrumented(k)
                 \/ \E w \in Workers, i \in Clients : TaskStep(w, i)
              /\ UNCHANGED main

ShutdownWork == /\ \/ LockerLock(Main) \/ SelectLocked(Main) \/ GiveUp
                   \/ \E i \in Clients : CloseCall(Main, i) \/ CloseReturn(Main, i)
                   \/ ShutdownReturn(Main)
                /\ UNCHANGED main

MainStep    == \/ Start \/ StartFail \/ SignalReceived \/ ListenerError
               \/ ServerDown \/ Exit
RequestStep == \E s \in Scrapes : Request(s) \/ Answer(s) \/ TimeOut(s)

(* Nothing happens in a process that has exited.                            *)
ProcessNext == /\ Alive
               /\ \/ MainStep \/ Signal \/ ListenFail \/ Expire \/ RequestStep
                  \/ ScrapeWork \/ ShutdownWork

ProcessSpec == ProcessInit /\ [][ProcessNext]_all

(* Go runs every goroutine that can run, the timer of shutdownCtx fires,    *)
(* and New returns: pools are made without a connection, and the probe's    *)
(* context is done with the signal.  Nothing is assumed of the servers, nor *)
(* of the two timeouts of a scrape: the flag can turn them off.             *)
FairProcess == /\ ProcessSpec
               /\ WF_all(Alive /\ MainStep)
               /\ WF_all(Alive /\ Expire)
               /\ WF_all(Alive /\ ShutdownWork)

-------------------------------------------------------------------------------
(* Properties.                                                              *)

ProcessTypeOK ==
    /\ phase \in {"new", "serve", "drain", "close"} \cup ExitCode
    /\ signalled \in BOOLEAN /\ expired \in BOOLEAN
    /\ listener \in {"none", "error"}
    /\ req \in [Scrapes -> {"none", "open", "answered", "timed out"}]

(* A process that exits after a signal within the 30 seconds has cut off no *)
(* request and closed every pool with all connections given back;           *)
(* exporter.go:218-219: "so the process exits cleanly".                     *)
CleanExit ==
    phase = "exit 0" /\ ~expired =>
        /\ Open = {}
        /\ \A i \in Clients : pool[i] = "closed" /\ InUse(i) = {}

(* A request whose client is still waiting is never served from pools that  *)
(* the shutdown has begun to close, within the 30 seconds: no scrape before *)
(* the exit reports the database as down because the exporter goes away.    *)
ServedFromOpenPools ==
    ~expired /\ Open # {} => \A i \in Clients : pool[i] = "open"

(* After a signal the process ends, although queries may hang for ever and  *)
(* a scrape need not have a deadline: the two shutdowns share one that      *)
(* does, and the pools are only waited for when no scrape uses them.        *)
ProcessEnds == signalled ~> ~Alive
===============================================================================

------------------------------ MODULE ScrapeGate ------------------------------
(***************************************************************************)
(* What the exporter promises to its two kinds of callers, the Prometheus  *)
(* registry (Collect) and the program that embeds it (Shutdown): scrapes   *)
(* and shutdowns happen one at a time, a shutdown that has completed stays *)
(* in force, and a scrape of an exporter that is shut down reports up = 0, *)
(* if one of its collectors cannot do without a connection.                *)
(***************************************************************************)
CONSTANTS Scrapes,    \* calls of Collect
          NeedsPool,  \* some collector fails when it gets no connection
          Unknown     \* the scrape has not reported yet

VARIABLES phase,    \* "idle", "scrape" or "close"
          down,     \* "yes" when every connection pool is closed
          up        \* up[s]: the value of pg_stat_up that scrape s reported

gateVars == <<phase, down, up>>

GateInit == /\ phase = "idle"
            /\ down = "no"
            /\ up = [s \in Scrapes |-> Unknown]

BeginScrape == /\ phase = "idle"
               /\ phase' = "scrape"
               /\ UNCHANGED <<down, up>>

EndScrape(s, v) == /\ phase = "scrape"
                   /\ up[s] = Unknown
                   /\ down = "yes" /\ NeedsPool => v = 0
                   /\ phase' = "idle"
                   /\ up' = [up EXCEPT ![s] = v]
                   /\ UNCHANGED down

BeginClose == /\ phase = "idle"
              /\ phase' = "close"
              /\ UNCHANGED <<down, up>>

Close == /\ phase = "close"
         /\ down' = "yes"
         /\ UNCHANGED <<phase, up>>

EndClose == /\ phase = "close"
            /\ down = "yes"
            /\ phase' = "idle"
            /\ UNCHANGED <<down, up>>

GateNext == \/ BeginScrape
            \/ \E s \in Scrapes, v \in {0, 1} : EndScrape(s, v)
            \/ BeginClose
            \/ Close
            \/ EndClose

GateSpec == GateInit /\ [][GateNext]_gateVars
===============================================================================

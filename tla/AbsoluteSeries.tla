---------------------------- MODULE AbsoluteSeries ----------------------------
(***************************************************************************)
(* What the delta-tracking counter of exporter/collectors/vec.go promises  *)
(* to its callers: a caller pushes the absolute cumulative value that      *)
(* PostgreSQL exposes, and when its call returns the series of that label  *)
(* combination shows exactly this value.  Calls take effect one at a time. *)
(***************************************************************************)
CONSTANTS Clients,  \* the database clients, one scraping goroutine each
          Keys,     \* label combinations
          KeyOf,    \* the label combination of the row a client reads
          Values,   \* the absolute values a counter can have
          Absent    \* no call in progress, or no such series

VARIABLES asked,    \* asked[c]: value of the Observe call c has in progress
          shown     \* shown[k]: value the series k shows

absVars == <<asked, shown>>

AbsInit == /\ asked = [c \in Clients |-> Absent]
           /\ shown = [k \in Keys |-> Absent]

Ask(c, v) == /\ asked[c] = Absent
             /\ asked' = [asked EXCEPT ![c] = v]
             /\ UNCHANGED shown

Report(c) == /\ asked[c] # Absent
             /\ shown' = [shown EXCEPT ![KeyOf[c]] = asked[c]]
             /\ asked' = [asked EXCEPT ![c] = Absent]

AbsNext == \E c \in Clients : Report(c) \/ \E v \in Values : Ask(c, v)

AbsSpec == AbsInit /\ [][AbsNext]_absVars
===============================================================================

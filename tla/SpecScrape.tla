------------------------------ MODULE SpecScrape -------------------------------
(***************************************************************************)
(* spec.go: the scrape of a SpecCollector, whose SQL and metrics a user    *)
(* wrote.  Its vectors live as those of Series; what differs is that the   *)
(* rows are read and emitted one by one, so that an error can come in      *)
(* between, and that nobody knows what the columns hold.                   *)
(*                                                                         *)
(* One metric of one spec, a gauge or a counter, stands next to that of a  *)
(* built-in collector.  What a client returns is chosen afresh for every   *)
(* statement.  A column is an integer, and so is a scale: what matters is  *)
(* their sign and their order.  A number of a type that coerceFloat does   *)
(* not know (numeric, smallint) is treated as a NULL is.                   *)
(***************************************************************************)
EXTENDS Series, Integers

CONSTANTS Amounts, \* the numbers a column may hold
          Scales,  \* MetricSpec.Scale, 0 if it is not set
          Null,    \* a column that is NULL
          None     \* no row, or no value yet

ASSUME SpecAssumption ==
    /\ Amounts \subseteq Int /\ Amounts # {}
    /\ Scales \subseteq Int
    /\ None \notin Int /\ Null \notin Int /\ None # Null

VARIABLES kind,    \* "built-in", or the type of the spec's metric
          scale,   \* its Scale
          invalid, \* the label combinations with a string that is not valid UTF-8
          cell,    \* cell[c][k]: the column of the row with labels k that c read
          reading, \* the clients with rows that are not closed
          last,    \* counterDelta.last of the metric
          alive    \* no goroutine has panicked

spec  == <<kind, scale, invalid>>
local == <<spec, cell, reading, last, alive>>
all   == <<vars, local>>

Cells == {None, Null} \cup Amounts
NoCells(c) == [k \in RowsOf[c] |-> None]

(* The scale of a gauge is left out, since its values are.                  *)
SpecInit == /\ Init
            /\ kind \in {"built-in", "gauge", "counter"}
            /\ scale \in IF kind = "counter" THEN Scales ELSE {0}
            /\ invalid \in IF kind = "built-in" THEN {{}} ELSE SUBSET Keys
            /\ cell = [c \in Clients |-> NoCells(c)]
            /\ reading = {}
            /\ last = [k \in Keys |-> None]
            /\ alive = TRUE

(* AtLeast says no: the goroutine of this client returns nil.               *)
Gated(c) == /\ pc[c] = "select"
            /\ pc' = [pc EXCEPT ![c] = "emit"]
            /\ UNCHANGED <<table, round, scraper, rows, returned, vec, page, reported, local>>

Numbers(row) == {k \in DOMAIN row : row[k] \in Amounts}

QueryKeys(c, row, ks) ==
    /\ pc[c] = "select"
    /\ pc' = [pc EXCEPT ![c] = "emit"]
    /\ reading' = reading \cup {c}
    /\ cell' = [cell EXCEPT ![c] = row]
    /\ rows' = [rows EXCEPT ![c] = ks]
    /\ returned' = returned \cup Numbers(row)
    /\ reported' = reported \cup (Numbers(row) \X {round})
    /\ UNCHANGED <<table, round, scraper, vec, page, spec, last, alive>>

(* Variant: a NULL is coerced to 0.                                         *)
QueryNulls(c, row) == QueryKeys(c, row, {k \in DOMAIN row : row[k] # None})

(* The columns are all there; the loop will skip NULLs and other types.     *)
Query(c, row) == QueryKeys(c, row, Numbers(row))

(* The statement is rejected, or lacks the column of a label or metric.     *)
QueryFail(c) == SelectFail(c) /\ UNCHANGED local

(* val *= m.Scale                                                           *)
Scaled(v) == IF scale # 0 THEN v * scale ELSE v

(* gauge.WithLabelValues(...).Set(val)                                      *)
SetGauge(c, k) == /\ kind = "gauge"
                  /\ k \notin invalid
                  /\ Emit(c, k)
                  /\ UNCHANGED local

(* Variant: without the case value < last.                                  *)
AddedWithoutReset(k, v) == Scaled(v) - IF last[k] = None THEN 0 ELSE last[k]

(* What Observe passes to Add.                                              *)
Added(k, v) ==
    IF last[k] = None \/ Scaled(v) < last[k] THEN Scaled(v) ELSE Scaled(v) - last[k]

Observe(c, k) == /\ kind = "counter"
                 /\ k \notin invalid
                 /\ Emit(c, k)
                 /\ Added(k, cell[c][k]) >= 0
                 /\ last' = [last EXCEPT ![k] = Scaled(cell[c][k])]
                 /\ UNCHANGED <<spec, cell, reading, alive>>

(* WithLabelValues panics if a label is not valid UTF-8, Add if what it is  *)
(* given is negative, in a goroutine that nobody recovers.                  *)
Panic(c, k) == /\ pc[c] = "emit" /\ k \in rows[c]
               /\ k \in invalid \/ (kind = "counter" /\ Added(k, cell[c][k]) < 0)
               /\ alive' = FALSE
               /\ UNCHANGED <<vars, spec, cell, reading, last>>

(* The deferred rows.Close(); the values read are gone with the locals.     *)
CloseRows(c) == /\ c \in reading
                /\ reading' = reading \ {c}
                /\ cell' = [cell EXCEPT ![c] = NoCells(c)]
                /\ UNCHANGED <<spec, last, alive>>

(* Values or Err returns an error: the rest of the rows is lost.            *)
RowFail(c) == /\ CloseRows(c)
              /\ pc' = [pc EXCEPT ![c] = "failed"]
              /\ rows' = [rows EXCEPT ![c] = {}]
              /\ UNCHANGED <<table, round, scraper, returned, vec, page, reported>>

RowsEnd(c) == CloseRows(c) /\ rows[c] = {} /\ UNCHANGED vars

(* What a column may return: which number it is matters to counters only.   *)
Returns == IF kind = "counter" THEN Cells
           ELSE {None, Null, CHOOSE n \in Amounts : TRUE}

(* group.Wait() has returned: collectInto, or the error.                    *)
Finish == (Collect \/ Abandon) /\ reading = {} /\ UNCHANGED local

SpecStep(c) == \/ Gated(c) \/ QueryFail(c) \/ RowFail(c) \/ RowsEnd(c)
                  \/ \E row \in [RowsOf[c] -> Returns] : Query(c, row)
                  \/ \E k \in Keys : SetGauge(c, k) \/ Observe(c, k) \/ Panic(c, k)

SpecNext ==
    \/ /\ kind = "built-in"
       /\ Next
       /\ UNCHANGED local
    \/ /\ kind # "built-in" /\ alive
       /\ \/ \E c \in Clients : SpecStep(c)
          \/ \E r \in Readers : (StartScrape(r) \/ Written(r)) /\ UNCHANGED local
          \/ Finish

SpecSpec == SpecInit /\ [][SpecNext]_all

-------------------------------------------------------------------------------
(* Properties, besides PageIsFresh and OnlyReported of Series: an error     *)
(* between two rows leaves children of a scrape that hands out no page, and *)
(* neither they nor NULLs make a later page show what no server returned.   *)

SpecTypeOK ==
    /\ TypeOK
    /\ kind \in {"built-in", "gauge", "counter"}
    /\ scale \in Int
    /\ invalid \subseteq Keys
    /\ DOMAIN cell = Clients
    /\ \A c \in Clients : cell[c] \in [RowsOf[c] -> Cells]
    /\ reading \subseteq {c \in Clients : pc[c] = "emit"}
    /\ last \in [Keys -> {None} \cup Int]
    /\ alive \in BOOLEAN

(* Only a label that is not valid UTF-8, or a counter column that is        *)
(* negative once it is scaled, takes the process down: a counter that was   *)
(* reset, in whatever order clients and failed scrapes observed it before,  *)
(* does not, and what Observe has taken over is never negative.             *)
OnlyBadDataKills ==
    /\ ~alive => \E c \in Clients, k \in Keys :
                   /\ k \in rows[c]
                   /\ k \in invalid \/ (kind = "counter" /\ Scaled(cell[c][k]) < 0)
    /\ \A k \in Keys : last[k] # None => last[k] >= 0
===============================================================================

-------------------------------- MODULE Series --------------------------------
(***************************************************************************)
(* The gauge vectors of a collector over many scrapes, as in               *)
(* pg_stat_progress_vacuum.go: the goroutines of a scrape set one child    *)
(* per row their client returned; when all of them have succeeded every    *)
(* child of the vector is handed to the registry, which reads the values   *)
(* later.  Rows come and go in the servers, and their columns may be NULL. *)
(*                                                                         *)
(* The value of a child is abstracted to the number of the scrape that     *)
(* read it: that is what its age, and nothing else, depends on.            *)
(***************************************************************************)
EXTENDS Naturals

CONSTANTS Clients,   \* Exporter.dbClients
          Keys,      \* label combinations of one gauge metric
          RowsOf,    \* RowsOf[c]: the label combinations client c may return
          Readers,   \* registry Gather calls
          MaxRounds, \* bound on the number of scrapes
          Free       \* no scrape is running

ASSUME SeriesAssumption ==
    /\ RowsOf \in [Clients -> SUBSET Keys]
    /\ MaxRounds \in Nat
    /\ Free \notin Readers

VARIABLES table,     \* table[c][k]: the row of c's server: "none", "null" or "value"
          round,     \* number of the last scrape that was started
          scraper,   \* the Gather whose Collect runs, or Free
          pc,        \* where the goroutine of client c is
          rows,      \* rows[c]: the rows c still has to emit
          returned,  \* the keys of all rows with a value in this scrape
          vec,       \* vec[k]: the scrape whose value the child of k has, 0 if no child
          page,      \* page[r]: the children Gather r was given
          reported   \* history: <<k, n>> if scrape n returned a value for k

vars == <<table, round, scraper, pc, rows, returned, vec, page, reported>>

NoPage == [round |-> 0, keys |-> {}, rows |-> {}]
Values(c) == {k \in RowsOf[c] : table[c][k] = "value"}
Ended(c)  == pc[c] = "emit" /\ rows[c] = {}

Init == /\ table = [c \in Clients |-> [k \in RowsOf[c] |-> "none"]]
        /\ round = 0
        /\ scraper = Free
        /\ pc = [c \in Clients |-> "emit"]
        /\ rows = [c \in Clients |-> {}]
        /\ returned = {}
        /\ vec = [k \in Keys |-> 0]
        /\ page = [r \in Readers |-> NoPage]
        /\ reported = {}

(* A backend starts, ends, or has nothing to report in this column.         *)
Change(c, k, v) == /\ table[c][k] # v
                   /\ table' = [table EXCEPT ![c][k] = v]
                   /\ UNCHANGED <<round, scraper, pc, rows, returned, vec, page, reported>>

StartScrape(r) == /\ scraper = Free
                  /\ page[r] = NoPage
                  /\ round < MaxRounds
                  /\ scraper' = r
                  /\ round' = round + 1
                  /\ pc' = [c \in Clients |-> "select"]
                  /\ rows' = [c \in Clients |-> {}]
                  /\ returned' = {}
                  /\ UNCHANGED <<table, vec, page, reported>>

SelectKeys(c, ks) == /\ pc[c] = "select"
                     /\ pc' = [pc EXCEPT ![c] = "emit"]
                     /\ rows' = [rows EXCEPT ![c] = ks]
                     /\ returned' = returned \cup Values(c)
                     /\ reported' = reported \cup (Values(c) \X {round})
                     /\ UNCHANGED <<table, round, scraper, vec, page>>

(* The statement has run; emit will skip the rows whose column is NULL.     *)
Select(c) == SelectKeys(c, Values(c))

SelectFail(c) == /\ pc[c] = "select"
                 /\ pc' = [pc EXCEPT ![c] = "failed"]
                 /\ UNCHANGED <<table, round, scraper, rows, returned, vec, page, reported>>

(* Variant: Add instead of Set.                                             *)
EmitAdd(c, k) == /\ pc[c] = "emit"
                 /\ k \in rows[c]
                 /\ vec' = [vec EXCEPT ![k] = @ + round]
                 /\ rows' = [rows EXCEPT ![c] = @ \ {k}]
                 /\ UNCHANGED <<table, round, scraper, pc, returned, page, reported>>

(* emit: WithLabelValues(...).Set(v)                                        *)
Emit(c, k) == /\ pc[c] = "emit"
              /\ k \in rows[c]
              /\ vec' = [vec EXCEPT ![k] = round]
              /\ rows' = [rows EXCEPT ![c] = @ \ {k}]
              /\ UNCHANGED <<table, round, scraper, pc, returned, page, reported>>

HandOut == /\ page' = [page EXCEPT ![scraper] = [round |-> round, rows |-> returned,
                                                 keys |-> {k \in Keys : vec[k] # 0}]]
           /\ scraper' = Free
           /\ UNCHANGED <<table, round, pc, rows, returned, vec, reported>>

(* Variant: without waiting for the goroutines to emit what they read.      *)
CollectEarly == scraper # Free /\ (\A c \in Clients : pc[c] = "emit") /\ HandOut

(* group.Wait() returned nil: collectInto hands out every child.            *)
Collect == /\ scraper # Free
           /\ \A c \in Clients : Ended(c)
           /\ HandOut

(* group.Wait() returned an error: nothing is handed out, and what the      *)
(* other goroutines have set stays.                                         *)
Abandon == /\ scraper # Free
           /\ \A c \in Clients : Ended(c) \/ pc[c] = "failed"
           /\ \E c \in Clients : pc[c] = "failed"
           /\ scraper' = Free
           /\ UNCHANGED <<table, round, pc, rows, returned, vec, page, reported>>

(* The registry has written out the children it was given.                  *)
Written(r) == /\ page[r] # NoPage
              /\ page' = [page EXCEPT ![r] = NoPage]
              /\ UNCHANGED <<table, round, scraper, pc, rows, returned, vec, reported>>

Server(c) == \E k \in RowsOf[c], v \in {"none", "null", "value"} : Change(c, k, v)
Scrape(c) == Select(c) \/ SelectFail(c) \/ \E k \in Keys : Emit(c, k)

Next == \/ \E c \in Clients : Server(c) \/ Scrape(c)
        \/ \E r \in Readers : StartScrape(r) \/ Written(r)
        \/ Collect
        \/ Abandon

Spec == Init /\ [][Next]_vars

-------------------------------------------------------------------------------
(* Properties.                                                              *)

Pages == [round : 0 .. MaxRounds, keys : SUBSET Keys, rows : SUBSET Keys]

TypeOK ==
    /\ \A c \in Clients : table[c] \in [RowsOf[c] -> {"none", "null", "value"}]
    /\ round \in 0 .. MaxRounds
    /\ scraper \in Readers \cup {Free}
    /\ pc \in [Clients -> {"select", "emit", "failed"}]
    /\ rows \in [Clients -> SUBSET Keys]
    /\ returned \subseteq Keys
    /\ vec \in [Keys -> 0 .. MaxRounds]
    /\ page \in [Readers -> Pages]
    /\ reported \subseteq Keys \X (1 .. MaxRounds)

(* Every value a client returned is on the page of its scrape, and whenever *)
(* the registry reads it, it is from this scrape or a later one: no row a   *)
(* scrape returned shows what an earlier scrape read.                       *)
PageIsFresh ==
    \A r \in Readers :
        /\ page[r].rows \subseteq page[r].keys
        /\ \A k \in page[r].rows : vec[k] >= page[r].round

(* A child only ever has a value that a server did return for its labels:   *)
(* a NULL never becomes a number.                                           *)
OnlyReported == \A k \in Keys : vec[k] # 0 => <<k, vec[k]>> \in reported

-------------------------------------------------------------------------------
(* pg_stat_progress_vacuum.go:15-16: "metrics only appear while a worker is *)
(* active": a successful scrape hands out children for the rows it read and *)
(* for no others.                                                           *)
NoGhosts == \A r \in Readers : page[r].keys \subseteq page[r].rows
===============================================================================

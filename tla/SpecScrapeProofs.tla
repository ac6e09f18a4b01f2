--------------------------- MODULE SpecScrapeProofs ----------------------------
(***************************************************************************)
(* Proofs about SpecScrape, for any number of clients, label combinations, *)
(* readers and scrapes.                                                    *)
(*                                                                         *)
(* The vectors of a spec are those of Series but for three steps, a closed *)
(* gate, a statement that returns what it likes and an error between two   *)
(* rows; they keep the invariant of SeriesProofs.  For counters, a         *)
(* goroutine only holds numbers (Read), and what Observe has taken over is *)
(* not negative: then what it passes to Add is negative only if the column *)
(* is, once it is scaled (AddedSign).                                      *)
(***************************************************************************)
EXTENDS SpecScrape, SeriesProofs

USE SeriesAssumption, SpecAssumption DEF spec

LEMMA NumbersAreKeys ==
  ASSUME NEW c \in Clients, NEW row \in [RowsOf[c] -> Cells]
  PROVE  Numbers(row) \subseteq RowsOf[c] /\ Numbers(row) \subseteq Keys
  BY DEF Numbers

(* A closed gate is a statement without rows; what a statement returned was *)
(* reported; rows are only given up by a scrape that fails.                 *)
LEMMA GatedStep ==
  ASSUME IInv, NEW c \in Clients, Gated(c)
  PROVE  IInv'
  <1> USE DEF Gated, IInv
  <1>1. pc' = [pc EXCEPT ![c] = "emit"]
        /\ UNCHANGED <<table, round, scraper, rows, returned, vec, page, reported>>
    OBVIOUS
  <1>2. TypeOK' BY <1>1 DEF TypeOK
  <1>3. \A d \in Clients : /\ pc[d] = "emit" => pc'[d] = "emit"
                           /\ pc[d] = "failed" => pc'[d] = "failed"
                           /\ pc'[d] = "select" => pc[d] = "select"
    BY <1>1 DEF TypeOK
  <1>4. QED BY <1>1, <1>2, <1>3 DEF Past, Sourced, Pending, OnlyReported, PageIsFresh

LEMMA QueryStep ==
  ASSUME IInv, NEW c \in Clients, NEW row \in [RowsOf[c] -> Cells], Query(c, row)
  PROVE  IInv'
  <1> DEFINE ks == Numbers(row)
  <1>1. /\ pc[c] = "select" /\ pc' = [pc EXCEPT ![c] = "emit"]
        /\ rows' = [rows EXCEPT ![c] = ks]
        /\ returned' = returned \cup ks
        /\ reported' = reported \cup (ks \X {round})
        /\ UNCHANGED <<table, round, scraper, vec, page>>
    BY DEF Query, QueryKeys
  <1>2. ks \subseteq Keys BY NumbersAreKeys
  <1> HIDE DEF ks
  <1> USE DEF IInv
  <1>3. round > 0 BY <1>1 DEF Past
  <1>4. TypeOK'  BY <1>1, <1>2, <1>3 DEF TypeOK
  <1>5. Past'    BY <1>1, <1>3 DEF Past, TypeOK
  <1>6. Sourced' BY <1>1, <1>2 DEF Sourced, TypeOK
  <1>7. Pending'
    <2>1. c \in Clients /\ pc'[c] = "emit" /\ rows'[c] = ks
      BY <1>1 DEF TypeOK
    <2>2. \A d \in Clients : /\ pc[d] = "emit" => pc'[d] = "emit" /\ rows'[d] = rows[d]
                             /\ pc[d] = "failed" => pc'[d] = "failed"
      BY <1>1 DEF TypeOK
    <2>3. QED BY <1>1, <1>3, <2>1, <2>2 DEF Pending
  <1>8. QED BY <1>1, <1>4, <1>5, <1>6, <1>7 DEF OnlyReported, PageIsFresh

LEMMA RowFailStep ==
  ASSUME IInv, NEW c \in Clients, RowFail(c)
  PROVE  IInv'
  <1> USE DEF IInv
  <1>1. /\ pc' = [pc EXCEPT ![c] = "failed"] /\ rows' = [rows EXCEPT ![c] = {}]
        /\ UNCHANGED <<table, round, scraper, returned, vec, page, reported>>
    BY DEF RowFail
  <1>2. TypeOK' BY <1>1 DEF TypeOK
  <1>3. pc'[c] = "failed" BY <1>1 DEF TypeOK
  <1>4. \A d \in Clients : /\ rows'[d] \subseteq rows[d]
                           /\ pc'[d] = "select" => pc[d] = "select"
    BY <1>1 DEF TypeOK
  <1>5. QED BY <1>1, <1>2, <1>3, <1>4 DEF Past, Sourced, Pending, OnlyReported, PageIsFresh

(* The vectors' invariant of Series holds of those of a spec too.           *)
LEMMA SeriesStep == IInv /\ [SpecNext]_all => IInv'
  <1> SUFFICES ASSUME IInv, [SpecNext]_all PROVE IInv'
    OBVIOUS
  <1>1. CASE kind = "built-in" /\ Next BY <1>1, Inductive
  <1>2. ASSUME NEW c \in Clients, SpecStep(c) PROVE IInv'
    <2>1. CASE Gated(c)     BY <2>1, GatedStep
    <2>2. CASE QueryFail(c) BY <2>2, Inductive DEF QueryFail, Next, Scrape
    <2>3. CASE RowFail(c)   BY <2>3, RowFailStep
    <2>4. CASE RowsEnd(c)   BY <2>4, Inductive DEF RowsEnd
    <2>5. ASSUME NEW row \in [RowsOf[c] -> Returns], Query(c, row) PROVE IInv'
      <3>1. row \in [RowsOf[c] -> Cells]
        BY DEF Returns, Cells
      <3>2. QED BY <2>5, <3>1, QueryStep
    <2>6. ASSUME NEW k \in Keys, SetGauge(c, k) \/ Observe(c, k) PROVE IInv'
      <3>1. Emit(c, k) BY <2>6 DEF SetGauge, Observe
      <3>2. QED BY <3>1, Inductive DEF Next, Scrape
    <2>7. ASSUME NEW k \in Keys, Panic(c, k) PROVE IInv'
      BY <2>7, Inductive DEF Panic
    <2>8. QED BY <1>2, <2>1, <2>2, <2>3, <2>4, <2>5, <2>6, <2>7 DEF SpecStep
  <1>3. ASSUME NEW r \in Readers, StartScrape(r) \/ Written(r) PROVE IInv'
    BY <1>3, Inductive DEF Next
  <1>4. CASE Finish
    BY <1>4, Inductive DEF Finish, Next
  <1>5. CASE UNCHANGED all
    BY <1>5, Inductive DEF all
  <1>6. QED BY <1>1, <1>2, <1>3, <1>4, <1>5 DEF SpecNext

(* A page of a spec's metrics is fresh as well, though a scrape that failed *)
(* between two rows leaves what it has set.                                 *)
THEOREM SpecPagesFresh == SpecSpec => []PageIsFresh
  <1>1. SpecInit => IInv BY InitIInv DEF SpecInit
  <1>2. IInv => PageIsFresh BY DEF IInv
  <1>3. QED BY <1>1, <1>2, SeriesStep, PTL DEF SpecSpec

(* No child of a spec's vector has a value no server returned: what is NULL *)
(* or of an unknown type never becomes a number.                            *)
THEOREM SpecValuesReported == SpecSpec => []OnlyReported
  <1>1. SpecInit => IInv BY InitIInv DEF SpecInit
  <1>2. IInv => OnlyReported BY DEF IInv
  <1>3. QED BY <1>1, <1>2, SeriesStep, PTL DEF SpecSpec

-------------------------------------------------------------------------------
(* Counters.                                                                *)

LEMMA ScaledInt ==
  ASSUME NEW v \in Amounts, scale \in Int
  PROVE  Scaled(v) \in Int
  <1>1. v \in Int
    OBVIOUS
  <1>2. v * scale \in Int
    BY <1>1
  <1>3. QED BY <1>1, <1>2 DEF Scaled

LEMMA AddedSign ==
  ASSUME NEW k \in Keys, last[k] \in {None} \cup Int, last[k] # None => last[k] >= 0,
         NEW v \in Amounts, scale \in Int
  PROVE  /\ Added(k, v) \in Int
         /\ Added(k, v) < 0 <=> Scaled(v) < 0
  <1>1. Scaled(v) \in Int
    BY ScaledInt
  <1>2. CASE last[k] = None
    BY <1>1, <1>2 DEF Added
  <1>3. CASE last[k] # None
    BY <1>1, <1>3 DEF Added
  <1>4. QED BY <1>2, <1>3

(* What the goroutine of a spec has to emit are numbers it has read.        *)
Read == kind # "built-in" =>
          \A c \in Clients : /\ pc[c] = "emit" => rows[c] \subseteq Numbers(cell[c])
                             /\ pc[c] = "select" => rows[c] = {}

(* No rows are open, and no statement is still to come, between scrapes.    *)
Idle == scraper = Free => reading = {} /\ \A c \in Clients : pc[c] # "select"

Kinds == kind = "built-in" => alive /\ reading = {}

Rest == SpecTypeOK /\ Read /\ Idle /\ Kinds /\ OnlyBadDataKills

LEMMA InitRest == SpecInit => Rest
  <1> SUFFICES ASSUME SpecInit PROVE Rest
    OBVIOUS
  <1>1. TypeOK BY InitIInv DEF SpecInit, IInv
  <1>2. SpecTypeOK
    BY <1>1 DEF SpecInit, SpecTypeOK, NoCells, Cells
  <1>3. Read /\ Idle /\ Kinds /\ OnlyBadDataKills
    BY DEF SpecInit, Init, Read, Idle, Kinds, OnlyBadDataKills
  <1>4. QED BY <1>2, <1>3 DEF Rest

(* The steps of a goroutine.                                                *)
LEMMA QuietStep ==
  ASSUME IInv, IInv', Rest, kind # "built-in", alive, NEW c \in Clients,
         Gated(c) \/ QueryFail(c)
  PROVE  Rest'
  <1> USE DEF Rest
  <1>1. /\ pc[c] = "select"
        /\ \E v \in {"emit", "failed"} : pc' = [pc EXCEPT ![c] = v]
        /\ UNCHANGED <<scraper, rows, spec, cell, reading, last, alive>>
    BY DEF Gated, QueryFail, SelectFail, local
  <1>t. pc \in [Clients -> {"select", "emit", "failed"}] /\ TypeOK'
    BY DEF IInv, TypeOK
  <1>2. \A d \in Clients : d # c => pc'[d] = pc[d]
    BY <1>1, <1>t
  <1>3. pc'[c] # "select" BY <1>1, <1>t
  <1>4. SpecTypeOK' BY <1>1, <1>2, <1>t DEF SpecTypeOK
  <1>5. Read' BY <1>1, <1>2, <1>3 DEF Read
  <1>6. Idle' BY <1>1 DEF Idle
  <1>7. QED BY <1>1, <1>4, <1>5, <1>6 DEF Kinds, OnlyBadDataKills

LEMMA QueryRest ==
  ASSUME IInv, IInv', Rest, kind # "built-in", alive, NEW c \in Clients,
         NEW row \in [RowsOf[c] -> Cells], Query(c, row)
  PROVE  Rest'
  <1> USE DEF Rest
  <1>1. /\ pc[c] = "select" /\ pc' = [pc EXCEPT ![c] = "emit"]
        /\ reading' = reading \cup {c}
        /\ cell' = [cell EXCEPT ![c] = row]
        /\ rows' = [rows EXCEPT ![c] = Numbers(row)]
        /\ UNCHANGED <<scraper, spec, last, alive>>
    BY DEF Query, QueryKeys
  <1>t. /\ pc \in [Clients -> {"select", "emit", "failed"}] /\ TypeOK'
        /\ rows \in [Clients -> SUBSET Keys]
    BY DEF IInv, TypeOK
  <1>d. DOMAIN cell = Clients BY DEF SpecTypeOK
  <1>2. \A d \in Clients :
          IF d = c THEN pc'[d] = "emit" /\ rows'[d] = Numbers(row) /\ cell'[d] = row
          ELSE pc'[d] = pc[d] /\ rows'[d] = rows[d] /\ cell'[d] = cell[d]
    BY <1>1, <1>t, <1>d
  <1>3. SpecTypeOK'
    BY <1>1, <1>2, <1>t, <1>d DEF SpecTypeOK
  <1>4. Read' BY <1>1, <1>2 DEF Read
  <1>5. Idle' BY <1>1 DEF Idle
  <1>6. QED BY <1>1, <1>3, <1>4, <1>5 DEF Kinds, OnlyBadDataKills

LEMMA EmitRest ==
  ASSUME IInv, IInv', Rest, kind # "built-in", alive, NEW c \in Clients, NEW k \in Keys,
         SetGauge(c, k) \/ Observe(c, k)
  PROVE  Rest'
  <1> USE DEF Rest
  <1>1. /\ pc[c] = "emit" /\ k \in rows[c]
        /\ rows' = [rows EXCEPT ![c] = @ \ {k}]
        /\ UNCHANGED <<scraper, pc, spec, cell, reading, alive>>
    BY DEF SetGauge, Observe, Emit, local
  <1>t. rows \in [Clients -> SUBSET Keys] /\ TypeOK'
    BY DEF IInv, TypeOK
  <1>2. \A d \in Clients : rows'[d] \subseteq rows[d]
    BY <1>1, <1>t
  <1>3. Read' BY <1>1, <1>2 DEF Read
  <1>4. Idle' /\ Kinds' BY <1>1 DEF Idle, Kinds
  <1>5. /\ last' \in [Keys -> {None} \cup Int]
        /\ \A j \in Keys : last'[j] # None => last'[j] >= 0
    <2>1. CASE SetGauge(c, k)
      BY <2>1 DEF SetGauge, local, SpecTypeOK, OnlyBadDataKills
    <2>2. CASE Observe(c, k)
      <3>1. cell[c][k] \in Amounts
        BY <1>1 DEF Read, Numbers
      <3>2. /\ last[k] \in {None} \cup Int /\ (last[k] # None => last[k] >= 0)
            /\ scale \in Int
        BY DEF SpecTypeOK, OnlyBadDataKills
      <3>3. Scaled(cell[c][k]) \in Int
        BY <3>1, <3>2, ScaledInt
      <3>4. Scaled(cell[c][k]) >= 0
        <4>1. /\ Added(k, cell[c][k]) \in Int
              /\ Added(k, cell[c][k]) < 0 <=> Scaled(cell[c][k]) < 0
          BY <3>1, <3>2, AddedSign
        <4>2. Added(k, cell[c][k]) >= 0 BY <2>2 DEF Observe
        <4>3. QED BY <3>3, <4>1, <4>2
      <3>5. last' = [last EXCEPT ![k] = Scaled(cell[c][k])] BY <2>2 DEF Observe
      <3>6. QED BY <3>3, <3>4, <3>5 DEF SpecTypeOK, OnlyBadDataKills
    <2>3. QED BY <2>1, <2>2
  <1>6. SpecTypeOK' BY <1>1, <1>5, <1>t DEF SpecTypeOK
  <1>7. OnlyBadDataKills' BY <1>1, <1>5 DEF OnlyBadDataKills
  <1>8. QED BY <1>3, <1>4, <1>6, <1>7

LEMMA PanicRest ==
  ASSUME IInv, IInv', Rest, kind # "built-in", alive, NEW c \in Clients, NEW k \in Keys,
         Panic(c, k)
  PROVE  Rest'
  <1> USE DEF Rest
  <1>1. /\ pc[c] = "emit" /\ k \in rows[c] /\ alive' = FALSE
        /\ k \in invalid \/ (kind = "counter" /\ Added(k, cell[c][k]) < 0)
        /\ UNCHANGED <<scraper, pc, rows, spec, cell, reading, last>>
    BY DEF Panic, vars
  <1>2. cell[c][k] \in Amounts
    BY <1>1 DEF Read, Numbers
  <1>3. /\ last[k] \in {None} \cup Int /\ (last[k] # None => last[k] >= 0)
        /\ scale \in Int
    BY DEF SpecTypeOK, OnlyBadDataKills
  <1>4. k \in invalid \/ (kind = "counter" /\ Scaled(cell[c][k]) < 0)
    BY <1>1, <1>2, <1>3, AddedSign
  <1>5. SpecTypeOK'
    <2>1. TypeOK' BY DEF IInv
    <2>2. QED BY <1>1, <2>1 DEF SpecTypeOK
  <1>6. Read' /\ Idle' /\ Kinds'
    BY <1>1 DEF Read, Idle, Kinds, SpecTypeOK
  <1>7. OnlyBadDataKills'
    <2>1. k \in rows'[c] /\ (k \in invalid' \/ (kind' = "counter" /\ Scaled(cell[c][k])' < 0))
      BY <1>1, <1>4 DEF Scaled
    <2>2. QED BY <1>1, <2>1 DEF OnlyBadDataKills
  <1>8. QED BY <1>5, <1>6, <1>7

LEMMA CloseRest ==
  ASSUME IInv, IInv', Rest, kind # "built-in", alive, NEW c \in Clients,
         RowFail(c) \/ RowsEnd(c)
  PROVE  Rest'
  <1> USE DEF Rest
  <1>t. /\ pc \in [Clients -> {"select", "emit", "failed"}] /\ TypeOK'
        /\ rows \in [Clients -> SUBSET Keys]
    BY DEF IInv, TypeOK
  <1>1. /\ c \in reading /\ reading' = reading \ {c}
        /\ cell' = [cell EXCEPT ![c] = NoCells(c)]
        /\ UNCHANGED <<scraper, spec, last, alive>>
    BY DEF RowFail, RowsEnd, CloseRows, vars
  <1>2. rows'[c] = {} /\ pc'[c] \in {"emit", "failed"}
    BY <1>1, <1>t DEF RowFail, RowsEnd, vars, SpecTypeOK
  <1>3. \A d \in Clients : d # c => pc'[d] = pc[d] /\ rows'[d] = rows[d] /\ cell'[d] = cell[d]
    BY <1>1, <1>t DEF RowFail, RowsEnd, vars
  <1>4. \A d \in Clients : cell'[d] \in [RowsOf[d] -> Cells]
    BY <1>1, <1>3 DEF SpecTypeOK, NoCells, Cells
  <1>5. SpecTypeOK'
    BY <1>1, <1>3, <1>4, <1>t DEF SpecTypeOK
  <1>6. Read' BY <1>1, <1>2, <1>3 DEF Read
  <1>7. Idle' BY <1>1, <1>2, <1>3 DEF Idle
  <1>8. QED BY <1>1, <1>5, <1>6, <1>7 DEF Kinds, OnlyBadDataKills

(* The steps of everybody else.                                             *)
LEMMA SharedRest ==
  ASSUME IInv, IInv', Rest, kind # "built-in", alive,
         Finish \/ \E r \in Readers : (StartScrape(r) \/ Written(r)) /\ UNCHANGED local
  PROVE  Rest'
  <1> USE DEF Rest, local
  <1>t. TypeOK /\ TypeOK' BY DEF IInv
  <1>1. CASE Finish
    <2>1. /\ reading = {} /\ scraper' = Free
          /\ \A c \in Clients : pc[c] # "select"
          /\ UNCHANGED <<pc, rows, spec, cell, reading, last, alive>>
      BY <1>1 DEF Finish, Collect, HandOut, Abandon, Ended
    <2>2. SpecTypeOK' BY <2>1, <1>t DEF SpecTypeOK
    <2>3. QED BY <2>1, <2>2 DEF Read, Idle, Kinds, OnlyBadDataKills
  <1>2. ASSUME NEW r \in Readers, StartScrape(r), UNCHANGED local PROVE Rest'
    <2>1. /\ scraper = Free /\ scraper' # Free
          /\ \A c \in Clients : pc'[c] = "select" /\ rows'[c] = {}
          /\ UNCHANGED <<spec, cell, reading, last, alive>>
      BY <1>2 DEF StartScrape
    <2>2. reading = {} BY <2>1 DEF Idle
    <2>3. SpecTypeOK' BY <2>1, <2>2, <1>t DEF SpecTypeOK
    <2>4. QED BY <2>1, <2>2, <2>3 DEF Read, Idle, Kinds, OnlyBadDataKills
  <1>3. ASSUME NEW r \in Readers, Written(r), UNCHANGED local PROVE Rest'
    <2>1. UNCHANGED <<scraper, pc, rows, spec, cell, reading, last, alive>>
      BY <1>3 DEF Written
    <2>2. SpecTypeOK' BY <2>1, <1>t DEF SpecTypeOK
    <2>3. QED BY <2>1, <2>2 DEF Read, Idle, Kinds, OnlyBadDataKills
  <1>4. QED BY <1>1, <1>2, <1>3

LEMMA BuiltInRest ==
  ASSUME IInv, IInv', Rest, kind = "built-in", Next, UNCHANGED local
  PROVE  Rest'
  <1> USE DEF Rest, local
  <1>1. TypeOK' /\ reading = {} /\ alive BY DEF IInv, Kinds
  <1>2. SpecTypeOK' BY <1>1 DEF SpecTypeOK
  <1>3. Read' /\ Kinds' /\ OnlyBadDataKills'
    BY <1>1 DEF Read, Kinds, OnlyBadDataKills
  <1>4. Idle'
    <2>1. CASE Collect \/ Abandon
      BY <1>1, <2>1 DEF Collect, Abandon, HandOut, Ended, Idle
    <2>2. ASSUME NEW r \in Readers, StartScrape(r) PROVE Idle'
      BY <2>2 DEF StartScrape, Idle
    <2>3. ASSUME NEW r \in Readers, Written(r) PROVE Idle'
      BY <1>1, <2>3 DEF Written, Idle
    <2>4. ASSUME NEW c \in Clients, Server(c) PROVE Idle'
      BY <1>1, <2>4 DEF Server, Change, Idle
    <2>5. ASSUME NEW c \in Clients, Scrape(c) PROVE Idle'
      <3>1. CASE \E k \in Keys : Emit(c, k)
        BY <1>1, <3>1 DEF Emit, Idle
      <3>2. CASE Select(c) \/ SelectFail(c)
        <4>1. pc[c] = "select" /\ scraper' = scraper
          BY <3>2 DEF Select, SelectKeys, SelectFail
        <4>2. QED BY <4>1 DEF Idle
      <3>3. QED BY <2>5, <3>1, <3>2 DEF Scrape
    <2>6. QED BY <2>1, <2>2, <2>3, <2>4, <2>5 DEF Next
  <1>5. QED BY <1>2, <1>3, <1>4

LEMMA RestStep == IInv /\ IInv' /\ Rest /\ [SpecNext]_all => Rest'
  <1> SUFFICES ASSUME IInv, IInv', Rest, [SpecNext]_all PROVE Rest'
    OBVIOUS
  <1>1. CASE UNCHANGED all
    <2>1. TypeOK' BY DEF IInv
    <2>2. SpecTypeOK' BY <1>1, <2>1 DEF all, vars, local, Rest, SpecTypeOK
    <2>3. Read' /\ Idle' /\ Kinds'
      BY <1>1 DEF all, vars, local, Rest, Read, Idle, Kinds
    <2>4. OnlyBadDataKills'
      BY <1>1 DEF all, vars, local, Rest, OnlyBadDataKills, Scaled
    <2>5. QED BY <2>2, <2>3, <2>4 DEF Rest
  <1>2. CASE SpecNext
    <2>1. CASE kind = "built-in" /\ Next /\ UNCHANGED local
      BY <2>1, BuiltInRest
    <2>2. ASSUME kind # "built-in", alive, NEW c \in Clients, SpecStep(c) PROVE Rest'
      <3>1. CASE Gated(c) \/ QueryFail(c) BY <2>2, <3>1, QuietStep
      <3>2. CASE RowFail(c) \/ RowsEnd(c) BY <2>2, <3>2, CloseRest
      <3>3. ASSUME NEW row \in [RowsOf[c] -> Returns], Query(c, row) PROVE Rest'
        <4>1. row \in [RowsOf[c] -> Cells]
          BY DEF Returns, Cells
        <4>2. QED BY <2>2, <3>3, <4>1, QueryRest
      <3>4. ASSUME NEW k \in Keys, SetGauge(c, k) \/ Observe(c, k) PROVE Rest'
        BY <2>2, <3>4, EmitRest
      <3>5. ASSUME NEW k \in Keys, Panic(c, k) PROVE Rest'
        BY <2>2, <3>5, PanicRest
      <3>6. QED BY <2>2, <3>1, <3>2, <3>3, <3>4, <3>5 DEF SpecStep
    <2>3. ASSUME kind # "built-in", alive,
                 Finish \/ \E r \in Readers : (StartScrape(r) \/ Written(r)) /\ UNCHANGED local
          PROVE  Rest'
      BY <2>3, SharedRest
    <2>4. QED BY <1>2, <2>1, <2>2, <2>3 DEF SpecNext
  <1>3. QED BY <1>1, <1>2

LEMMA SpecInvariant == SpecSpec => [](IInv /\ Rest)
  <1>1. SpecInit => IInv /\ Rest
    BY InitIInv, InitRest DEF SpecInit
  <1>2. IInv /\ Rest /\ [SpecNext]_all => (IInv /\ Rest)'
    BY SeriesStep, RestStep
  <1>3. QED BY <1>1, <1>2, PTL DEF SpecSpec

(* Type correctness of the scrape of a spec, and of the vectors it shares   *)
(* with Series.                                                             *)
THEOREM SpecTypeCorrect == SpecSpec => []SpecTypeOK
  BY SpecInvariant, PTL DEF Rest

(* Only a label that is not valid UTF-8, or a counter column that is        *)
(* negative once it is scaled, takes the process down: no reset, no failed  *)
(* scrape and no order of the clients makes Counter.Add panic, and what     *)
(* Observe remembers is never negative.                                     *)
THEOREM OnlyBadData == SpecSpec => []OnlyBadDataKills
  BY SpecInvariant, PTL DEF Rest
===============================================================================

----------------------------- MODULE SeriesProofs -----------------------------
(***************************************************************************)
(* Proofs about Series: for any number of clients, label combinations,     *)
(* readers and scrapes, and any overlap of the rows of the clients.        *)
(*                                                                         *)
(* What PageIsFresh needs beyond its own statement is Pending: a row that  *)
(* was returned in the running scrape has its child set by this scrape or  *)
(* is still in the hands of a goroutine, which the scrape waits for, or    *)
(* another goroutine has failed and there will be no page.                 *)
(***************************************************************************)
EXTENDS Series, TLAPS

USE SeriesAssumption

(* No value is from the future.                                             *)
Past == /\ \A k \in Keys : vec[k] <= round
        /\ \A r \in Readers : page[r].round <= round
        /\ \A c \in Clients : pc[c] = "select" => round > 0

(* What a goroutine has to emit was returned in this scrape.                *)
Sourced == \A c \in Clients : \A k \in rows[c] : <<k, round>> \in reported

Pending == \A k \in returned :
              /\ round > 0
              /\ \/ vec[k] = round
                 \/ \E c \in Clients : pc[c] = "emit" /\ k \in rows[c]
                 \/ \E c \in Clients : pc[c] = "failed"

IInv == TypeOK /\ Past /\ Sourced /\ Pending /\ OnlyReported /\ PageIsFresh

LEMMA InitIInv == Init => IInv
  BY DEF Init, IInv, TypeOK, Past, Sourced, Pending, OnlyReported, PageIsFresh, NoPage, Pages

LEMMA ValuesAreKeys == ASSUME NEW c \in Clients PROVE Values(c) \subseteq Keys
  BY DEF Values

LEMMA Inductive == IInv /\ [Next]_vars => IInv'
  <1> SUFFICES ASSUME IInv, [Next]_vars PROVE IInv'
    OBVIOUS
  <1> USE DEF IInv
  <1>1. ASSUME NEW c \in Clients, Server(c) PROVE IInv'
    <2> PICK k \in RowsOf[c], v \in {"none", "null", "value"} : Change(c, k, v)
      BY <1>1 DEF Server
    <2>1. UNCHANGED <<round, scraper, pc, rows, returned, vec, page, reported>>
      BY DEF Change
    <2>2. \A d \in Clients : table'[d] \in [RowsOf[d] -> {"none", "null", "value"}]
      BY DEF Change, TypeOK
    <2>3. TypeOK'  BY <2>1, <2>2 DEF TypeOK
    <2> QED BY <2>1, <2>3 DEF Past, Sourced, Pending, OnlyReported, PageIsFresh
  <1>2. ASSUME NEW c \in Clients, Select(c) PROVE IInv'
    <2> USE <1>2, ValuesAreKeys DEF Select, SelectKeys
    <2>1. round > 0
      BY DEF Past
    <2>2. TypeOK'  BY <2>1 DEF TypeOK
    <2>3. Past'    BY DEF Past, TypeOK
    <2>4. Sourced' BY DEF Sourced, TypeOK
    <2>5. Pending'
      <3> SUFFICES ASSUME NEW k \in returned'
                   PROVE  round' > 0 /\ (vec'[k] = round' \/
                            \E d \in Clients : pc'[d] = "failed" \/
                                                (pc'[d] = "emit" /\ k \in rows'[d]))
        BY DEF Pending
      <3>1. CASE k \in Values(c)  BY <2>1, <3>1 DEF TypeOK
      <3>2. CASE k \in returned
        <4>1. CASE vec[k] = round  BY <2>1, <4>1
        <4>2. ASSUME NEW d \in Clients, pc[d] = "emit", k \in rows[d]
              PROVE  pc'[d] = "emit" /\ k \in rows'[d]
          BY <4>2 DEF TypeOK
        <4>3. ASSUME NEW d \in Clients, pc[d] = "failed" PROVE pc'[d] = "failed"
          BY <4>3 DEF TypeOK
        <4> QED BY <2>1, <3>2, <4>1, <4>2, <4>3 DEF Pending
      <3> QED BY <3>1, <3>2
    <2> QED BY <2>2, <2>3, <2>4, <2>5 DEF OnlyReported, PageIsFresh
  <1>3. ASSUME NEW c \in Clients, SelectFail(c) PROVE IInv'
    <2> USE <1>3 DEF SelectFail
    <2>1. TypeOK'  BY DEF TypeOK
    <2>2. /\ pc'[c] = "failed"
          /\ \A d \in Clients : (pc'[d] = "emit" <=> pc[d] = "emit")
                                /\ (pc'[d] = "select" => pc[d] = "select")
      BY DEF TypeOK
    <2> QED BY <2>1, <2>2 DEF Past, Sourced, Pending, OnlyReported, PageIsFresh
  <1>4. ASSUME NEW c \in Clients, NEW k \in Keys, Emit(c, k) PROVE IInv'
    <2> USE <1>4 DEF Emit
    <2>1. /\ vec' = [vec EXCEPT ![k] = round] /\ rows' = [rows EXCEPT ![c] = @ \ {k}]
          /\ UNCHANGED <<table, round, scraper, pc, returned, page, reported>>
      OBVIOUS
    <2>2. TypeOK'       BY <2>1 DEF TypeOK
    <2>3. Past'         BY <2>1 DEF Past, TypeOK
    <2>4. Sourced'      BY <2>1 DEF Sourced, TypeOK
    <2>5. Pending'
      <3> SUFFICES ASSUME NEW j \in returned
                   PROVE  round > 0 /\ (vec'[j] = round \/
                            \E d \in Clients : pc[d] = "failed" \/
                                                (pc[d] = "emit" /\ j \in rows'[d]))
        BY <2>1 DEF Pending
      <3>1. CASE j = k  BY <2>1, <3>1 DEF Pending, TypeOK
      <3>2. CASE j # k
        <4>1. vec'[j] = vec[j]  BY <2>1, <3>2 DEF TypeOK
        <4>2. \A d \in Clients : j \in rows[d] => j \in rows'[d]
          BY <2>1, <3>2 DEF TypeOK
        <4> QED BY <4>1, <4>2 DEF Pending
      <3> QED BY <3>1, <3>2
    <2>6. OnlyReported'
      BY <2>1 DEF OnlyReported, Sourced, TypeOK
    <2>7. PageIsFresh'
      BY <2>1 DEF PageIsFresh, Past, TypeOK, Pages
    <2> QED BY <2>2, <2>3, <2>4, <2>5, <2>6, <2>7
  <1>5. ASSUME NEW r \in Readers, StartScrape(r) PROVE IInv'
    <2> USE <1>5 DEF StartScrape
    <2>1. round' = round + 1 /\ round \in Nat /\ round' \in 0 .. MaxRounds
      BY DEF TypeOK
    <2>2. TypeOK'  BY <2>1 DEF TypeOK
    <2>3. Past'    BY <2>1 DEF Past, TypeOK, Pages
    <2> QED BY <2>2, <2>3 DEF Sourced, Pending, OnlyReported, PageIsFresh
  <1>6. ASSUME Collect PROVE IInv'
    <2> DEFINE now == [round |-> round, rows |-> returned, keys |-> {k \in Keys : vec[k] # 0}]
    <2>1. /\ page' = [page EXCEPT ![scraper] = now] /\ scraper \in Readers /\ scraper' = Free
          /\ UNCHANGED <<table, round, pc, rows, returned, vec, reported>>
      BY <1>6 DEF Collect, HandOut, TypeOK
    <2>2. now \in Pages
      BY DEF TypeOK, Pages
    <2>3. TypeOK'  BY <2>1, <2>2 DEF TypeOK
    <2>4. Past'    BY <2>1 DEF Past, TypeOK
    <2>5. \A k \in returned : vec[k] = round /\ round > 0
      BY <1>6 DEF Collect, Ended, Pending
    <2>6. PageIsFresh'
      BY <2>1, <2>5 DEF PageIsFresh, TypeOK, Pages
    <2> QED BY <2>1, <2>3, <2>4, <2>6 DEF Sourced, Pending, OnlyReported
  <1>7. ASSUME Abandon PROVE IInv'
    BY <1>7 DEF Abandon, TypeOK, Past, Sourced, Pending, OnlyReported, PageIsFresh
  <1>8. ASSUME NEW r \in Readers, Written(r) PROVE IInv'
    <2>1. /\ page' = [page EXCEPT ![r] = NoPage]
          /\ UNCHANGED <<table, round, scraper, pc, rows, returned, vec, reported>>
      BY <1>8 DEF Written
    <2>2. NoPage \in Pages
      BY DEF NoPage, Pages
    <2>3. TypeOK'       BY <2>1, <2>2 DEF TypeOK
    <2>4. Past'         BY <2>1 DEF Past, TypeOK, NoPage
    <2>5. PageIsFresh'  BY <2>1 DEF PageIsFresh, TypeOK, NoPage
    <2> QED BY <2>1, <2>3, <2>4, <2>5 DEF Sourced, Pending, OnlyReported
  <1>9. CASE UNCHANGED vars
    BY <1>9 DEF vars, TypeOK, Past, Sourced, Pending, OnlyReported, PageIsFresh
  <1> QED BY <1>1, <1>2, <1>3, <1>4, <1>5, <1>6, <1>7, <1>8, <1>9 DEF Next, Scrape

LEMMA Invariant == Spec => []IInv
  BY InitIInv, Inductive, PTL DEF Spec

(* Type correctness of every reachable state.                               *)
THEOREM TypeCorrect == Spec => []TypeOK
  BY Invariant, PTL DEF IInv

(* A page shows every row its scrape returned, with a value that is not     *)
(* older than the scrape at whatever time the registry reads it, though a   *)
(* later scrape sets the children meanwhile and clients share rows.         *)
THEOREM PagesFresh == Spec => []PageIsFresh
  BY Invariant, PTL DEF IInv

(* No child has a value that no server returned for its labels.             *)
THEOREM ValuesReported == Spec => []OnlyReported
  BY Invariant, PTL DEF IInv
-------------------------------------------------------------------------------
(* The ghosts that SeriesGhosts finds.                                      *)

(* reported has the scrapes there have been, and of the last one what it    *)
(* returned.                                                                *)
Known == \A k \in Keys : \A n \in Nat : <<k, n>> \in reported =>
                                           n <= round /\ (n = round => k \in returned)

Before(k, n) == \E m \in 1 .. n - 1 : <<k, m>> \in reported

(* What a page shows and its scrape did not return was returned by an       *)
(* earlier scrape: a child that an abandoned scrape, a NULL or a row that   *)
(* went away has left behind, and never a label combination of nobody's.    *)
GhostsWereRows ==
    \A r \in Readers : \A k \in page[r].keys \ page[r].rows : Before(k, page[r].round)

(* Such a child stays: a page shows everything that an earlier page showed, *)
(* whatever has become of the rows.                                         *)
Children == {k \in Keys : vec[k] # 0}

GhostsStay ==
    /\ \A q, r \in Readers :
          page[q].round < page[r].round => page[q].keys \subseteq page[r].keys
    /\ \A r \in Readers : page[r].keys \subseteq Children

Haunted == Known /\ GhostsWereRows /\ GhostsStay

LEMMA InitHaunted == Init => Haunted
  BY DEF Init, Haunted, Known, GhostsWereRows, GhostsStay, NoPage

LEMMA HauntedStep == IInv /\ Haunted /\ [Next]_vars => Haunted'
  <1> SUFFICES ASSUME IInv, Haunted, [Next]_vars PROVE Haunted'
    OBVIOUS
  <1> USE DEF IInv, Haunted
  <1>0. ASSUME UNCHANGED <<round, returned, vec, page, reported>> PROVE Haunted'
    BY <1>0 DEF Known, GhostsWereRows, GhostsStay, Before, Children
  <1>1. ASSUME NEW c \in Clients, Server(c) PROVE Haunted'
    BY <1>0, <1>1 DEF Server, Change
  <1>2. ASSUME NEW c \in Clients, Select(c) PROVE Haunted'
    <2>1. /\ returned' = returned \cup Values(c)
          /\ reported' = reported \cup (Values(c) \X {round})
          /\ UNCHANGED <<round, vec, page>>
      BY <1>2 DEF Select, SelectKeys
    <2>2. Known'
      BY <2>1 DEF Known, TypeOK
    <2>3. GhostsWereRows'
      BY <2>1 DEF GhostsWereRows, Before
    <2> QED BY <2>1, <2>2, <2>3 DEF GhostsStay, Children
  <1>3. ASSUME NEW c \in Clients, SelectFail(c) PROVE Haunted'
    BY <1>0, <1>3 DEF SelectFail
  <1>4. ASSUME NEW c \in Clients, NEW k \in Keys, Emit(c, k) PROVE Haunted'
    <2>1. /\ vec' = [vec EXCEPT ![k] = round] /\ k \in rows[c]
          /\ UNCHANGED <<round, returned, page, reported>>
      BY <1>4 DEF Emit
    <2>2. round # 0
      <3>1. <<k, round>> \in reported /\ reported \subseteq Keys \X (1 .. MaxRounds)
        BY <2>1 DEF Sourced, TypeOK
      <3>2. round \in 1 .. MaxRounds
        BY <3>1
      <3> QED BY <3>2
    <2>3. Children \subseteq Children'
      BY <2>1, <2>2 DEF Children, TypeOK
    <2>4. Known' /\ GhostsWereRows'
      BY <2>1 DEF Known, GhostsWereRows, Before
    <2>5. GhostsStay'
      BY <2>1, <2>3 DEF GhostsStay
    <2> QED BY <2>4, <2>5
  <1>5. ASSUME NEW r \in Readers, StartScrape(r) PROVE Haunted'
    <2>1. round' = round + 1 /\ round \in Nat /\ UNCHANGED <<vec, page, reported>>
      BY <1>5 DEF StartScrape, TypeOK
    <2>2. Known'
      BY <2>1 DEF Known
    <2> QED BY <2>1, <2>2 DEF GhostsWereRows, GhostsStay, Before, Children
  <1>6. ASSUME Collect PROVE Haunted'
    <2> DEFINE now == [round |-> round, rows |-> returned, keys |-> {k \in Keys : vec[k] # 0}]
    <2>1. /\ page' = [page EXCEPT ![scraper] = now] /\ scraper \in Readers
          /\ UNCHANGED <<round, returned, vec, reported>>
      BY <1>6 DEF Collect, HandOut, TypeOK
    <2>2. now.round = round /\ now.rows = returned /\ now.keys = Children
      BY DEF Children
    <2>3. \A r \in Readers : page'[r] = IF r = scraper THEN now ELSE page[r]
      BY <2>1 DEF TypeOK
    <2> HIDE DEF now
    <2>4. ASSUME NEW k \in Children \ returned PROVE Before(k, round)
      <3>1. /\ k \in Keys /\ vec[k] \in Nat /\ round \in Nat /\ vec[k] # 0
            /\ <<k, vec[k]>> \in reported
        BY <2>4 DEF Children, OnlyReported, TypeOK
      <3>2. vec[k] \in 1 .. round - 1
        BY <2>4, <3>1 DEF Known
      <3> QED BY <3>1, <3>2 DEF Before
    <2>5. GhostsWereRows'
      BY <2>1, <2>2, <2>3, <2>4 DEF GhostsWereRows, Before
    <2>6. GhostsStay'
      <3>1. \A r \in Readers : page[r].round \in Nat /\ page[r].round <= round
        BY DEF Past, TypeOK, Pages
      <3> QED BY <2>1, <2>2, <2>3, <3>1 DEF GhostsStay, Children, TypeOK
    <2> QED BY <2>1, <2>5, <2>6 DEF Known
  <1>7. ASSUME Abandon PROVE Haunted'
    BY <1>0, <1>7 DEF Abandon
  <1>8. ASSUME NEW r \in Readers, Written(r) PROVE Haunted'
    <2>1. /\ \A q \in Readers : page'[q] = IF q = r THEN NoPage ELSE page[q]
          /\ UNCHANGED <<round, returned, vec, reported>>
      BY <1>8 DEF Written, TypeOK
    <2>2. NoPage.round = 0 /\ NoPage.keys = {}
      BY DEF NoPage
    <2>3. \A q \in Readers : page[q].round \in Nat
      BY DEF TypeOK, Pages
    <2> QED BY <2>1, <2>2, <2>3 DEF Known, GhostsWereRows, GhostsStay, Before, Children
  <1>9. CASE UNCHANGED vars
    BY <1>0, <1>9 DEF vars
  <1> QED BY <1>1, <1>2, <1>3, <1>4, <1>5, <1>6, <1>7, <1>8, <1>9 DEF Next, Scrape

(* The other side of the finding NoGhosts: what the ghosts are, and that    *)
(* they never go.                                                           *)
THEOREM GhostsExplained == Spec => [](GhostsWereRows /\ GhostsStay)
  <1>1. IInv /\ Haunted => GhostsWereRows /\ GhostsStay
    BY DEF Haunted
  <1> QED BY <1>1, InitHaunted, HauntedStep, Invariant, PTL DEF Spec
===============================================================================

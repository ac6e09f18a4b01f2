-------------------------------- MODULE Queries --------------------------------
(***************************************************************************)
(* The version gates of the Select functions of exporter/db/pg_*.go and of *)
(* SpecCollector, each a sequence of gates in the order in which the       *)
(* function evaluates them.  A function without gates is <<>>.             *)
(***************************************************************************)
EXTENDS Naturals

(* A gate asks AtLeast(from) and then, unless the answer settles it,        *)
(* AtLeast(below); 0 stands for a question that is not asked.               *)
Gates == {q \in [skip : BOOLEAN, from : Nat, below : Nat] :
             /\ q.from # 0 \/ q.below # 0
             /\ q.skip => q.below = 0}

Skip(v)      == [skip |-> TRUE,  from |-> v, below |-> 0]  \* if !AtLeast(v) { return nil, nil }
From(v)      == [skip |-> FALSE, from |-> v, below |-> 0]  \* if AtLeast(v) { columns }
Until(v)     == [skip |-> FALSE, from |-> 0, below |-> v]  \* if !AtLeast(v) { columns }
Within(v, w) == [skip |-> FALSE, from |-> v, below |-> w]  \* if AtLeast(v) && !AtLeast(w) { columns }

(* The versions that have the columns (or, of a Skip gate, the view), as    *)
(* the comments at the gates state them.                                    *)
Has(server, q) == /\ server >= q.from * 10000
                  /\ q.below = 0 \/ server < q.below * 10000

SelectPgStatActivity            == <<>>
SelectPgReplicationSlots        == <<From(13), From(16)>>
SelectPgStatBgwriter            == <<Until(17)>>
SelectPgStatCheckpointer        == <<Skip(17)>>
SelectPgStatDatabase            == <<From(12), From(14)>>
SelectPgStatIOSwapped           == <<Until(18), Skip(16)>>    \* variant
SelectPgStatIO                  == <<Skip(16), Until(18)>>
SelectPgStatProgressAnalyze     == <<Skip(13)>>
SelectPgStatProgressBasebackup  == <<Skip(13)>>
SelectPgStatProgressCopy        == <<Skip(14)>>
SelectPgStatSLRU                == <<Skip(13)>>
SelectPgStatSubscriptionStats   == <<Skip(15)>>
SelectPgStatUserTables          == <<From(13), From(16), From(17)>>
SelectPgStatWal                 == <<Skip(14), Within(14, 15)>>

(* All of them; of those with the same gates one stands for the others.     *)
SelectFunctions ==
    {SelectPgStatActivity, SelectPgReplicationSlots, SelectPgStatBgwriter,
     SelectPgStatCheckpointer, SelectPgStatDatabase, SelectPgStatIO,
     SelectPgStatProgressAnalyze, SelectPgStatProgressBasebackup, SelectPgStatProgressCopy,
     SelectPgStatSLRU, SelectPgStatSubscriptionStats, SelectPgStatUserTables,
     SelectPgStatWal}
===============================================================================

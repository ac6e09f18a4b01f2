-------------------------------- MODULE MCSetup --------------------------------
(* Instances of Setup for TLC: two exporters.                               *)
EXTENDS Setup, TLC

CONSTANTS x1, x2

Symmetry == Permutations(Exporters)

Opt(p, name, enabled, disabled) ==
    [prefix |-> p, name |-> name, enabled |-> enabled, disabled |-> disabled]

(* Every collector under the prefix pg, which is also that of raw metrics;  *)
(* all defaults but one under pg_stat; unknown names only, with no prefix.  *)
AllOptions ==
    {Opt("pg", "", Known, {"wla"}), Opt("pg_stat", "", {}, {"locks"}),
     Opt("", "first", {"actvity"}, {"wal"})}

OneOption == {Opt("", "", {"wal"}, {})}

ASpec(subsystem, ns, flaws) ==
    [subsystem |-> subsystem, namespace |-> ns, labels |-> {"relname"},
     gauges |-> {"bytes"}, counters |-> {"events_total"}, flaws |-> flaws]

(* A good file, and one whose second spec has a metric without a column.    *)
TwoFiles == {<<ASpec("bloat", "", {})>>,
             <<ASpec("rates", "", {}), ASpec("bloat", "", {"column"})>>}
NoFiles  == {}

(* A custom collector with a metric of its own, and one whose metric has the *)
(* name of a self-metric under the prefix pg_stat, with another label.       *)
OneCustom  == {[descs |-> {Desc("app_jobs", {}, {"queue"})}]}
TwoCustoms == OneCustom \cup {[descs |-> {Desc("pg_stat_up", {}, {"host"})}]}
===============================================================================

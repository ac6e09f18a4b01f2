--------------------------------- MODULE Setup ---------------------------------
(***************************************************************************)
(* How the exporters of a process are put together: the package variables  *)
(* that hold the metric prefix (collectors.namespace and                   *)
(* exporter.namespace), New with ResolveCollectors, WithCustomCollectors,  *)
(* ExtendFromYAMLFile and Register, called in any order for several        *)
(* exporters.                                                              *)
(***************************************************************************)
EXTENDS Naturals, Sequences, FiniteSets, SequencesExt, Catalog

CONSTANTS Exporters,  \* the exporters the process builds
          Options,    \* the Opts it builds them with
          Files,      \* YAML files, as sequences of specs; flaws: what is
                      \* missing in a spec, or wrong
          Customs,    \* collectors a program may add, as the descriptors of
                      \* their Describe
          MaxBatch,   \* bound: custom collectors added in one call
          MaxAdded,   \* bound: collectors added to all exporters
          None

Default == "pg_stat"
MetricPrefixes == {"pg", "pg_stat"}    \* the supported values

ASSUME BoundsAssumption == MaxBatch \in Nat /\ MaxAdded \in Nat

ASSUME SetupAssumption ==
    /\ \A f \in Files : f \in Seq(Range(f))
    /\ \A o \in Options : o.prefix \in MetricPrefixes \cup {""}

ASSUME AddedAssumption ==
    /\ \A c \in Customs : IsFiniteSet(c.descs)
    /\ \A f \in Files : \A s \in Range(f) : IsFiniteSet(s.gauges) /\ IsFiniteSet(s.counters)

(* collectorRegistry: the names, what is enabled by default, and the        *)
(* vectors of the collector that is constructed.                            *)
Entry(name, default, vecs) == [name |-> name, default |-> default, vecs |-> vecs]

CollectorRegistry == <<
    Entry("activity", TRUE, PgStatActivityCollector),
    Entry("archiver", TRUE, PgStatArchiverCollector),
    Entry("bgwriter", TRUE, PgStatBgwriterCollector),
    Entry("checkpointer", TRUE, PgStatCheckpointerCollector),
    Entry("database", TRUE, PgStatDatabaseCollector),
    Entry("database_size", TRUE, PgDatabaseSizeCollector),
    Entry("io", TRUE, PgStatIOCollector),
    Entry("io_user_indexes", TRUE, PgStatIOUserIndexesCollector),
    Entry("io_user_tables", TRUE, PgStatIOUserTableCollector),
    Entry("locks", TRUE, PgLocksCollector),
    Entry("progress_analyze", TRUE, PgStatProgressAnalyzeCollector),
    Entry("progress_basebackup", TRUE, PgStatProgressBasebackupCollector),
    Entry("progress_cluster", TRUE, PgStatProgressClusterCollector),
    Entry("progress_copy", TRUE, PgStatProgressCopyCollector),
    Entry("progress_create_index", TRUE, PgStatProgressCreateIndexCollector),
    Entry("progress_vacuum", TRUE, PgStatProgressVacuumCollector),
    Entry("replication", TRUE, PgStatReplicationCollector),
    Entry("replication_slots", TRUE, PgReplicationSlotsCollector),
    Entry("settings", FALSE, PgSettingsCollector),
    Entry("slru", TRUE, PgStatSLRUCollector),
    Entry("ssl", TRUE, PgStatSSLCollector),
    Entry("statements", FALSE, PgStatStatementsCollector),
    Entry("subscription", FALSE, PgStatSubscriptionCollector),
    Entry("user_indexes", TRUE, PgStatUserIndexesCollector),
    Entry("user_tables", TRUE, PgStatUserTableCollector),
    Entry("wal", TRUE, PgStatWalCollector),
    Entry("wal_receiver", TRUE, PgStatWalReceiverCollector) >>

ASSUME CatalogAssumption == \A e \in Range(CollectorRegistry) : IsFiniteSet(e.vecs)

Known == {e.name : e \in Range(CollectorRegistry)}

VARIABLES prefix,    \* collectors.namespace
          self,      \* exporter.namespace
          exp,       \* exp[x]: the Exporter, or None before New has returned it
          failed,    \* exporters whose New returned an error
          registry,  \* registry[x]: x as MustRegister described it, or None
          refused    \* exporters a call of which panicked

vars == <<prefix, self, exp, failed, registry, refused>>

Init == /\ prefix = Default
        /\ self = Default
        /\ exp = [x \in Exporters |-> None]
        /\ failed = {}
        /\ registry = [x \in Exporters |-> None]
        /\ refused = {}

-------------------------------------------------------------------------------
(* Variant: only the known names make the enabled set an explicit one.      *)
WantedKnown(e, enabled, disabled) ==
    /\ IF enabled \cap Known = {} THEN e.default ELSE e.name \in enabled
    /\ e.name \notin disabled

Wanted(e, enabled, disabled) ==
    /\ IF enabled = {} THEN e.default ELSE e.name \in enabled
    /\ e.name \notin disabled

(* ResolveCollectors: the entries to construct; out[i] is the slice after   *)
(* i entries of the registry.                                               *)
Resolve(enabled, disabled) ==
    LET out[i \in 0 .. Len(CollectorRegistry)] ==
            IF i = 0 THEN <<>>
            ELSE IF Wanted(CollectorRegistry[i], enabled, disabled)
                 THEN Append(out[i - 1], CollectorRegistry[i])
                 ELSE out[i - 1]
    IN  out[Len(CollectorRegistry)]

(* A collector of an exporter: the name in its self-metrics and the prefix  *)
(* baked into its descriptors; a SpecCollector has its spec, and a custom   *)
(* collector descriptors of its own.                                        *)
Collector(name, p, spec) == [name |-> name, prefix |-> p, spec |-> spec]

Alive == refused = {}

SetMetricPrefix(p) == /\ Alive
                      /\ prefix' = IF p = "" THEN Default ELSE p
                      /\ UNCHANGED <<self, exp, failed, registry, refused>>

Flip(o, var) == IF o.prefix # "" THEN o.prefix ELSE var

(* Variants: New forgets the prefix of the package collectors, or that it   *)
(* may be empty.                                                            *)
SetsPrefixBlindly(o) == prefix' = o.prefix /\ self' = o.prefix
SetsPrefixSelfOnly(o) == self' = Flip(o, self) /\ UNCHANGED prefix

SetsPrefix(o) == prefix' = Flip(o, prefix) /\ self' = Flip(o, self)

(* The collectors New constructs, with the prefix of the moment.            *)
Construct(entries, p) ==
    [i \in DOMAIN entries |-> Collector(<<"builtin", entries[i].name>>, p, None)]

(* New with reachable options: the prefix is set before anything else.      *)
New(x, o) == /\ Alive /\ exp[x] = None
             /\ SetsPrefix(o)
             /\ exp' = [exp EXCEPT ![x] =
                   [opts |-> o, self |-> self', files |-> <<>>,
                    collectors |-> Construct(Resolve(o.enabled, o.disabled), prefix')]]
             /\ UNCHANGED <<failed, registry, refused>>

(* db.New fails for one of the databases; the prefix stays set.             *)
NewFails(x, o) == /\ Alive /\ exp[x] = None
                  /\ SetsPrefix(o)
                  /\ failed' = failed \cup {x}
                  /\ UNCHANGED <<exp, registry, refused>>

Made  == {x \in Exporters : exp[x] # None}
Added == {a \in Made \X (1 .. MaxAdded + Len(CollectorRegistry)) :
             /\ a[2] \in DOMAIN exp[a[1]].collectors
             /\ exp[a[1]].collectors[a[2]].name[1] # "builtin"}

Add(x, cs, fs) ==
    exp' = [exp EXCEPT ![x] = [opts |-> @.opts, self |-> @.self, files |-> @.files \o fs,
                               collectors |-> @.collectors \o cs]]

(* custom_<len(e.collectors)+i>, in a loop that appends to e.collectors.    *)
CustomName(len, i) == <<"custom", (len + i) + i>>

WithCustomCollectors(x, n) ==
    /\ Alive /\ exp[x] # None
    /\ Cardinality(Added) + n <= MaxAdded
    /\ \E custom \in [1 .. n -> Customs] :
          LET len == Len(exp[x].collectors)
          IN  Add(x, [j \in 1 .. n |-> Collector(CustomName(len, j - 1), None, custom[j])],
                  <<>>)
    /\ UNCHANGED <<prefix, self, failed, registry, refused>>

(* NewSpecCollector panics without what it needs, and bakes in the prefix   *)
(* of the moment.                                                           *)
Required == {"subsystem", "sql", "metrics", "name", "column"}
Panics(s) == s.flaws \cap Required # {}
NewSpecCollector(s) == Collector(<<"spec", s.subsystem>>, prefix, s)

(* toInternal refuses a spec for an unknown type as well. The variant looks *)
(* at a metric's name only.                                                 *)
ToInternalByName(s) == s.flaws \cap (Required \ {"column"}) = {} /\ "type" \notin s.flaws
ToInternal(s) == s.flaws \cap Required = {} /\ "type" \notin s.flaws

ParseSpecs(file) == \A s \in Range(file) : ToInternal(s)

(* A file that does not parse changes nothing. files: the files whose call  *)
(* returned nil. A panic leaves what the loop has appended.                 *)
ExtendFromYAMLFile(x, file) ==
    /\ Alive /\ exp[x] # None
    /\ Cardinality(Added) + Len(file) <= MaxAdded
    /\ ParseSpecs(file)
    /\ LET built == [j \in 1 .. Len(file) |-> NewSpecCollector(file[j])]
           bad   == {j \in 1 .. Len(file) : Panics(file[j])}
       IN  IF bad = {}
           THEN Add(x, built, <<file>>) /\ UNCHANGED refused
           ELSE /\ Add(x, SubSeq(built, 1, Min(bad) - 1), <<>>)
                /\ refused' = {x}
    /\ UNCHANGED <<prefix, self, failed, registry>>

-------------------------------------------------------------------------------
(* Register, and what the Prometheus registry refuses: a second descriptor  *)
(* with the name and the constant labels of another collector's, and one    *)
(* name with different label names.  The help strings, which have to agree  *)
(* too, and descriptors with an error of their own are left out.            *)

SpecVecs(s) == Vecs(IF s.namespace = "" THEN "stat" ELSE s.namespace, s.subsystem,
                    {"database"} \cup s.labels, s.gauges, s.counters)

Desc(fq, const, labels) == [fq |-> fq, const |-> const, labels |-> labels]

SelfVec(name, labels) == [name |-> name, labels |-> labels]
SelfVecs == {SelfVec("up", {}), SelfVec("exporter_scrapes_total", {}),
             SelfVec("scrape_duration_seconds", {"collector"}),
             SelfVec("scrape_errors_total", {"collector"}),
             SelfVec("metric_cardinality", {"collector"})}

SelfName(p, v) == p \o "_" \o v.name
SelfNames(p)   == {SelfName(p, v) : v \in SelfVecs}

SelfDescs(e) ==
    {Desc(SelfName(e.self, v),
          IF e.opts.name = "" THEN {} ELSE {<<"database", e.opts.name>>},
          v.labels) : v \in SelfVecs}

VecDescs(p, vecs) == {Desc(FQName(p, v), {}, v.labels) : v \in vecs}

EntryNamed(n) == CHOOSE e \in Range(CollectorRegistry) : e.name = n

BuiltInDescs == [p \in MetricPrefixes |-> [n \in Known |-> VecDescs(p, EntryNamed(n).vecs)]]

CollectorDescs(c) == CASE c.name[1] = "builtin" -> BuiltInDescs[c.prefix][c.name[2]]
                       [] c.name[1] = "spec"    -> VecDescs(c.prefix, SpecVecs(c.spec))
                       [] OTHER                 -> c.spec.descs

Describe(e) == SelfDescs(e) \cup UNION {CollectorDescs(c) : c \in Range(e.collectors)}

Ids(ds)      == {<<d.fq, d.const>> : d \in ds}
Names(ds)    == {d.fq : d \in ds}
Dims(d)      == ({"label"} \X d.labels) \cup {<<"const", l[1]>> : l \in d.const}
Shapes(ds)   == {<<d.fq, Dims(d)>> : d \in ds}
Consistent(ds) == Cardinality(Shapes(ds)) = Cardinality(Names(ds))

Registered == UNION {Describe(registry[x]) : x \in {y \in Exporters : registry[y] # None}}

Accepts(ds) == Ids(ds) \cap Ids(Registered) = {} /\ Consistent(ds \cup Registered)

Register(x) == /\ Alive /\ exp[x] # None /\ registry[x] = None
               /\ IF Accepts(Describe(exp[x]))
                  THEN registry' = [registry EXCEPT ![x] = exp[x]] /\ UNCHANGED refused
                  ELSE refused' = {x} /\ UNCHANGED registry
               /\ UNCHANGED <<prefix, self, exp, failed>>

Next == \/ \E p \in MetricPrefixes \cup {""} : SetMetricPrefix(p)
        \/ \E x \in Exporters :
              \/ \E o \in Options : New(x, o) \/ NewFails(x, o)
              \/ \E n \in 1 .. MaxBatch : WithCustomCollectors(x, n)
              \/ \E f \in Files : ExtendFromYAMLFile(x, f)
              \/ Register(x)

Spec == Init /\ [][Next]_vars

-------------------------------------------------------------------------------
(* Properties.                                                              *)

BuiltIns(x) == {c \in Range(exp[x].collectors) : c.name[1] = "builtin"}

Specs        == UNION {Range(f) : f \in Files}
CollectorSet ==
    [name : {"builtin"} \X Known, prefix : MetricPrefixes, spec : {None}]
    \cup [name : {"custom"} \X Nat, prefix : {None}, spec : Customs]
    \cup [name : {"spec"} \X {s.subsystem : s \in Specs}, prefix : MetricPrefixes, spec : Specs]
ExporterSet  == [opts : Options, self : MetricPrefixes, files : Seq(Files),
                 collectors : Seq(CollectorSet)]

ASSUME NoneAssumption == None \notin ExporterSet

TypeOK ==
    /\ prefix \in MetricPrefixes /\ self \in MetricPrefixes
    /\ exp \in [Exporters -> ExporterSet \cup {None}]
    /\ registry \in [Exporters -> ExporterSet \cup {None}]
    /\ \A x \in Exporters : registry[x] # None => x \in Made
    /\ failed \subseteq Exporters /\ refused \subseteq Exporters

(* registry.go:113-125: an exporter runs the default collectors, or exactly *)
(* those enabled by name even if none of the names is known, without those  *)
(* disabled by name, and none of them twice; later additions change nothing *)
(* about that.                                                              *)
Once(cs) == \A i, j \in DOMAIN cs :
               cs[i].name[1] = "builtin" /\ cs[i].name = cs[j].name => i = j

ResolvedAsAsked ==
    \A x \in Made :
        LET o    == exp[x].opts
            runs == {c.name[2] : c \in BuiltIns(x)}
        IN  /\ Once(exp[x].collectors)
            /\ o.enabled # {} => runs = (o.enabled \cap Known) \ o.disabled
            /\ o.enabled = {} =>
                 /\ runs \cap o.disabled = {}
                 /\ \A e \in Range(CollectorRegistry) :
                       e.name \notin o.disabled => (e.name \in runs <=> e.default)

(* Under either prefix no two of the 27 collectors have a metric name in    *)
(* common, nor one and the self-metrics, whose prefix may be the other one; *)
(* and no collector, nor the exporter, has two vectors of one name.         *)
MetricsApart ==
    \A p \in MetricPrefixes :
        /\ \A v, w \in SelfVecs : SelfName(p, v) = SelfName(p, w) => v = w
        /\ \A e \in Range(CollectorRegistry) :
              /\ \A f \in Range(CollectorRegistry) :
                    e # f => Names(VecDescs(p, e.vecs)) \cap Names(VecDescs(p, f.vecs)) = {}
              /\ \A q \in MetricPrefixes : Names(VecDescs(p, e.vecs)) \cap SelfNames(q) = {}
              /\ \A v, w \in e.vecs : FQName(p, v) = FQName(p, w) => v = w

(* So no two built-in collectors of an exporter, nor one and its            *)
(* self-metrics, claim one metric name: MustRegister does not panic and     *)
(* Gather finds no metric twice.  That takes one prefix for all of them     *)
(* (the collectors of raw names clash with their doubles under the other),  *)
(* and none constructed twice, whatever New and SetMetricPrefix do before   *)
(* and after.                                                               *)
BuiltInsNeverClash ==
    /\ MetricsApart
    /\ \A x \in Made :
          LET cs       == exp[x].collectors
              mine     == {i \in DOMAIN cs : cs[i].name[1] = "builtin"}
              names(i) == Names(CollectorDescs(cs[i]))
          IN  /\ \A i, j \in mine : i < j => names(i) \cap names(j) = {}
              /\ \A i \in mine : names(i) \cap Names(SelfDescs(exp[x])) = {}

(* The built-in collectors of an exporter have one prefix, and if it asked  *)
(* for one they and the self-metrics have that, whatever exporters with     *)
(* other prefixes were built, or failed to, before it or after, and however *)
(* often the program calls SetMetricPrefix.                                 *)
OnePrefix ==
    \A x \in Made :
        /\ \A c, d \in BuiltIns(x) : c.prefix = d.prefix
        /\ exp[x].opts.prefix # "" =>
              /\ exp[x].self = exp[x].opts.prefix
              /\ \A c \in BuiltIns(x) : c.prefix = exp[x].opts.prefix

(* exporter.go:192-195: the spec collectors of an exporter are those of     *)
(* whole files whose load returned nil, each file in one piece, in the      *)
(* order of its specs and of the calls; no file half of whose specs are     *)
(* unusable leaves the other half, or takes the process down.               *)
IsSpec(c) == c.name[1] = "spec"

Pieces(cs, files, start) ==    \* start[k]: how many collectors precede those of file k
    /\ \A k \in DOMAIN files :
          \A j \in DOMAIN files[k] :
             /\ start[k] + j \in DOMAIN cs
             /\ cs[start[k] + j].spec = files[k][j]
    /\ \A k, l \in DOMAIN files : k < l => start[k] + Len(files[k]) <= start[l]
    /\ \A i \in DOMAIN cs :
          IsSpec(cs[i]) <=> \E k \in DOMAIN files : i - start[k] \in DOMAIN files[k]

FilesWhole ==
    \A x \in Made :
        \E start \in [DOMAIN exp[x].files -> 0 .. Len(exp[x].collectors)] :
            Pieces(exp[x].collectors, exp[x].files, start)

(* The collectors of an exporter have different names, and so self-metrics  *)
(* of their own, unless they are specs of one subsystem.                    *)
NamesDistinct ==
    \A x \in Made :
        \A i, j \in DOMAIN exp[x].collectors :
            /\ i # j
            /\ exp[x].collectors[i].name = exp[x].collectors[j].name
            => exp[x].collectors[i].name[1] = "spec"
===============================================================================

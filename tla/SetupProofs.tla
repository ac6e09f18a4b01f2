------------------------------ MODULE SetupProofs ------------------------------
(***************************************************************************)
(* Proofs about Setup, for any number of exporters and any options and     *)
(* files.                                                                  *)
(*                                                                         *)
(* The argument: ResolveCollectors keeps the wanted entries of the         *)
(* registry and only those, each once, by induction over its loop; what    *)
(* New constructs of them carries the prefix it has just set; and calls to *)
(* extend an exporter later append collectors that are not built in, so    *)
(* that the set of its built-in collectors stays the one New made.         *)
(*                                                                         *)
(* That files are loaded whole is proved of the positions at which their   *)
(* specs begin (Whole): appending leaves the pieces where they are         *)
(* (PiecesKeep), and a file that is loaded is a piece of its own behind    *)
(* them (PieceAdded); a file with a bad spec is not loaded at all.         *)
(*                                                                         *)
(* That metrics do not clash goes from the catalogue, whose names are      *)
(* apart, to the exporters, whose built-in collectors are entries of it    *)
(* under one prefix, each once (BuiltInsAre).  That custom collectors      *)
(* added one by one have different names is proved of their places         *)
(* (Placed).                                                               *)
(***************************************************************************)
EXTENDS Setup, SequenceTheorems, FiniteSetTheorems, WellFoundedInduction, TLAPS

-------------------------------------------------------------------------------
(* Induction.                                                               *)

LEMMA LeastOf ==
  ASSUME NEW T, T \subseteq Nat, T # {}
  PROVE  \E m \in T : \A n \in T : ~ (n < m)
  <1> DEFINE R == {ss \in Nat \X Nat : ss[1] < ss[2]}
  <1>1. IsWellFoundedOn(R, Nat)
    BY NatLessThanWellFounded, Zenon DEF OpToRel
  <1>2. PICK m \in T : \A n \in T : <<n, m>> \notin R
    <2> HIDE DEF R
    <2>1. QED BY <1>1, WFMin
  <1>3. \A n \in T : ~(n < m)
    BY <1>2
  <1>4. QED BY <1>3

(* What holds of 0 and carries over from n to n + 1 holds of every number.  *)
LEMMA Counting ==
  ASSUME NEW T, 0 \in T, \A n \in Nat : n \in T => n + 1 \in T
  PROVE  Nat \subseteq T
  <1>1. SUFFICES ASSUME Nat \ T # {} PROVE FALSE
    OBVIOUS
  <1>2. PICK m \in Nat \ T : \A n \in Nat \ T : ~(n < m)
    BY <1>1, LeastOf
  <1>3. m # 0 /\ m - 1 \in Nat /\ m - 1 < m
    BY <1>2
  <1>4. m - 1 \in T
    BY <1>2, <1>3
  <1>5. m = (m - 1) + 1 BY <1>2
  <1>6. QED BY <1>2, <1>3, <1>4, <1>5

-------------------------------------------------------------------------------
(* ResolveCollectors.                                                       *)

Entries == Range(CollectorRegistry)

LEMMA RegistryIsSeq == CollectorRegistry \in Seq(Entries)
  <1>1. Len(CollectorRegistry) = 27
    BY SMTT(60) DEF CollectorRegistry
  <1>2. DOMAIN CollectorRegistry = 1 .. 27
    BY SMTT(60) DEF CollectorRegistry
  <1>3. CollectorRegistry = [i \in 1 .. 27 |-> CollectorRegistry[i]]
    BY SMTT(60) DEF CollectorRegistry
  <1>4. Entries = {CollectorRegistry[i] : i \in 1 .. 27}
    BY <1>2 DEF Entries, Range
  <1>5. [i \in 1 .. 27 |-> CollectorRegistry[i]] \in Seq(Entries)
    BY <1>4, IsASeq
  <1>6. QED BY <1>3, <1>5

LEMMA RangeOfAppend ==
  ASSUME NEW S, NEW s \in Seq(S), NEW e \in S
  PROVE  Append(s, e) \in Seq(S) /\ Range(Append(s, e)) = Range(s) \cup {e}
  <1>1. /\ Append(s, e) \in Seq(S) /\ DOMAIN Append(s, e) = (1 .. Len(s)) \cup {Len(s) + 1}
        /\ \A i \in 1 .. Len(s) : Append(s, e)[i] = s[i]
        /\ Append(s, e)[Len(s) + 1] = e
    OBVIOUS
  <1>2. DOMAIN s = 1 .. Len(s) OBVIOUS
  <1>3. ASSUME NEW x \in Range(Append(s, e)) PROVE x \in Range(s) \cup {e}
    BY <1>1, <1>2, <1>3 DEF Range
  <1>4. ASSUME NEW x \in Range(s) \cup {e} PROVE x \in Range(Append(s, e))
    BY <1>1, <1>2, <1>4 DEF Range
  <1>5. QED BY <1>1, <1>3, <1>4

LEMMA RangeOfConcat ==
  ASSUME NEW S, NEW s \in Seq(S), NEW t \in Seq(S)
  PROVE  s \o t \in Seq(S) /\ Range(s \o t) = Range(s) \cup Range(t)
  <1>1. s \o t \in Seq(S) /\ Len(s \o t) = Len(s) + Len(t)
    OBVIOUS
  <1>2. /\ \A i \in 1 .. Len(s) : i \in 1 .. Len(s) + Len(t) /\ (s \o t)[i] = s[i]
        /\ \A i \in 1 .. Len(t) : /\ Len(s) + i \in 1 .. Len(s) + Len(t)
                                  /\ (s \o t)[Len(s) + i] = t[i]
    OBVIOUS
  <1>3. \A i \in 1 .. Len(s) + Len(t) :
          i \in 1 .. Len(s) \/ \E j \in 1 .. Len(t) : i = Len(s) + j
    <2> TAKE i \in 1 .. Len(s) + Len(t)
    <2>1. CASE i <= Len(s) BY <2>1
    <2>2. CASE i > Len(s)
      <3>1. i - Len(s) \in 1 .. Len(t) /\ i = Len(s) + (i - Len(s)) BY <2>2
      <3>2. QED BY <3>1
    <2>3. QED BY <2>1, <2>2
  <1>4. /\ DOMAIN (s \o t) = 1 .. Len(s) + Len(t)
        /\ DOMAIN s = 1 .. Len(s) /\ DOMAIN t = 1 .. Len(t)
    BY <1>1
  <1>5. Range(s \o t) \subseteq Range(s) \cup Range(t)
    <2> SUFFICES ASSUME NEW i \in 1 .. Len(s) + Len(t)
                 PROVE  (s \o t)[i] \in Range(s) \cup Range(t)
      BY <1>4 DEF Range
    <2>1. QED BY <1>2, <1>3, <1>4 DEF Range
  <1>6. Range(s) \cup Range(t) \subseteq Range(s \o t)
    <2>1. ASSUME NEW i \in 1 .. Len(s) PROVE s[i] \in Range(s \o t)
      BY <1>2, <1>4 DEF Range
    <2>2. ASSUME NEW i \in 1 .. Len(t) PROVE t[i] \in Range(s \o t)
      BY <1>2, <1>4 DEF Range
    <2>3. QED BY <2>1, <2>2, <1>4 DEF Range
  <1>7. QED BY <1>1, <1>5, <1>6

(* out is what the loop has appended after each of the first n entries.     *)
IsLoop(out, n, enabled, disabled) ==
    out = [i \in 0 .. n |->
             IF i = 0 THEN <<>>
             ELSE IF Wanted(CollectorRegistry[i], enabled, disabled)
                  THEN Append(out[i - 1], CollectorRegistry[i])
                  ELSE out[i - 1]]

LEMMA LoopExists ==
  ASSUME NEW enabled, NEW disabled, NEW n \in Nat
  PROVE  \E out : IsLoop(out, n, enabled, disabled)
  <1> DEFINE T == {m \in Nat : \E out : IsLoop(out, m, enabled, disabled)}
  <1>1. 0 \in T
    <2>1. IsLoop([i \in 0 .. 0 |-> <<>>], 0, enabled, disabled)
      BY DEF IsLoop
    <2>2. QED BY <2>1
  <1>2. ASSUME NEW m \in Nat, m \in T PROVE m + 1 \in T
    <2>1. PICK f : IsLoop(f, m, enabled, disabled)
      BY <1>2
    <2> DEFINE e == CollectorRegistry[m + 1]
               v == IF Wanted(e, enabled, disabled) THEN Append(f[m], e) ELSE f[m]
               g == [i \in 0 .. m + 1 |-> IF i = m + 1 THEN v ELSE f[i]]
    <2>2. \A i \in 0 .. m : g[i] = f[i]
      OBVIOUS
    <2>3. \A i \in 0 .. m + 1 : i # 0 => i - 1 \in 0 .. m
      OBVIOUS
    <2>4. IsLoop(g, m + 1, enabled, disabled)
      <3>1. \A i \in 0 .. m + 1 :
              g[i] = IF i = 0 THEN <<>>
                     ELSE IF Wanted(CollectorRegistry[i], enabled, disabled)
                          THEN Append(g[i - 1], CollectorRegistry[i])
                          ELSE g[i - 1]
        <4> TAKE i \in 0 .. m + 1
        <4>1. CASE i = m + 1
          <5>1. g[i] = v /\ g[i - 1] = f[m] /\ i # 0 BY <4>1
          <5>2. QED BY <5>1, <4>1
        <4>2. CASE i # m + 1
          <5>1. i \in 0 .. m BY <4>2
          <5>2. g[i] = f[i] /\ (i # 0 => g[i - 1] = f[i - 1]) BY <5>1, <2>2, <2>3
          <5>3. f[i] = IF i = 0 THEN <<>>
                       ELSE IF Wanted(CollectorRegistry[i], enabled, disabled)
                            THEN Append(f[i - 1], CollectorRegistry[i])
                            ELSE f[i - 1]
            BY <5>1, <2>1 DEF IsLoop
          <5>4. QED BY <5>2, <5>3
        <4>3. QED BY <4>1, <4>2
      <3>2. g = [i \in 0 .. m + 1 |-> g[i]]
        OBVIOUS
      <3> HIDE DEF g
      <3>3. QED BY <3>1, <3>2 DEF IsLoop
    <2>5. QED BY <2>4
  <1>3. Nat \subseteq T
    <2> HIDE DEF T
    <2>1. QED BY <1>1, <1>2, Counting
  <1>4. QED BY <1>3

(* After n entries it holds the wanted ones among them.                     *)
Among(n, enabled, disabled) ==
    {e \in {CollectorRegistry[j] : j \in 1 .. n} : Wanted(e, enabled, disabled)}

LEMMA LoopKeeps ==
  ASSUME NEW enabled, NEW disabled, NEW N \in Nat, N <= Len(CollectorRegistry), NEW out,
         IsLoop(out, N, enabled, disabled)
  PROVE  \A n \in 0 .. N : /\ out[n] \in Seq(Entries)
                           /\ Range(out[n]) = Among(n, enabled, disabled)
  <1> DEFINE Kept(n) == Among(n, enabled, disabled)
             T == {n \in Nat : n <= N =>
                     out[n] \in Seq(Entries) /\ Range(out[n]) = Kept(n)}
  <1>1. 0 \in T
    <2>1. out[0] = <<>> BY DEF IsLoop
    <2>2. Range(out[0]) = {} /\ out[0] \in Seq(Entries) BY <2>1 DEF Range
    <2>3. Kept(0) = {} BY DEF Among
    <2>4. QED BY <2>2, <2>3
  <1>2. ASSUME NEW n \in Nat, n \in T PROVE n + 1 \in T
    <2> SUFFICES ASSUME n + 1 <= N
                 PROVE  out[n + 1] \in Seq(Entries) /\ Range(out[n + 1]) = Kept(n + 1)
      OBVIOUS
    <2> DEFINE e == CollectorRegistry[n + 1]
    <2>1. out[n] \in Seq(Entries) /\ Range(out[n]) = Kept(n)
      BY <1>2
    <2>2. e \in Entries
      <3>1. n + 1 \in 1 .. Len(CollectorRegistry) BY RegistryIsSeq
      <3>2. QED BY <3>1, RegistryIsSeq, ElementOfSeq
    <2>3. out[n + 1] = IF Wanted(e, enabled, disabled) THEN Append(out[n], e) ELSE out[n]
      <3>1. n + 1 \in 0 .. N /\ n + 1 # 0 /\ (n + 1) - 1 = n
        OBVIOUS
      <3>2. QED BY <3>1 DEF IsLoop
    <2>4. Kept(n + 1) = IF Wanted(e, enabled, disabled) THEN Kept(n) \cup {e} ELSE Kept(n)
      <3>1. {CollectorRegistry[j] : j \in 1 .. n + 1} = {CollectorRegistry[j] : j \in 1 .. n} \cup {e}
        <4>1. 1 .. n + 1 = (1 .. n) \cup {n + 1} OBVIOUS
        <4>2. QED BY <4>1
      <3>2. QED BY <3>1 DEF Among
    <2>5. Range(Append(out[n], e)) = Range(out[n]) \cup {e} /\ Append(out[n], e) \in Seq(Entries)
      <3> HIDE DEF e
      <3>1. QED BY <2>1, <2>2, RangeOfAppend
    <2> HIDE DEF Kept, e
    <2>6. QED BY <2>1, <2>3, <2>4, <2>5
  <1>3. Nat \subseteq T
    <2> HIDE DEF T
    <2>1. QED BY <1>1, <1>2, Counting
  <1>4. QED BY <1>3

(* No two entries of the registry have one name.                            *)
LEMMA NamesDiffer ==
  \A i, j \in 1 .. 27 : CollectorRegistry[i].name = CollectorRegistry[j].name => i = j
  BY SMTT(120) DEF CollectorRegistry, Entry

(* A sequence without repetition stays one when something new is appended.  *)
EntriesOnce(s) == \A i, j \in 1 .. Len(s) : s[i].name = s[j].name => i = j

LEMMA AppendOnce ==
  ASSUME NEW S, NEW s \in Seq(S), NEW e \in S, EntriesOnce(s),
         \A d \in Range(s) : d.name # e.name
  PROVE  EntriesOnce(Append(s, e))
  <1> DEFINE t == Append(s, e)
  <1>1. /\ Len(t) = Len(s) + 1 /\ Len(s) \in Nat
        /\ \A i \in 1 .. Len(s) : t[i] = s[i]
        /\ t[Len(s) + 1] = e
    OBVIOUS
  <1>2. \A i \in 1 .. Len(s) : t[i].name # e.name
    BY <1>1 DEF Range
  <1> HIDE DEF t
  <1>3. ASSUME NEW i \in 1 .. Len(t), NEW j \in 1 .. Len(t), t[i].name = t[j].name
        PROVE  i = j
    <2>1. CASE i <= Len(s) /\ j <= Len(s)
      BY <1>1, <1>3, <2>1 DEF EntriesOnce
    <2>2. CASE i = Len(s) + 1 /\ j <= Len(s)
      BY <1>1, <1>2, <1>3, <2>2
    <2>3. CASE i <= Len(s) /\ j = Len(s) + 1
      BY <1>1, <1>2, <1>3, <2>3
    <2>4. CASE i = Len(s) + 1 /\ j = Len(s) + 1
      BY <2>4
    <2>5. QED BY <1>1, <2>1, <2>2, <2>3, <2>4
  <1>4. QED BY <1>3 DEF EntriesOnce, t

LEMMA LoopOnce ==
  ASSUME NEW enabled, NEW disabled, NEW N \in Nat, N <= Len(CollectorRegistry), NEW out,
         IsLoop(out, N, enabled, disabled)
  PROVE  EntriesOnce(out[N])
  <1> DEFINE T == {n \in Nat : n <= N => EntriesOnce(out[n])}
  <1>1. 0 \in T
    <2>1. out[0] = <<>> BY DEF IsLoop
    <2>2. QED BY <2>1 DEF EntriesOnce
  <1>2. ASSUME NEW n \in Nat, n \in T PROVE n + 1 \in T
    <2> SUFFICES ASSUME n + 1 <= N PROVE EntriesOnce(out[n + 1])
      OBVIOUS
    <2> DEFINE e == CollectorRegistry[n + 1]
    <2>1. EntriesOnce(out[n]) BY <1>2
    <2>2. n \in 0 .. N OBVIOUS
    <2>3. out[n] \in Seq(Entries) /\ Range(out[n]) = Among(n, enabled, disabled)
      BY <2>2, LoopKeeps
    <2>4. Len(CollectorRegistry) = 27 /\ n + 1 \in 1 .. 27
      <3>1. Len(CollectorRegistry) = 27 BY SMTT(60) DEF CollectorRegistry
      <3>2. QED BY <3>1
    <2>5. e \in Entries
      BY <2>4, RegistryIsSeq, ElementOfSeq
    <2>6. \A d \in Range(out[n]) : d.name # e.name
      <3> SUFFICES ASSUME NEW d \in Range(out[n]) PROVE d.name # e.name
        OBVIOUS
      <3>1. PICK j \in 1 .. n : d = CollectorRegistry[j] BY <2>3 DEF Among
      <3>2. j \in 1 .. 27 /\ j # n + 1 BY <2>4
      <3>3. QED BY <2>4, <3>1, <3>2, NamesDiffer
    <2>7. out[n + 1] = IF Wanted(e, enabled, disabled) THEN Append(out[n], e) ELSE out[n]
      <3>1. n + 1 \in 0 .. N /\ n + 1 # 0 /\ (n + 1) - 1 = n
        OBVIOUS
      <3>2. QED BY <3>1 DEF IsLoop
    <2> HIDE DEF e
    <2>8. EntriesOnce(Append(out[n], e)) BY <2>1, <2>3, <2>5, <2>6, AppendOnce
    <2>9. QED BY <2>1, <2>7, <2>8
  <1>3. N \in T
    <2> HIDE DEF T
    <2>1. QED BY <1>1, <1>2, Counting
  <1>4. QED BY <1>3

LEMMA Resolved ==
  ASSUME NEW enabled, NEW disabled
  PROVE  /\ Resolve(enabled, disabled) \in Seq(Entries)
         /\ Range(Resolve(enabled, disabled)) = {e \in Entries : Wanted(e, enabled, disabled)}
         /\ EntriesOnce(Resolve(enabled, disabled))
  <1> DEFINE N == Len(CollectorRegistry)
  <1>1. N \in Nat /\ N <= N BY RegistryIsSeq
  <1>2. PICK out : IsLoop(out, N, enabled, disabled) /\ Resolve(enabled, disabled) = out[N]
    <2> DEFINE Is(f) ==
                  f = [i \in 0 .. Len(CollectorRegistry) |->
                         IF i = 0 THEN <<>>
                         ELSE IF Wanted(CollectorRegistry[i], enabled, disabled)
                              THEN Append(f[i - 1], CollectorRegistry[i])
                              ELSE f[i - 1]]
    <2>1. \E f : IsLoop(f, N, enabled, disabled) BY <1>1, LoopExists
    <2>2. \E f : Is(f) BY <2>1 DEF IsLoop
    <2>3. Resolve(enabled, disabled) = (CHOOSE f : Is(f))[N] BY DEF Resolve
    <2>4. Is(CHOOSE f : Is(f)) BY <2>2, Zenon
    <2>5. \A f : Is(f) => IsLoop(f, N, enabled, disabled) BY DEF IsLoop
    <2> HIDE DEF Is
    <2>6. QED BY <2>3, <2>4, <2>5
  <1>3. Entries = {CollectorRegistry[j] : j \in 1 .. N}
    BY RegistryIsSeq, RangeEquality DEF Entries
  <1>4. /\ out[N] \in Seq(Entries)
        /\ Range(out[N]) = Among(N, enabled, disabled)
        /\ EntriesOnce(out[N])
    <2> HIDE DEF N
    <2>1. N \in 0 .. N BY <1>1
    <2>2. \A n \in 0 .. N : out[n] \in Seq(Entries) /\ Range(out[n]) = Among(n, enabled, disabled)
      BY <1>1, <1>2, LoopKeeps DEF N
    <2>3. EntriesOnce(out[N]) BY <1>1, <1>2, LoopOnce DEF N
    <2>4. QED BY <2>1, <2>2, <2>3
  <1>5. QED BY <1>2, <1>3, <1>4, Zenon DEF Among

-------------------------------------------------------------------------------
(* The exporters.                                                           *)

IsBuiltIn(c) == c.name[1] = "builtin"

(* What New made of an exporter is still what is built in: one prefix, that *)
(* of its options if they have one, and the entries they asked for.         *)
AsNew(e) ==
    /\ e.collectors \in Seq(Range(e.collectors))
    /\ Once(e.collectors)
    /\ e.opts.prefix # "" => e.self = e.opts.prefix
    /\ \E p \in MetricPrefixes :
          /\ e.opts.prefix # "" => p = e.opts.prefix
          /\ {c \in Range(e.collectors) : IsBuiltIn(c)} =
                {Collector(<<"builtin", n.name>>, p, None) :
                   n \in {m \in Entries : Wanted(m, e.opts.enabled, e.opts.disabled)}}

IInv == /\ DOMAIN exp = Exporters /\ prefix \in MetricPrefixes
        /\ \A x \in Exporters : x \in Made => AsNew(exp[x])

LEMMA CollectorFields ==
  \A n, p : /\ Collector(<<"builtin", n>>, p, None).prefix = p
            /\ Collector(<<"builtin", n>>, p, None).name[1] = "builtin"
            /\ Collector(<<"builtin", n>>, p, None).name[2] = n
  BY DEF Collector

LEMMA Constructed ==
  ASSUME NEW en, NEW dis, NEW p
  PROVE  LET cs == Construct(Resolve(en, dis), p)
         IN  /\ cs \in Seq(Range(cs))
             /\ Range(cs) = {Collector(<<"builtin", n.name>>, p, None) :
                               n \in {m \in Entries : Wanted(m, en, dis)}}
             /\ \A c \in Range(cs) : IsBuiltIn(c)
             /\ Once(cs)
  <1> DEFINE es == Resolve(en, dis)
             cs == Construct(es, p)
  <1>1. /\ es \in Seq(Entries) /\ Range(es) = {m \in Entries : Wanted(m, en, dis)}
        /\ EntriesOnce(es)
    BY Resolved
  <1> HIDE DEF es
  <1>2. DOMAIN es = 1 .. Len(es) /\ Len(es) \in Nat BY <1>1
  <1>3. cs = [i \in 1 .. Len(es) |-> Collector(<<"builtin", es[i].name>>, p, None)]
    BY <1>2 DEF Construct
  <1>4. Range(cs) = {Collector(<<"builtin", n.name>>, p, None) : n \in Range(es)}
    <2>1. ASSUME NEW c \in Range(cs)
          PROVE  \E n \in Range(es) : c = Collector(<<"builtin", n.name>>, p, None)
      BY <1>2, <1>3, <2>1 DEF Range
    <2>2. ASSUME NEW n \in Range(es)
          PROVE  Collector(<<"builtin", n.name>>, p, None) \in Range(cs)
      BY <1>2, <1>3, <2>2 DEF Range
    <2> HIDE DEF cs
    <2>3. QED BY <2>1, <2>2
  <1>5. cs \in Seq(Range(cs))
    <2>1. \A i \in 1 .. Len(es) : cs[i] \in Range(cs) BY <1>3 DEF Range
    <2>2. cs = [i \in 1 .. Len(es) |-> cs[i]] BY <1>3
    <2> HIDE DEF cs
    <2>3. QED BY <1>2, <2>1, <2>2
  <1>6. \A c \in Range(cs) : IsBuiltIn(c)
    BY <1>4 DEF IsBuiltIn, Collector
  <1>7. Once(cs)
    <2>1. DOMAIN cs = 1 .. Len(es) /\ \A i \in 1 .. Len(es) : cs[i].name[2] = es[i].name
      BY <1>3, CollectorFields
    <2> HIDE DEF cs
    <2>2. \A i, j \in 1 .. Len(es) : cs[i].name = cs[j].name => es[i].name = es[j].name
      BY <2>1
    <2>3. QED BY <1>1, <2>1, <2>2 DEF Once, EntriesOnce
  <1>8. QED BY <1>1, <1>4, <1>5, <1>6, <1>7 DEF es

(* Appending collectors that are not built in.                              *)
LEMMA Appended ==
  ASSUME NEW e, AsNew(e), NEW T, NEW cs \in Seq(T), \A c \in T : ~IsBuiltIn(c), NEW fs
  PROVE  AsNew([opts |-> e.opts, self |-> e.self, files |-> fs,
                collectors |-> e.collectors \o cs])
  <1> DEFINE U == Range(e.collectors) \cup T
  <1>1. e.collectors \in Seq(U) /\ cs \in Seq(U)
    <2>1. e.collectors \in Seq(Range(e.collectors)) BY DEF AsNew
    <2>2. QED BY <2>1, SeqMonotonic
  <1>2. /\ e.collectors \o cs \in Seq(U)
        /\ Range(e.collectors \o cs) = Range(e.collectors) \cup Range(cs)
    BY <1>1, RangeOfConcat
  <1>3. e.collectors \o cs \in Seq(Range(e.collectors \o cs))
    BY <1>2, SeqOfRange
  <1>4. Range(cs) \subseteq T
    BY RangeOfSeq
  <1>5. {c \in Range(e.collectors \o cs) : IsBuiltIn(c)} =
        {c \in Range(e.collectors) : IsBuiltIn(c)}
    BY <1>2, <1>4
  <1>6. Once(e.collectors \o cs)
    <2> DEFINE bs == e.collectors
               t  == bs \o cs
    <2>1. /\ Len(bs) \in Nat /\ Len(cs) \in Nat /\ DOMAIN bs = 1 .. Len(bs)
          /\ DOMAIN t = 1 .. Len(bs) + Len(cs)
          /\ \A i \in 1 .. Len(bs) : t[i] = bs[i]
          /\ \A i \in 1 .. Len(bs) + Len(cs) : i > Len(bs) => t[i] \in T
      <3>1. bs \in Seq(U) BY <1>1
      <3> HIDE DEF bs, U
      <3>2. QED BY <3>1
    <2>2. Once(bs) BY DEF AsNew
    <2> HIDE DEF bs, t
    <2>3. ASSUME NEW i \in DOMAIN t, t[i].name[1] = "builtin" PROVE i \in DOMAIN bs
      <3>1. ~ (i > Len(bs)) BY <2>1, <2>3 DEF IsBuiltIn
      <3>2. QED BY <2>1, <3>1
    <2>4. ASSUME NEW i \in DOMAIN t, NEW j \in DOMAIN t, t[i].name[1] = "builtin",
                 t[i].name = t[j].name
          PROVE  i = j
      <3>1. i \in DOMAIN bs /\ j \in DOMAIN bs BY <2>3, <2>4
      <3>2. t[i] = bs[i] /\ t[j] = bs[j] BY <3>1, <2>1
      <3>3. QED BY <2>2, <2>4, <3>1, <3>2 DEF Once
    <2>5. Once(t) BY <2>4 DEF Once
    <2>6. QED BY <2>5 DEF t, bs
  <1>7. QED BY <1>3, <1>5, <1>6, Zenon DEF AsNew

(* No file that parses has a spec NewSpecCollector panics on.               *)
LEMMA ParsedIsUsable ==
  ASSUME NEW file \in Files, ParseSpecs(file), NEW j \in 1 .. Len(file)
  PROVE  ~Panics(file[j])
  <1>1. file \in Seq(Range(file)) BY SetupAssumption
  <1>2. file[j] \in Range(file) BY <1>1, ElementOfSeq
  <1>3. QED BY <1>2 DEF ParseSpecs, ToInternal, Panics

LEMMA StepIInv == IInv /\ [Next]_vars => IInv'
  <1> SUFFICES ASSUME IInv, [Next]_vars PROVE IInv'
    OBVIOUS
  <1> USE DEF IInv
  <1>0. prefix' \in MetricPrefixes
    BY SetupAssumption DEF Next, New, NewFails, SetsPrefix, Flip, SetMetricPrefix, MetricPrefixes,
       Default, WithCustomCollectors, ExtendFromYAMLFile, Register, vars
  <1>1. ASSUME UNCHANGED exp PROVE IInv'
    <2>1. Made' = Made /\ exp' = exp /\ prefix' \in MetricPrefixes BY <1>0, <1>1 DEF Made
    <2>2. QED BY <2>1, Zenon
  <1>2. ASSUME NEW x \in Exporters, NEW e, AsNew(e), exp' = [exp EXCEPT ![x] = e]
        PROVE  IInv'
    <2>1. DOMAIN exp' = Exporters BY <1>2
    <2>2. ASSUME NEW y \in Exporters, y \in Made' PROVE AsNew(exp'[y])
      <3>1. CASE y = x
        <4>1. exp'[y] = e BY <1>2, <3>1
        <4>2. QED BY <4>1, <1>2
      <3>2. CASE y # x
        <4>1. exp'[y] = exp[y] BY <1>2, <3>2
        <4>2. y \in Made BY <4>1, <2>2 DEF Made
        <4>3. AsNew(exp[y]) BY <4>2
        <4>4. QED BY <4>1, <4>3
      <3>3. QED BY <3>1, <3>2
    <2>3. (\A y \in Exporters : y \in Made => AsNew(exp[y]))'
      BY <2>2, Zenon
    <2>4. QED BY <1>0, <2>1, <2>3
  <1>3. ASSUME NEW x \in Exporters, NEW o \in Options, New(x, o) PROVE IInv'
    <2> DEFINE cs == Construct(Resolve(o.enabled, o.disabled), prefix')
               e == [opts |-> o, self |-> self', files |-> <<>>, collectors |-> cs]
    <2>1. exp' = [exp EXCEPT ![x] = e] BY <1>3 DEF New
    <2>2. o.prefix # "" => prefix' = o.prefix /\ self' = o.prefix
      BY <1>3 DEF New, SetsPrefix, Flip
    <2>3. /\ cs \in Seq(Range(cs))
          /\ Range(cs) = {Collector(<<"builtin", n.name>>, prefix', None) :
                            n \in {m \in Entries : Wanted(m, o.enabled, o.disabled)}}
          /\ \A c \in Range(cs) : IsBuiltIn(c)
          /\ Once(cs)
      BY Constructed
    <2> HIDE DEF cs
    <2>4. {c \in Range(cs) : IsBuiltIn(c)} = Range(cs)
      BY <2>3
    <2>5. e.opts = o /\ e.self = self' /\ e.files = <<>> /\ e.collectors = cs
      OBVIOUS
    <2>6. AsNew(e)
      <3> HIDE DEF e
      <3>1. e.collectors \in Seq(Range(e.collectors)) /\ Once(e.collectors)
        BY <2>3, <2>5, Zenon
      <3>2. e.opts.prefix # "" => e.self = e.opts.prefix /\ prefix' = e.opts.prefix
        BY <2>2, <2>5, Zenon
      <3>3. {c \in Range(e.collectors) : IsBuiltIn(c)} =
              {Collector(<<"builtin", n.name>>, prefix', None) :
                 n \in {m \in Entries : Wanted(m, e.opts.enabled, e.opts.disabled)}}
        <4>1. {c \in Range(cs) : IsBuiltIn(c)} =
                {Collector(<<"builtin", n.name>>, prefix', None) :
                   n \in {m \in Entries : Wanted(m, o.enabled, o.disabled)}}
          BY <2>3, <2>4, Zenon
        <4>2. QED BY <4>1, <2>5, Zenon
      <3>4. QED BY <1>0, <3>1, <3>2, <3>3, Zenon DEF AsNew
    <2> HIDE DEF e
    <2>7. QED BY <2>1, <2>6, <1>2
  <1>4. ASSUME NEW x \in Exporters, NEW n \in 1 .. MaxBatch, WithCustomCollectors(x, n)
        PROVE  IInv'
    <2>0. PICK custom \in [1 .. n -> Customs] :
             Add(x, [j \in 1 .. n |->
                       Collector(CustomName(Len(exp[x].collectors), j - 1), None, custom[j])],
                 <<>>)
      BY <1>4 DEF WithCustomCollectors
    <2> DEFINE cs == [j \in 1 .. n |->
                        Collector(CustomName(Len(exp[x].collectors), j - 1), None, custom[j])]
               e == [opts |-> exp[x].opts, self |-> exp[x].self, files |-> exp[x].files \o <<>>,
                     collectors |-> exp[x].collectors \o cs]
    <2>1. n \in Nat BY BoundsAssumption
    <2>2. AsNew(exp[x]) BY <1>4 DEF WithCustomCollectors, Made
    <2>3. \A c \in Range(cs) : ~IsBuiltIn(c)
      BY DEF Range, IsBuiltIn, Collector, CustomName
    <2>4. cs \in Seq(Range(cs))
      <3>1. \A j \in 1 .. n : cs[j] \in Range(cs) BY DEF Range
      <3>2. cs = [j \in 1 .. n |-> cs[j]] OBVIOUS
      <3> HIDE DEF cs
      <3>3. QED BY <2>1, <3>1, <3>2
    <2>5. exp' = [exp EXCEPT ![x] = e]
      BY <2>0 DEF Add
    <2> HIDE DEF cs
    <2>6. AsNew(e) BY <2>2, <2>3, <2>4, Appended
    <2> HIDE DEF e
    <2>7. QED BY <2>5, <2>6, <1>2
  <1>5. ASSUME NEW x \in Exporters, NEW f \in Files, ExtendFromYAMLFile(x, f) PROVE IInv'
    <2> DEFINE cs == [j \in 1 .. Len(f) |-> NewSpecCollector(f[j])]
               e == [opts |-> exp[x].opts, self |-> exp[x].self,
                     files |-> exp[x].files \o <<f>>,
                     collectors |-> exp[x].collectors \o cs]
    <2>1. Len(f) \in Nat
      <3>1. f \in Seq(Range(f)) BY SetupAssumption
      <3>2. QED BY <3>1
    <2>2. AsNew(exp[x]) BY <1>5 DEF ExtendFromYAMLFile, Made
    <2>3. {j \in 1 .. Len(f) : Panics(f[j])} = {}
      BY <1>5, ParsedIsUsable DEF ExtendFromYAMLFile
    <2>4. \A c \in Range(cs) : ~IsBuiltIn(c)
      BY DEF Range, IsBuiltIn, Collector, NewSpecCollector
    <2>5. cs \in Seq(Range(cs))
      <3>1. \A j \in 1 .. Len(f) : cs[j] \in Range(cs) BY DEF Range
      <3>2. cs = [j \in 1 .. Len(f) |-> cs[j]] OBVIOUS
      <3> HIDE DEF cs
      <3>3. QED BY <2>1, <3>1, <3>2
    <2>6. exp' = [exp EXCEPT ![x] = e]
      BY <1>5, <2>3 DEF ExtendFromYAMLFile, Add
    <2> HIDE DEF cs
    <2>7. AsNew(e) BY <2>2, <2>4, <2>5, Appended
    <2> HIDE DEF e
    <2>8. QED BY <2>6, <2>7, <1>2
  <1>6. ASSUME NEW x \in Exporters, Register(x) PROVE IInv'
    BY <1>1, <1>6 DEF Register
  <1>7. ASSUME NEW x \in Exporters, NEW o \in Options, NewFails(x, o) PROVE IInv'
    BY <1>1, <1>7 DEF NewFails
  <1>8. ASSUME NEW p \in MetricPrefixes \cup {""}, SetMetricPrefix(p) PROVE IInv'
    BY <1>1, <1>8 DEF SetMetricPrefix
  <1>9. CASE UNCHANGED vars BY <1>1, <1>9 DEF vars
  <1>10. QED BY <1>3, <1>4, <1>5, <1>6, <1>7, <1>8, <1>9 DEF Next

LEMMA Invariant == Spec => []IInv
  <1>1. Init => IInv
    BY DEF Init, IInv, Made, MetricPrefixes, Default
  <1>2. QED BY <1>1, StepIInv, PTL DEF Spec

(* The built-in collectors of an exporter have one prefix, the one it asked *)
(* for, whatever the others do with the package variables.                  *)
THEOREM PrefixKept == Spec => []OnePrefix
  <1>1. IInv => OnePrefix
    <2> SUFFICES ASSUME IInv, NEW x \in Made
                 PROVE  /\ \A c, d \in BuiltIns(x) : c.prefix = d.prefix
                        /\ exp[x].opts.prefix # "" =>
                              /\ exp[x].self = exp[x].opts.prefix
                              /\ \A c \in BuiltIns(x) : c.prefix = exp[x].opts.prefix
      BY DEF OnePrefix
    <2>1. AsNew(exp[x]) BY DEF IInv, Made
    <2>2. PICK p : /\ exp[x].opts.prefix # "" => p = exp[x].opts.prefix
                   /\ BuiltIns(x) =
                        {Collector(<<"builtin", n.name>>, p, None) :
                           n \in {m \in Entries : Wanted(m, exp[x].opts.enabled,
                                                         exp[x].opts.disabled)}}
      BY <2>1 DEF AsNew, BuiltIns, IsBuiltIn
    <2>3. \A c \in BuiltIns(x) : c.prefix = p
      <3>1. ASSUME NEW c \in BuiltIns(x) PROVE c.prefix = p
        <4>1. PICK n \in Entries : c = Collector(<<"builtin", n.name>>, p, None)
          BY <2>2
        <4>2. QED BY <4>1, CollectorFields
      <3>2. QED BY <3>1
    <2>4. exp[x].opts.prefix # "" => exp[x].self = exp[x].opts.prefix
      BY <2>1 DEF AsNew
    <2>5. QED BY <2>2, <2>3, <2>4
  <1>2. QED BY <1>1, Invariant, PTL

(* The default of a collector is a matter of its name.                      *)
LEMMA DefaultByName ==
  \A e \in Entries : e.default <=> e.name \notin {"settings", "statements", "subscription"}
  <1>1. \A i \in 1 .. 27 : CollectorRegistry[i].default <=>
          CollectorRegistry[i].name \notin {"settings", "statements", "subscription"}
    BY SMTT(60) DEF CollectorRegistry, Entry
  <1>2. DOMAIN CollectorRegistry = 1 .. 27
    BY SMTT(60) DEF CollectorRegistry
  <1>3. QED BY <1>1, <1>2 DEF Entries, Range

(* An exporter runs the collectors its options name, or the default ones,   *)
(* without the disabled and each once, however it is extended later: the    *)
(* loop of ResolveCollectors drops, adds and repeats none, for any names.   *)
THEOREM AsAsked == Spec => []ResolvedAsAsked
  <1>1. IInv => ResolvedAsAsked
    <2> SUFFICES ASSUME IInv, NEW x \in Made
                 PROVE  LET o    == exp[x].opts
                            runs == {c.name[2] : c \in BuiltIns(x)}
                        IN  /\ Once(exp[x].collectors)
                            /\ o.enabled # {} => runs = (o.enabled \cap Known) \ o.disabled
                            /\ o.enabled = {} =>
                                 /\ runs \cap o.disabled = {}
                                 /\ \A e \in Range(CollectorRegistry) :
                                       e.name \notin o.disabled => (e.name \in runs <=> e.default)
      BY DEF ResolvedAsAsked
    <2> DEFINE o    == exp[x].opts
               runs == {c.name[2] : c \in BuiltIns(x)}
    <2>1. AsNew(exp[x]) BY DEF IInv, Made
    <2>2. PICK p : BuiltIns(x) =
                     {Collector(<<"builtin", n.name>>, p, None) :
                        n \in {m \in Entries : Wanted(m, o.enabled, o.disabled)}}
      BY <2>1 DEF AsNew, BuiltIns, IsBuiltIn
    <2>3. runs = {m.name : m \in {e \in Entries : Wanted(e, o.enabled, o.disabled)}}
      <3> DEFINE W == {e \in Entries : Wanted(e, o.enabled, o.disabled)}
                 B == BuiltIns(x)
      <3>1. B = {Collector(<<"builtin", n.name>>, p, None) : n \in W} BY <2>2
      <3> HIDE DEF W, B
      <3>2. \A n \in W : Collector(<<"builtin", n.name>>, p, None) \in B BY <3>1
      <3>3. \A c \in B : \E n \in W : c = Collector(<<"builtin", n.name>>, p, None) BY <3>1
      <3>4. {c.name[2] : c \in B} = {m.name : m \in W}
        <4>1. \A n \in W : \E c \in B : n.name = c.name[2]
          <5> TAKE n \in W
          <5>1. Collector(<<"builtin", n.name>>, p, None) \in B BY <3>2
          <5>2. Collector(<<"builtin", n.name>>, p, None).name[2] = n.name BY CollectorFields
          <5>3. QED BY <5>1, <5>2
        <4>2. \A c \in B : \E n \in W : c.name[2] = n.name
          <5> TAKE c \in B
          <5>1. PICK n \in W : c = Collector(<<"builtin", n.name>>, p, None) BY <3>3
          <5>2. Collector(<<"builtin", n.name>>, p, None).name[2] = n.name BY CollectorFields
          <5>3. QED BY <5>1, <5>2
        <4>3. QED BY <4>1, <4>2
      <3>5. QED BY <3>4 DEF W, B
    <2>4. Known = {e.name : e \in Entries} BY DEF Known, Entries
    <2> HIDE DEF o, runs
    <2>5. o.enabled # {} => runs = (o.enabled \cap Known) \ o.disabled
      BY <2>3, <2>4 DEF Wanted
    <2>6. ASSUME o.enabled = {}
          PROVE  /\ runs \cap o.disabled = {}
                 /\ \A e \in Entries : e.name \notin o.disabled => (e.name \in runs <=> e.default)
      <3>1. \A e \in Entries : Wanted(e, o.enabled, o.disabled) <=>
                                 e.default /\ e.name \notin o.disabled
        BY <2>6 DEF Wanted
      <3>2. runs \cap o.disabled = {} BY <2>3, <3>1
      <3>3. ASSUME NEW e \in Entries, e.name \notin o.disabled
            PROVE  e.name \in runs <=> e.default
        <4>1. CASE e.default BY <2>3, <3>1, <3>3, <4>1
        <4>2. ASSUME e.name \in runs PROVE e.default
          <5>1. PICK m \in Entries : m.name = e.name /\ m.default
            BY <2>3, <3>1, <4>2
          <5>2. QED BY <5>1, DefaultByName
        <4>3. QED BY <4>1, <4>2
      <3>4. QED BY <3>2, <3>3
    <2>7. Once(exp[x].collectors) BY <2>1 DEF AsNew
    <2>8. QED BY <2>5, <2>6, <2>7 DEF o, runs, Entries
  <1>2. QED BY <1>1, Invariant, PTL
-------------------------------------------------------------------------------
(* The types.                                                               *)

LEMMA NewCollectors ==
  ASSUME NEW en, NEW dis, NEW p \in MetricPrefixes
  PROVE  /\ Construct(Resolve(en, dis), p) \in Seq(CollectorSet)
         /\ \A c \in Range(Construct(Resolve(en, dis), p)) : IsBuiltIn(c)
  <1> DEFINE cs == Construct(Resolve(en, dis), p)
  <1>1. /\ cs \in Seq(Range(cs))
        /\ Range(cs) = {Collector(<<"builtin", n.name>>, p, None) :
                          n \in {m \in Entries : Wanted(m, en, dis)}}
        /\ \A c \in Range(cs) : IsBuiltIn(c)
    BY Constructed
  <1> HIDE DEF cs
  <1>2. \A n \in Entries : Collector(<<"builtin", n.name>>, p, None) \in CollectorSet
    BY DEF Collector, CollectorSet, Known, Entries
  <1>3. Range(cs) \subseteq CollectorSet
    BY <1>1, <1>2
  <1>4. QED BY <1>1, <1>3, SeqMonotonic DEF cs

LEMMA FileFacts ==
  ASSUME NEW f \in Files
  PROVE  /\ f \in Seq(Specs) /\ Len(f) \in Nat /\ DOMAIN f = 1 .. Len(f)
         /\ \A j \in 1 .. Len(f) : NewSpecCollector(f[j]).spec = f[j]
         /\ \A j \in 1 .. Len(f) : IsSpec(NewSpecCollector(f[j]))
         /\ prefix \in MetricPrefixes =>
               [j \in 1 .. Len(f) |-> NewSpecCollector(f[j])] \in Seq(CollectorSet)
  <1>1. f \in Seq(Range(f)) /\ Range(f) \subseteq Specs
    BY SetupAssumption DEF Specs
  <1>2. f \in Seq(Specs)
    BY <1>1, SeqMonotonic
  <1>3. \A j \in 1 .. Len(f) : f[j] \in Specs
    BY <1>2
  <1>4. \A j \in 1 .. Len(f) : /\ NewSpecCollector(f[j]).spec = f[j]
                               /\ IsSpec(NewSpecCollector(f[j]))
    BY DEF NewSpecCollector, Collector, IsSpec
  <1>5. ASSUME prefix \in MetricPrefixes
        PROVE  [j \in 1 .. Len(f) |-> NewSpecCollector(f[j])] \in Seq(CollectorSet)
    <2>1. \A j \in 1 .. Len(f) : NewSpecCollector(f[j]) \in CollectorSet
      BY <1>3, <1>5 DEF NewSpecCollector, Collector, CollectorSet
    <2>2. Len(f) \in Nat
      BY <1>2
    <2>3. QED BY <2>1, <2>2
  <1>6. QED BY <1>2, <1>4, <1>5

(* What Add makes of an exporter.                                           *)
LEMMA ExtendedTyped ==
  ASSUME NEW e \in ExporterSet, NEW cs \in Seq(CollectorSet), NEW fs \in Seq(Files)
  PROVE  [opts |-> e.opts, self |-> e.self, files |-> e.files \o fs,
          collectors |-> e.collectors \o cs] \in ExporterSet
  <1>1. /\ e.opts \in Options /\ e.self \in MetricPrefixes
        /\ e.files \in Seq(Files) /\ e.collectors \in Seq(CollectorSet)
    BY DEF ExporterSet
  <1>2. e.files \o fs \in Seq(Files) /\ e.collectors \o cs \in Seq(CollectorSet)
    BY <1>1, ConcatProperties
  <1>3. QED BY <1>1, <1>2 DEF ExporterSet

(* A call that leaves everything alone but one exporter.                    *)
LEMMA PutTyped ==
  ASSUME TypeOK, NEW x \in Exporters, NEW e \in ExporterSet, exp' = [exp EXCEPT ![x] = e],
         registry' = registry
  PROVE  /\ exp' \in [Exporters -> ExporterSet \cup {None}]
         /\ \A y \in Exporters : registry'[y] # None => y \in Made'
  <1>1. exp' \in [Exporters -> ExporterSet \cup {None}]
    BY DEF TypeOK
  <1>2. \A y \in Exporters : exp'[y] = IF y = x THEN e ELSE exp[y]
    BY DEF TypeOK
  <1>3. e # None
    BY NoneAssumption
  <1>4. QED BY <1>1, <1>2, <1>3 DEF TypeOK, Made

(* The three calls that change an exporter, in the same terms.              *)
LEMMA NewIs ==
  ASSUME TypeOK, NEW x \in Exporters, NEW o \in Options, New(x, o)
  PROVE  /\ prefix' \in MetricPrefixes /\ self' \in MetricPrefixes
         /\ UNCHANGED <<failed, registry, refused>>
         /\ \E cs \in Seq(CollectorSet) :
               /\ \A c \in Range(cs) : IsBuiltIn(c)
               /\ [opts |-> o, self |-> self', files |-> <<>>, collectors |-> cs] \in ExporterSet
               /\ exp' = [exp EXCEPT ![x] = [opts |-> o, self |-> self', files |-> <<>>,
                                             collectors |-> cs]]
  <1> DEFINE cs == Construct(Resolve(o.enabled, o.disabled), prefix')
  <1>1. prefix' \in MetricPrefixes /\ self' \in MetricPrefixes
    BY SetupAssumption DEF New, SetsPrefix, Flip, TypeOK
  <1>2. cs \in Seq(CollectorSet) /\ \A c \in Range(cs) : IsBuiltIn(c)
    BY <1>1, NewCollectors
  <1>3. /\ UNCHANGED <<failed, registry, refused>>
        /\ exp' = [exp EXCEPT ![x] = [opts |-> o, self |-> self', files |-> <<>>,
                                      collectors |-> cs]]
    BY DEF New
  <1> HIDE DEF cs
  <1>4. [opts |-> o, self |-> self', files |-> <<>>, collectors |-> cs] \in ExporterSet
    BY <1>1, <1>2 DEF ExporterSet
  <1>5. QED BY <1>1, <1>2, <1>3, <1>4

LEMMA CustomIs ==
  ASSUME TypeOK, NEW x \in Exporters, NEW n \in 1 .. MaxBatch, WithCustomCollectors(x, n)
  PROVE  /\ exp[x] \in ExporterSet
         /\ UNCHANGED <<prefix, self, failed, registry, refused>>
         /\ \E cs \in Seq(CollectorSet) :
               /\ Len(cs) = n
               /\ \A i \in 1 .. Len(cs) : ~IsSpec(cs[i])
               /\ \A i \in 1 .. Len(cs) :
                     cs[i].name = CustomName(Len(exp[x].collectors), i - 1)
               /\ exp' = [exp EXCEPT ![x] =
                            [opts |-> exp[x].opts, self |-> exp[x].self,
                             files |-> exp[x].files \o <<>>,
                             collectors |-> exp[x].collectors \o cs]]
  <1>0. PICK custom \in [1 .. n -> Customs] :
           Add(x, [j \in 1 .. n |->
                     Collector(CustomName(Len(exp[x].collectors), j - 1), None, custom[j])],
               <<>>)
    BY DEF WithCustomCollectors
  <1> DEFINE C(j) == Collector(CustomName(Len(exp[x].collectors), j - 1), None, custom[j])
             cs == [j \in 1 .. n |-> C(j)]
  <1>1. exp[x] \in ExporterSet
    BY DEF TypeOK, WithCustomCollectors
  <1>2. Len(exp[x].collectors) \in Nat
    BY <1>1 DEF ExporterSet
  <1>3. n \in Nat
    BY BoundsAssumption
  <1>4. \A j \in 1 .. n : C(j) \in CollectorSet /\ ~IsSpec(C(j))
    BY <1>2, <1>3 DEF Collector, CustomName, CollectorSet, IsSpec
  <1>5. /\ UNCHANGED <<prefix, self, failed, registry, refused>>
        /\ exp' = [exp EXCEPT ![x] =
                     [opts |-> exp[x].opts, self |-> exp[x].self,
                      files |-> exp[x].files \o <<>>,
                      collectors |-> exp[x].collectors \o cs]]
    BY <1>0 DEF WithCustomCollectors, Add
  <1>c. \A j \in 1 .. n : C(j).name = CustomName(Len(exp[x].collectors), j - 1)
    BY DEF Collector
  <1> HIDE DEF C
  <1>6. /\ cs \in Seq(CollectorSet) /\ Len(cs) = n
        /\ \A i \in 1 .. Len(cs) : ~IsSpec(cs[i])
        /\ \A i \in 1 .. Len(cs) :
              cs[i].name = CustomName(Len(exp[x].collectors), i - 1)
    BY <1>3, <1>4, <1>c
  <1> HIDE DEF cs
  <1>7. QED BY <1>1, <1>5, <1>6

LEMMA ExtendIs ==
  ASSUME TypeOK, NEW x \in Exporters, NEW f \in Files, ExtendFromYAMLFile(x, f)
  PROVE  /\ exp[x] \in ExporterSet
         /\ UNCHANGED <<prefix, self, failed, registry, refused>>
         /\ \E cs \in Seq(CollectorSet) :
               /\ Len(cs) = Len(f)
               /\ \A i \in 1 .. Len(f) : IsSpec(cs[i]) /\ cs[i].spec = f[i]
               /\ exp' = [exp EXCEPT ![x] =
                            [opts |-> exp[x].opts, self |-> exp[x].self,
                             files |-> exp[x].files \o <<f>>,
                             collectors |-> exp[x].collectors \o cs]]
  <1> DEFINE cs == [j \in 1 .. Len(f) |-> NewSpecCollector(f[j])]
  <1>1. exp[x] \in ExporterSet
    BY DEF TypeOK, ExtendFromYAMLFile
  <1>2. {j \in 1 .. Len(f) : Panics(f[j])} = {}
    BY ParsedIsUsable DEF ExtendFromYAMLFile
  <1>3. /\ UNCHANGED <<prefix, self, failed, registry, refused>>
        /\ exp' = [exp EXCEPT ![x] =
                     [opts |-> exp[x].opts, self |-> exp[x].self,
                      files |-> exp[x].files \o <<f>>,
                      collectors |-> exp[x].collectors \o cs]]
    BY <1>2 DEF ExtendFromYAMLFile, Add
  <1>4. cs \in Seq(CollectorSet)
    BY FileFacts DEF TypeOK
  <1>5. Len(cs) = Len(f) /\ \A i \in 1 .. Len(f) : cs[i] = NewSpecCollector(f[i])
    BY FileFacts
  <1> HIDE DEF cs
  <1>6. \A i \in 1 .. Len(f) : IsSpec(cs[i]) /\ cs[i].spec = f[i]
    BY <1>5, FileFacts
  <1>7. QED BY <1>1, <1>3, <1>4, <1>5, <1>6

LEMMA TypeStep == TypeOK /\ [Next]_vars => TypeOK'
  <1> SUFFICES ASSUME TypeOK, [Next]_vars PROVE TypeOK'
    OBVIOUS
  <1>1. ASSUME UNCHANGED <<exp, registry>>, prefix' \in MetricPrefixes, self' \in MetricPrefixes,
               failed' \subseteq Exporters, refused' \subseteq Exporters
        PROVE  TypeOK'
    BY <1>1 DEF TypeOK, Made
  <1>2. ASSUME NEW x \in Exporters, NEW e \in ExporterSet, exp' = [exp EXCEPT ![x] = e],
               UNCHANGED <<failed, registry, refused>>,
               prefix' \in MetricPrefixes, self' \in MetricPrefixes
        PROVE  TypeOK'
    <2>1. /\ exp' \in [Exporters -> ExporterSet \cup {None}]
          /\ \A y \in Exporters : registry'[y] # None => y \in Made'
      BY <1>2, PutTyped
    <2>2. QED BY <1>2, <2>1 DEF TypeOK
  <1>3. ASSUME NEW p \in MetricPrefixes \cup {""}, SetMetricPrefix(p) PROVE TypeOK'
    BY <1>1, <1>3 DEF SetMetricPrefix, TypeOK, MetricPrefixes, Default
  <1>4. ASSUME NEW x \in Exporters, NEW o \in Options, New(x, o) PROVE TypeOK'
    BY <1>2, <1>4, NewIs
  <1>5. ASSUME NEW x \in Exporters, NEW o \in Options, NewFails(x, o) PROVE TypeOK'
    BY <1>1, <1>5, SetupAssumption DEF NewFails, SetsPrefix, Flip, TypeOK
  <1>6. ASSUME NEW x \in Exporters, NEW n \in 1 .. MaxBatch, WithCustomCollectors(x, n)
        PROVE  TypeOK'
    <2> DEFINE E(cs) == [opts |-> exp[x].opts, self |-> exp[x].self,
                         files |-> exp[x].files \o <<>>, collectors |-> exp[x].collectors \o cs]
    <2>1. PICK cs \in Seq(CollectorSet) : exp' = [exp EXCEPT ![x] = E(cs)]
      BY <1>6, CustomIs
    <2>2. E(cs) \in ExporterSet
      <3>1. exp[x] \in ExporterSet
        BY <1>6, CustomIs
      <3>2. <<>> \in Seq(Files)
        OBVIOUS
      <3>3. QED BY <3>1, <3>2, ExtendedTyped
    <2>3. UNCHANGED <<prefix, self, failed, registry, refused>>
      BY <1>6, CustomIs
    <2> HIDE DEF E
    <2>4. QED BY <1>2, <2>1, <2>2, <2>3 DEF TypeOK
  <1>7. ASSUME NEW x \in Exporters, NEW f \in Files, ExtendFromYAMLFile(x, f) PROVE TypeOK'
    <2> DEFINE E(cs) == [opts |-> exp[x].opts, self |-> exp[x].self,
                         files |-> exp[x].files \o <<f>>, collectors |-> exp[x].collectors \o cs]
    <2>1. PICK cs \in Seq(CollectorSet) : exp' = [exp EXCEPT ![x] = E(cs)]
      BY <1>7, ExtendIs
    <2>2. E(cs) \in ExporterSet
      <3>1. exp[x] \in ExporterSet
        BY <1>7, ExtendIs
      <3>2. <<f>> \in Seq(Files)
        OBVIOUS
      <3>3. QED BY <3>1, <3>2, ExtendedTyped
    <2>3. UNCHANGED <<prefix, self, failed, registry, refused>>
      BY <1>7, ExtendIs
    <2> HIDE DEF E
    <2>4. QED BY <1>2, <2>1, <2>2, <2>3 DEF TypeOK
  <1>8. ASSUME NEW x \in Exporters, Register(x) PROVE TypeOK'
    <2>1. UNCHANGED <<prefix, self, exp, failed>> /\ refused' \subseteq Exporters /\ exp[x] # None
      BY <1>8 DEF Register, TypeOK
    <2>2. registry' = registry \/ registry' = [registry EXCEPT ![x] = exp[x]]
      BY <1>8 DEF Register
    <2>3. QED BY <2>1, <2>2 DEF TypeOK, Made
  <1>9. CASE UNCHANGED vars
    BY <1>1, <1>9 DEF vars, TypeOK
  <1>10. QED BY <1>3, <1>4, <1>5, <1>6, <1>7, <1>8, <1>9 DEF Next

(* The prefixes, the options, names and specs of every exporter and of what *)
(* is registered stay of their types, and only what was made is registered. *)
THEOREM TypeCorrect == Spec => []TypeOK
  <1>1. Init => TypeOK
    BY DEF Init, TypeOK, MetricPrefixes, Default
  <1>2. QED BY <1>1, TypeStep, PTL DEF Spec
-------------------------------------------------------------------------------
(* The files.                                                               *)

Starts(cs, files) == [DOMAIN files -> 0 .. Len(cs)]

(* Where an element of a concatenation comes from.                          *)
LEMMA ConcatAt ==
  ASSUME NEW S, NEW s \in Seq(S), NEW t \in Seq(S)
  PROVE  /\ DOMAIN (s \o t) = 1 .. Len(s) + Len(t) /\ DOMAIN s = 1 .. Len(s)
         /\ Len(s) \in Nat /\ Len(t) \in Nat /\ Len(s \o t) = Len(s) + Len(t)
         /\ \A i \in 1 .. Len(s) : (s \o t)[i] = s[i]
         /\ \A i \in (Len(s) + 1) .. (Len(s) + Len(t)) :
               i - Len(s) \in 1 .. Len(t) /\ (s \o t)[i] = t[i - Len(s)]
  OBVIOUS

(* The pieces stay where they are when collectors are appended.             *)
LEMMA PieceInside ==
  ASSUME NEW cs, NEW files, NEW start, Pieces(cs, files, start),
         NEW k \in DOMAIN files, NEW i, i - start[k] \in DOMAIN files[k],
         i \in Int, start[k] \in Int
  PROVE  i \in DOMAIN cs
  <1>1. start[k] + (i - start[k]) = i
    OBVIOUS
  <1>2. start[k] + (i - start[k]) \in DOMAIN cs
    BY DEF Pieces
  <1>3. QED BY <1>1, <1>2

(* WithCustomCollectors appends collectors that no file names.              *)
LEMMA PiecesKeep ==
  ASSUME NEW S, NEW cs \in Seq(S), NEW ds \in Seq(S), NEW files \in Seq(Files),
         NEW start \in Starts(cs, files), Pieces(cs, files, start),
         \A i \in 1 .. Len(ds) : ~IsSpec(ds[i])
  PROVE  start \in Starts(cs \o ds, files) /\ Pieces(cs \o ds, files, start)
  <1> DEFINE es == cs \o ds
  <1>1. /\ DOMAIN es = 1 .. Len(cs) + Len(ds) /\ DOMAIN cs = 1 .. Len(cs)
        /\ Len(cs) \in Nat /\ Len(ds) \in Nat /\ Len(es) = Len(cs) + Len(ds)
        /\ \A i \in 1 .. Len(cs) : es[i] = cs[i]
        /\ \A i \in (Len(cs) + 1) .. (Len(cs) + Len(ds)) :
              i - Len(cs) \in 1 .. Len(ds) /\ es[i] = ds[i - Len(cs)]
    BY ConcatAt, Zenon
  <1> HIDE DEF es
  <1>2. \A k \in DOMAIN files : start[k] \in 0 .. Len(cs)
    BY DEF Starts
  <1>3. start \in Starts(es, files)
    <2>1. 0 .. Len(cs) \subseteq 0 .. Len(es)
      BY <1>1
    <2>2. QED BY <2>1 DEF Starts
  <1>4. \A k \in DOMAIN files : \A j \in DOMAIN files[k] :
           start[k] + j \in DOMAIN es /\ es[start[k] + j].spec = files[k][j]
    BY <1>1 DEF Pieces
  <1>5. ASSUME NEW i \in DOMAIN es
        PROVE  IsSpec(es[i]) <=> \E k \in DOMAIN files : i - start[k] \in DOMAIN files[k]
    <2>1. CASE i \in 1 .. Len(cs)
      BY <1>1, <2>1 DEF Pieces
    <2>2. CASE i \in (Len(cs) + 1) .. (Len(cs) + Len(ds))
      <3>1. ~IsSpec(es[i])
        BY <1>1, <2>2
      <3>2. ASSUME NEW k \in DOMAIN files, i - start[k] \in DOMAIN files[k] PROVE FALSE
        <4>1. i \in Int /\ start[k] \in Int
          BY <1>2, <2>2, <1>1
        <4>2. i \in DOMAIN cs
          BY <3>2, <4>1, PieceInside, Zenon
        <4>3. QED BY <4>2, <2>2, <1>1
      <3>3. QED BY <3>1, <3>2
    <2>3. QED BY <1>1, <2>1, <2>2
  <1>6. QED BY <1>3, <1>4, <1>5 DEF Pieces, es

(* A file that is loaded is the last piece.                                 *)
LEMMA PieceAdded ==
  ASSUME NEW S, NEW cs \in Seq(S), NEW ds \in Seq(S), NEW files \in Seq(Files), NEW f \in Files,
         NEW start \in Starts(cs, files), Pieces(cs, files, start),
         Len(ds) = Len(f), \A i \in 1 .. Len(f) : IsSpec(ds[i]) /\ ds[i].spec = f[i]
  PROVE  \E st \in Starts(cs \o ds, files \o <<f>>) : Pieces(cs \o ds, files \o <<f>>, st)
  <1> DEFINE es == cs \o ds
             gs == files \o <<f>>
             n  == Len(files)
             st == [k \in 1 .. n + 1 |-> IF k = n + 1 THEN Len(cs) ELSE start[k]]
  <1>1. /\ DOMAIN es = 1 .. Len(cs) + Len(ds) /\ DOMAIN cs = 1 .. Len(cs)
        /\ Len(cs) \in Nat /\ Len(ds) \in Nat /\ Len(es) = Len(cs) + Len(ds)
        /\ \A i \in 1 .. Len(cs) : es[i] = cs[i]
        /\ \A i \in (Len(cs) + 1) .. (Len(cs) + Len(ds)) :
              i - Len(cs) \in 1 .. Len(ds) /\ es[i] = ds[i - Len(cs)]
    BY ConcatAt, Zenon
  <1>2. /\ n \in Nat /\ DOMAIN files = 1 .. n /\ DOMAIN gs = 1 .. n + 1
        /\ \A k \in 1 .. n : gs[k] = files[k] /\ files[k] \in Files
        /\ gs[n + 1] = f
    OBVIOUS
  <1>3. Len(f) \in Nat /\ DOMAIN f = 1 .. Len(f)
    BY FileFacts
  <1>4. \A k \in 1 .. n : /\ Len(files[k]) \in Nat /\ DOMAIN files[k] = 1 .. Len(files[k])
                          /\ start[k] \in 0 .. Len(cs)
    BY <1>2, FileFacts DEF Starts
  <1>5. /\ st[n + 1] = Len(cs) /\ \A k \in 1 .. n : st[k] = start[k]
        /\ st \in [1 .. n + 1 -> 0 .. Len(es)]
    <2>1. Len(cs) \in 0 .. Len(es) /\ \A k \in 1 .. n : start[k] \in 0 .. Len(es)
      BY <1>1, <1>4
    <2> HIDE DEF es, gs, n
    <2>2. st[n + 1] = Len(cs) /\ \A k \in 1 .. n : st[k] = start[k]
      BY <1>2
    <2>3. \A k \in 1 .. n + 1 : st[k] \in 0 .. Len(es)
      BY <1>2, <2>1, <2>2
    <2>4. QED BY <2>2, <2>3
  <1> HIDE DEF es, gs, n, st
  <1>6. ASSUME NEW k \in 1 .. n + 1, NEW j \in DOMAIN gs[k]
        PROVE  st[k] + j \in DOMAIN es /\ es[st[k] + j].spec = gs[k][j]
    <2>1. CASE k = n + 1
      <3>1. j \in 1 .. Len(f) /\ st[k] = Len(cs)
        BY <1>2, <1>3, <1>5, <1>6, <2>1
      <3>2. Len(cs) + j \in (Len(cs) + 1) .. (Len(cs) + Len(ds)) /\ (Len(cs) + j) - Len(cs) = j
        BY <1>1, <1>3, <3>1
      <3>3. es[Len(cs) + j] = ds[j] /\ Len(cs) + j \in DOMAIN es
        BY <1>1, <3>2
      <3>4. QED BY <1>2, <2>1, <3>1, <3>3
    <2>2. CASE k \in 1 .. n
      <3>1. j \in DOMAIN files[k] /\ gs[k] = files[k] /\ st[k] = start[k]
        BY <1>2, <1>5, <1>6, <2>2
      <3>2. start[k] + j \in DOMAIN cs /\ cs[start[k] + j].spec = files[k][j]
        BY <1>2, <2>2, <3>1 DEF Pieces
      <3>3. QED BY <1>1, <3>1, <3>2
    <2>3. QED BY <1>2, <2>1, <2>2
  <1>7. ASSUME NEW k \in 1 .. n + 1, NEW l \in 1 .. n + 1, k < l
        PROVE  st[k] + Len(gs[k]) <= st[l]
    <2>1. k \in 1 .. n
      BY <1>2, <1>7
    <2>2. CASE l \in 1 .. n
      BY <1>2, <1>5, <1>7, <2>1, <2>2 DEF Pieces
    <2>3. CASE l = n + 1
      <3>1. st[l] = Len(cs) /\ st[k] = start[k] /\ gs[k] = files[k]
        BY <1>2, <1>5, <2>1, <2>3
      <3>2. start[k] + Len(files[k]) <= Len(cs)
        <4>1. CASE Len(files[k]) = 0
          BY <1>1, <1>4, <2>1, <4>1
        <4>2. CASE Len(files[k]) # 0
          <5>1. Len(files[k]) \in DOMAIN files[k]
            BY <1>4, <2>1, <4>2
          <5>2. start[k] + Len(files[k]) \in DOMAIN cs
            BY <1>2, <2>1, <5>1 DEF Pieces
          <5>3. QED BY <1>1, <5>2
        <4>3. QED BY <4>1, <4>2
      <3>3. QED BY <3>1, <3>2
    <2>4. QED BY <1>2, <2>2, <2>3
  <1>8. ASSUME NEW i \in DOMAIN es
        PROVE  IsSpec(es[i]) <=> \E k \in 1 .. n + 1 : i - st[k] \in DOMAIN gs[k]
    <2>1. CASE i \in 1 .. Len(cs)
      <3>1. IsSpec(es[i]) <=> \E k \in 1 .. n : i - start[k] \in DOMAIN files[k]
        BY <1>1, <1>2, <2>1 DEF Pieces
      <3>2. i - st[n + 1] \notin DOMAIN gs[n + 1]
        BY <1>1, <1>2, <1>3, <1>5, <2>1
      <3>3. \A k \in 1 .. n : i - st[k] \in DOMAIN gs[k] <=> i - start[k] \in DOMAIN files[k]
        BY <1>2, <1>5
      <3>4. \A k \in 1 .. n + 1 : k \in 1 .. n \/ k = n + 1
        BY <1>2
      <3>5. \A k \in 1 .. n : k \in 1 .. n + 1
        BY <1>2
      <3>6. QED BY <3>1, <3>2, <3>3, <3>4, <3>5
    <2>2. CASE i \in (Len(cs) + 1) .. (Len(cs) + Len(ds))
      <3>1. IsSpec(es[i])
        BY <1>1, <2>2
      <3>2. i - st[n + 1] \in DOMAIN gs[n + 1]
        BY <1>1, <1>2, <1>3, <1>5, <2>2
      <3>3. n + 1 \in 1 .. n + 1
        BY <1>2
      <3>4. QED BY <3>1, <3>2, <3>3
    <2>3. QED BY <1>1, <2>1, <2>2
  <1>9. Pieces(es, gs, st)
    BY <1>2, <1>6, <1>7, <1>8 DEF Pieces
  <1>10. st \in Starts(es, gs)
    BY <1>2, <1>5 DEF Starts
  <1>11. QED BY <1>9, <1>10 DEF es, gs

WholeIn(e) == \E start \in Starts(e.collectors, e.files) : Pieces(e.collectors, e.files, start)

Whole == \A x \in Exporters : x \in Made => WholeIn(exp[x])

LEMMA WholeStep == TypeOK /\ Whole /\ [Next]_vars => Whole'
  <1> SUFFICES ASSUME TypeOK, Whole, [Next]_vars PROVE Whole'
    OBVIOUS
  <1>1. ASSUME UNCHANGED exp PROVE Whole'
    BY <1>1 DEF Whole, Made
  <1>2. ASSUME NEW x \in Exporters, NEW e, WholeIn(e), exp' = [exp EXCEPT ![x] = e]
        PROVE  Whole'
    <2>1. \A y \in Exporters : exp'[y] = IF y = x THEN e ELSE exp[y]
      BY <1>2 DEF TypeOK
    <2>2. QED BY <1>2, <2>1 DEF Whole, Made
  <1>3. ASSUME NEW x \in Exporters, NEW o \in Options, New(x, o) PROVE Whole'
    <2> DEFINE E(cs) == [opts |-> o, self |-> self', files |-> <<>>, collectors |-> cs]
    <2>1. PICK cs \in Seq(CollectorSet) : /\ \A c \in Range(cs) : IsBuiltIn(c)
                                          /\ exp' = [exp EXCEPT ![x] = E(cs)]
      BY <1>3, NewIs
    <2>2. Pieces(cs, <<>>, <<>>) /\ <<>> \in Starts(cs, <<>>)
      <3>1. \A i \in DOMAIN cs : ~IsSpec(cs[i])
        BY <2>1 DEF Range, IsBuiltIn, IsSpec
      <3>2. QED BY <3>1 DEF Pieces, Starts
    <2>3. WholeIn(E(cs))
      BY <2>2 DEF WholeIn
    <2> HIDE DEF E
    <2>4. QED BY <1>2, <2>1, <2>3
  <1>4. ASSUME NEW x \in Exporters, NEW n \in 1 .. MaxBatch, WithCustomCollectors(x, n)
        PROVE  Whole'
    <2> DEFINE E(cs) == [opts |-> exp[x].opts, self |-> exp[x].self,
                         files |-> exp[x].files \o <<>>, collectors |-> exp[x].collectors \o cs]
    <2>1. PICK cs \in Seq(CollectorSet) : /\ \A i \in 1 .. Len(cs) : ~IsSpec(cs[i])
                                          /\ exp' = [exp EXCEPT ![x] = E(cs)]
      BY <1>4, CustomIs
    <2>2. exp[x].files \in Seq(Files) /\ exp[x].collectors \in Seq(CollectorSet)
      BY <1>4, CustomIs DEF ExporterSet
    <2>3. WholeIn(exp[x])
      BY <1>4 DEF Whole, Made, WithCustomCollectors
    <2>4. exp[x].files \o <<>> = exp[x].files
      BY <2>2
    <2>5. WholeIn(E(cs))
      BY <2>1, <2>2, <2>3, <2>4, PiecesKeep DEF WholeIn
    <2> HIDE DEF E
    <2>6. QED BY <1>2, <2>1, <2>5
  <1>5. ASSUME NEW x \in Exporters, NEW f \in Files, ExtendFromYAMLFile(x, f) PROVE Whole'
    <2> DEFINE E(cs) == [opts |-> exp[x].opts, self |-> exp[x].self,
                         files |-> exp[x].files \o <<f>>, collectors |-> exp[x].collectors \o cs]
    <2>1. PICK cs \in Seq(CollectorSet) :
             /\ Len(cs) = Len(f)
             /\ \A i \in 1 .. Len(f) : IsSpec(cs[i]) /\ cs[i].spec = f[i]
             /\ exp' = [exp EXCEPT ![x] = E(cs)]
      BY <1>5, ExtendIs
    <2>2. exp[x].files \in Seq(Files) /\ exp[x].collectors \in Seq(CollectorSet)
      BY <1>5, ExtendIs DEF ExporterSet
    <2>3. WholeIn(exp[x])
      BY <1>5 DEF Whole, Made, ExtendFromYAMLFile
    <2>4. WholeIn(E(cs))
      BY <2>1, <2>2, <2>3, PieceAdded DEF WholeIn
    <2> HIDE DEF E
    <2>5. QED BY <1>2, <2>1, <2>4
  <1>6. ASSUME NEW x \in Exporters, Register(x) PROVE Whole'
    BY <1>1, <1>6 DEF Register
  <1>7. ASSUME NEW x \in Exporters, NEW o \in Options, NewFails(x, o) PROVE Whole'
    BY <1>1, <1>7 DEF NewFails
  <1>8. ASSUME NEW p \in MetricPrefixes \cup {""}, SetMetricPrefix(p) PROVE Whole'
    BY <1>1, <1>8 DEF SetMetricPrefix
  <1>9. CASE UNCHANGED vars BY <1>1, <1>9 DEF vars
  <1>10. QED BY <1>3, <1>4, <1>5, <1>6, <1>7, <1>8, <1>9 DEF Next

(* Every exporter has the specs of exactly the files whose load returned    *)
(* nil, whole and in their order, and nothing of the others: toInternal     *)
(* accepts no spec that NewSpecCollector panics on.                         *)
THEOREM FilesLoadedWhole == Spec => []FilesWhole
  <1>1. Init => Whole
    BY DEF Init, Whole, Made
  <1>2. Whole => FilesWhole
    BY DEF Whole, WholeIn, Starts, FilesWhole, Made
  <1>3. QED BY <1>1, <1>2, WholeStep, TypeCorrect, PTL DEF Spec
-------------------------------------------------------------------------------
(* The names of the metrics.                                                *)

LEMMA EntryOf ==
  ASSUME NEW n \in Entries
  PROVE  /\ n.name \in Known
         /\ EntryNamed(n.name) = n
  <1>1. DOMAIN CollectorRegistry = 1 .. 27
    BY SMTT(60) DEF CollectorRegistry
  <1>2. \A d, e \in Entries : d.name = e.name => d = e
    BY <1>1, NamesDiffer DEF Entries, Range
  <1>3. n.name \in Known
    BY DEF Known, Entries
  <1>4. QED BY <1>2, <1>3 DEF Entries, EntryNamed

(* What a built-in collector describes are the vectors of its entry.        *)
LEMMA BuiltInVecs ==
  ASSUME NEW n \in Entries, NEW p \in MetricPrefixes
  PROVE  CollectorDescs(Collector(<<"builtin", n.name>>, p, None)) = VecDescs(p, n.vecs)
  <1> DEFINE c == Collector(<<"builtin", n.name>>, p, None)
  <1>1. c.name[1] = "builtin" /\ c.name[2] = n.name /\ c.prefix = p
    BY CollectorFields
  <1>2. BuiltInDescs[p][n.name] = VecDescs(p, n.vecs)
    BY EntryOf DEF BuiltInDescs
  <1> HIDE DEF c
  <1>3. CollectorDescs(c) = BuiltInDescs[p][n.name]
    BY <1>1 DEF CollectorDescs
  <1>4. QED BY <1>2, <1>3 DEF c

LEMMA SelfMetrics == \A e : Names(SelfDescs(e)) = SelfNames(e.self)
  <1> SUFFICES ASSUME NEW e PROVE Names(SelfDescs(e)) = SelfNames(e.self)
    OBVIOUS
  <1> DEFINE const == IF e.opts.name = "" THEN {} ELSE {<<"database", e.opts.name>>}
             D(v)  == Desc(SelfName(e.self, v), const, v.labels)
  <1>1. \A v : D(v).fq = SelfName(e.self, v)
    BY DEF Desc
  <1>2. SelfDescs(e) = {D(v) : v \in SelfVecs}
    BY DEF SelfDescs
  <1> HIDE DEF D
  <1>3. QED BY <1>1, <1>2 DEF Names, SelfNames

(* The built-in collectors of an exporter are entries of the catalogue, all *)
(* under one prefix and none of them twice.                                 *)
FromEntry(c, p, n) == /\ c = Collector(<<"builtin", n.name>>, p, None)
                      /\ c.name = <<"builtin", n.name>>
                      /\ CollectorDescs(c) = VecDescs(p, n.vecs)

LEMMA BuiltInsAre ==
  ASSUME IInv, TypeOK, NEW x \in Made
  PROVE  /\ exp[x].collectors \in Seq(CollectorSet)
         /\ exp[x].self \in MetricPrefixes
         /\ Once(exp[x].collectors)
         /\ \E p \in MetricPrefixes :
               \A i \in DOMAIN exp[x].collectors :
                  IsBuiltIn(exp[x].collectors[i]) =>
                     \E n \in Entries : FromEntry(exp[x].collectors[i], p, n)
  <1> DEFINE cs == exp[x].collectors
  <1>1. AsNew(exp[x]) /\ exp[x].self \in MetricPrefixes /\ cs \in Seq(CollectorSet)
    <2>1. x \in Exporters /\ exp[x] # None
      BY DEF Made
    <2>2. exp[x] \in ExporterSet
      BY <2>1 DEF TypeOK
    <2>3. QED BY <2>1, <2>2 DEF IInv, ExporterSet
  <1>2. PICK p \in MetricPrefixes :
           {c \in Range(cs) : IsBuiltIn(c)} =
              {Collector(<<"builtin", n.name>>, p, None) :
                 n \in {m \in Entries : Wanted(m, exp[x].opts.enabled,
                                               exp[x].opts.disabled)}}
    BY <1>1 DEF AsNew
  <1>3. Once(cs)
    BY <1>1 DEF AsNew
  <1> HIDE DEF cs
  <1>4. ASSUME NEW i \in DOMAIN cs, IsBuiltIn(cs[i])
        PROVE  \E n \in Entries : FromEntry(cs[i], p, n)
    <2>1. cs[i] \in {c \in Range(cs) : IsBuiltIn(c)}
      BY <1>4 DEF Range
    <2>2. PICK n \in Entries : cs[i] = Collector(<<"builtin", n.name>>, p, None)
      BY <1>2, <2>1
    <2>3. cs[i].name = <<"builtin", n.name>>
      BY <2>2 DEF Collector
    <2>4. QED BY <2>2, <2>3, BuiltInVecs DEF FromEntry
  <1>5. QED BY <1>1, <1>3, <1>4 DEF cs

(* No two built-in collectors have a metric name in common, nor one and the *)
(* descriptors ds.                                                          *)
Apart(cs) == \A i, j \in DOMAIN cs :
                /\ i # j
                /\ IsBuiltIn(cs[i])
                /\ IsBuiltIn(cs[j])
                => Names(CollectorDescs(cs[i])) \cap Names(CollectorDescs(cs[j])) = {}

ApartFrom(cs, ds) == \A i \in DOMAIN cs :
                        IsBuiltIn(cs[i]) => Names(CollectorDescs(cs[i])) \cap Names(ds) = {}

LEMMA AllApart ==
  ASSUME MetricsApart, IInv, TypeOK, NEW x \in Made
  PROVE  /\ Apart(exp[x].collectors)
         /\ ApartFrom(exp[x].collectors, SelfDescs(exp[x]))
  <1> DEFINE cs == exp[x].collectors
  <1>1. Once(cs) /\ exp[x].self \in MetricPrefixes
    BY BuiltInsAre
  <1>2. PICK p \in MetricPrefixes :
           \A i \in DOMAIN cs : IsBuiltIn(cs[i]) => \E n \in Entries : FromEntry(cs[i], p, n)
    BY BuiltInsAre
  <1> HIDE DEF cs
  <1>3. ASSUME NEW i \in DOMAIN cs, NEW j \in DOMAIN cs, i # j,
               IsBuiltIn(cs[i]), IsBuiltIn(cs[j])
        PROVE  Names(CollectorDescs(cs[i])) \cap Names(CollectorDescs(cs[j])) = {}
    <2>1. PICK n \in Entries : FromEntry(cs[i], p, n)
      BY <1>2, <1>3
    <2>2. PICK m \in Entries : FromEntry(cs[j], p, m)
      BY <1>2, <1>3
    <2>3. n # m
      BY <1>1, <1>3, <2>1, <2>2 DEF Once, FromEntry, IsBuiltIn
    <2>4. Names(VecDescs(p, n.vecs)) \cap Names(VecDescs(p, m.vecs)) = {}
      BY <2>3 DEF MetricsApart, Entries
    <2>5. QED BY <2>1, <2>2, <2>4 DEF FromEntry
  <1>4. ASSUME NEW i \in DOMAIN cs, IsBuiltIn(cs[i])
        PROVE  Names(CollectorDescs(cs[i])) \cap Names(SelfDescs(exp[x])) = {}
    <2>1. PICK n \in Entries : FromEntry(cs[i], p, n)
      BY <1>2, <1>4
    <2>2. Names(VecDescs(p, n.vecs)) \cap SelfNames(exp[x].self) = {}
      BY <1>1 DEF MetricsApart, Entries
    <2>3. QED BY <2>1, <2>2, SelfMetrics DEF FromEntry
  <1>5. QED BY <1>3, <1>4 DEF Apart, ApartFrom, cs

(* Two collectors of an exporter that claimed one metric name would be two  *)
(* of the catalogue under one prefix, or one of it twice: with a catalogue  *)
(* whose names are apart, which a run checks of the 27 collectors, no       *)
(* exporter has such a pair, whatever its options, those of the exporters   *)
(* before it, and the calls between.                                        *)
THEOREM NeverClash ==
  ASSUME MetricsApart
  PROVE  Spec => []BuiltInsNeverClash
  <1>1. IInv /\ TypeOK => BuiltInsNeverClash
    <2> SUFFICES ASSUME IInv, TypeOK, NEW x \in Made
                 PROVE  LET cs       == exp[x].collectors
                            mine     == {i \in DOMAIN cs : cs[i].name[1] = "builtin"}
                            names(i) == Names(CollectorDescs(cs[i]))
                        IN  /\ \A i, j \in mine : i < j => names(i) \cap names(j) = {}
                            /\ \A i \in mine : names(i) \cap Names(SelfDescs(exp[x])) = {}
      BY DEF BuiltInsNeverClash
    <2> DEFINE cs == exp[x].collectors
    <2>1. Apart(cs) /\ ApartFrom(cs, SelfDescs(exp[x]))
      BY AllApart
    <2>2. DOMAIN cs \subseteq Nat
      BY BuiltInsAre
    <2> HIDE DEF cs
    <2>3. \A i, j \in DOMAIN cs : i < j => i # j
      BY <2>2
    <2>4. QED BY <2>1, <2>3 DEF Apart, ApartFrom, IsBuiltIn, cs
  <1>2. QED BY <1>1, Invariant, TypeCorrect, PTL

-------------------------------------------------------------------------------
(* What the registry is offered.                                            *)

LEMMA ImageFinite ==
  ASSUME NEW S, IsFiniteSet(S), NEW T, NEW f \in [S -> T], \A t \in T : \E s \in S : f[s] = t
  PROVE  IsFiniteSet(T)
  <1>1. f \in Surjection(S, T)
    BY DEF Surjection
  <1>2. QED BY <1>1, FS_Surjection

LEMMA VecsFinite ==
  ASSUME NEW p, NEW vecs, IsFiniteSet(vecs)
  PROVE  IsFiniteSet(VecDescs(p, vecs))
  <1> DEFINE f == [v \in vecs |-> Desc(FQName(p, v), {}, v.labels)]
  <1>1. /\ f \in [vecs -> VecDescs(p, vecs)]
        /\ \A d \in VecDescs(p, vecs) : \E v \in vecs : f[v] = d
    BY DEF VecDescs
  <1>2. QED BY <1>1, ImageFinite

LEMMA SelfFinite == \A e : IsFiniteSet(SelfDescs(e))
  <1> SUFFICES ASSUME NEW e PROVE IsFiniteSet(SelfDescs(e))
    OBVIOUS
  <1>1. IsFiniteSet(SelfVecs)
    <2>1. \A a, b, c, d, f : IsFiniteSet({a, b, c, d, f})
      <3> TAKE a, b, c, d, f
      <3>1. IsFiniteSet({a} \cup {b})                            BY FS_Singleton, FS_Union
      <3>2. IsFiniteSet(({a} \cup {b}) \cup {c})                 BY <3>1, FS_AddElement
      <3>3. IsFiniteSet((({a} \cup {b}) \cup {c}) \cup {d})      BY <3>2, FS_AddElement
      <3>4. IsFiniteSet(((({a} \cup {b}) \cup {c}) \cup {d}) \cup {f})
        BY <3>3, FS_AddElement
      <3>5. ((({a} \cup {b}) \cup {c}) \cup {d}) \cup {f} = {a, b, c, d, f}
        OBVIOUS
      <3>6. QED BY <3>4, <3>5
    <2>2. QED BY <2>1 DEF SelfVecs
  <1> DEFINE const == IF e.opts.name = "" THEN {} ELSE {<<"database", e.opts.name>>}
             f     == [v \in SelfVecs |-> Desc(SelfName(e.self, v), const, v.labels)]
  <1>2. /\ f \in [SelfVecs -> SelfDescs(e)]
        /\ \A d \in SelfDescs(e) : \E v \in SelfVecs : f[v] = d
    BY DEF SelfDescs
  <1> HIDE DEF f
  <1>3. QED BY <1>1, <1>2, ImageFinite

(* One set of label names for a name, of finitely many descriptors, is what *)
(* the registry asks.                                                       *)
LEMMA ConsistentIf ==
  ASSUME NEW ds, IsFiniteSet(ds), \A c, d \in ds : c.fq = d.fq => Dims(c) = Dims(d)
  PROVE  Consistent(ds)
  <1> DEFINE g == [d \in ds |-> <<d.fq, Dims(d)>>]
             f == [s \in Shapes(ds) |-> s[1]]
  <1>1. IsFiniteSet(Shapes(ds))
    <2>1. g \in [ds -> Shapes(ds)] /\ \A s \in Shapes(ds) : \E d \in ds : g[d] = s
      BY DEF Shapes
    <2> HIDE DEF g
    <2>2. QED BY <2>1, ImageFinite
  <1>2. \A s \in Shapes(ds) : \E d \in ds : s = <<d.fq, Dims(d)>>
    BY DEF Shapes
  <1>3. \A d \in ds : <<d.fq, Dims(d)>> \in Shapes(ds) /\ d.fq \in Names(ds)
    BY DEF Shapes, Names
  <1>4. \A n \in Names(ds) : \E d \in ds : n = d.fq
    BY DEF Names
  <1>5. f \in [Shapes(ds) -> Names(ds)]
    BY <1>2, <1>3
  <1>6. \A s \in Shapes(ds) : f[s] = s[1]
    OBVIOUS
  <1> HIDE DEF f
  <1>7. \A n \in Names(ds) : \E s \in Shapes(ds) : f[s] = n
    <2> SUFFICES ASSUME NEW n \in Names(ds) PROVE \E s \in Shapes(ds) : f[s] = n
      OBVIOUS
    <2>1. PICK d \in ds : n = d.fq
      BY <1>4
    <2>2. f[<<d.fq, Dims(d)>>] = d.fq
      BY <1>3, <1>6
    <2>3. QED BY <1>3, <2>1, <2>2
  <1>8. \A s, t \in Shapes(ds) : f[s] = f[t] => s = t
    <2> SUFFICES ASSUME NEW s \in Shapes(ds), NEW t \in Shapes(ds), f[s] = f[t] PROVE s = t
      OBVIOUS
    <2>1. PICK c \in ds : s = <<c.fq, Dims(c)>>
      BY <1>2
    <2>2. PICK d \in ds : t = <<d.fq, Dims(d)>>
      BY <1>2
    <2>3. c.fq = d.fq
      BY <1>6, <2>1, <2>2
    <2>4. QED BY <2>1, <2>2, <2>3
  <1>9. f \in Surjection(Shapes(ds), Names(ds))
    BY <1>5, <1>7 DEF Surjection
  <1>10. f \in Injection(Shapes(ds), Names(ds))
    BY <1>5, <1>8 DEF Injection, IsInjective
  <1>11. QED BY <1>1, <1>9, <1>10, FS_Surjection DEF Consistent

LEMMA OneEach ==
  ASSUME MetricsApart
  PROVE  /\ \A p \in MetricPrefixes, n \in Entries :
               \A c, d \in VecDescs(p, n.vecs) : c.fq = d.fq => c = d
         /\ \A e : e.self \in MetricPrefixes =>
               \A c, d \in SelfDescs(e) : c.fq = d.fq => c = d
  <1>1. ASSUME NEW p \in MetricPrefixes, NEW n \in Entries, NEW c \in VecDescs(p, n.vecs),
               NEW d \in VecDescs(p, n.vecs), c.fq = d.fq
        PROVE  c = d
    <2>1. PICK v \in n.vecs : c = Desc(FQName(p, v), {}, v.labels)
      BY DEF VecDescs
    <2>2. PICK w \in n.vecs : d = Desc(FQName(p, w), {}, w.labels)
      BY DEF VecDescs
    <2>3. FQName(p, v) = FQName(p, w)
      BY <1>1, <2>1, <2>2 DEF Desc
    <2>4. v = w
      BY <2>3 DEF MetricsApart, Entries
    <2>5. QED BY <2>1, <2>2, <2>4
  <1>2. ASSUME NEW e, e.self \in MetricPrefixes, NEW c \in SelfDescs(e),
               NEW d \in SelfDescs(e), c.fq = d.fq
        PROVE  c = d
    <2> DEFINE const == IF e.opts.name = "" THEN {} ELSE {<<"database", e.opts.name>>}
    <2>1. PICK v \in SelfVecs : c = Desc(SelfName(e.self, v), const, v.labels)
      BY DEF SelfDescs
    <2>2. PICK w \in SelfVecs : d = Desc(SelfName(e.self, w), const, w.labels)
      BY DEF SelfDescs
    <2> HIDE DEF const
    <2>3. SelfName(e.self, v) = SelfName(e.self, w)
      BY <1>2, <2>1, <2>2 DEF Desc
    <2>4. v = w
      BY <1>2, <2>3 DEF MetricsApart
    <2>5. QED BY <2>1, <2>2, <2>4
  <1>3. QED BY <1>1, <1>2

LEMMA AddedFinite ==
  /\ \A c \in Customs : IsFiniteSet(c.descs)
  /\ \A s \in Specs : IsFiniteSet(SpecVecs(s))
  <1>1. ASSUME NEW s \in Specs PROVE IsFiniteSet(SpecVecs(s))
    <2>1. IsFiniteSet(s.gauges) /\ IsFiniteSet(s.counters)
      BY AddedAssumption DEF Specs
    <2> DEFINE ns == IF s.namespace = "" THEN "stat" ELSE s.namespace
               ls == {"database"} \cup s.labels
               G(n) == [ns |-> ns, sub |-> s.subsystem, name |-> n, labels |-> ls,
                        kind |-> "gauge"]
               C(n) == [ns |-> ns, sub |-> s.subsystem, name |-> n, labels |-> ls,
                        kind |-> "counter"]
               gs == {G(n) : n \in s.gauges}
               cs == {C(n) : n \in s.counters}
    <2>2. SpecVecs(s) = gs \cup cs
      BY DEF SpecVecs, Vecs
    <2> HIDE DEF G, C
    <2>3. IsFiniteSet(gs)
      <3> DEFINE f == [n \in s.gauges |-> G(n)]
      <3>1. f \in [s.gauges -> gs] /\ \A g \in gs : \E n \in s.gauges : f[n] = g
        OBVIOUS
      <3> HIDE DEF f, gs
      <3>2. QED BY <2>1, <3>1, ImageFinite
    <2>4. IsFiniteSet(cs)
      <3> DEFINE f == [n \in s.counters |-> C(n)]
      <3>1. f \in [s.counters -> cs] /\ \A g \in cs : \E n \in s.counters : f[n] = g
        OBVIOUS
      <3> HIDE DEF f, cs
      <3>2. QED BY <2>1, <3>1, ImageFinite
    <2> HIDE DEF gs, cs
    <2>5. QED BY <2>2, <2>3, <2>4, FS_Union
  <1>2. QED BY <1>1, AddedAssumption

(* The collectors a program adds, custom ones and those of specs, use a     *)
(* metric name of another collector or of the self-metrics, or one of their *)
(* own twice, only with the same label names.                               *)
AddedFit(x) ==
    \A c \in Range(exp[x].collectors) : ~IsBuiltIn(c) =>
        \A d \in CollectorDescs(c), e \in Describe(exp[x]) : d.fq = e.fq => Dims(d) = Dims(e)

FirstAccepted ==
    \A x \in Made : AddedFit(x) /\ Registered = {} => Accepts(Describe(exp[x]))

(* exporter.go:214-215, which panics when the registry refuses: Register    *)
(* never does for the first exporter of a process unless a collector that   *)
(* was added to it (by WithCustomCollectors or from a YAML file) describes  *)
(* a metric name that is in use with other label names (or help).  Nothing  *)
(* else can make it panic: not the options, nor the other exporters that    *)
(* were built.                                                              *)
THEOREM FirstRegisters ==
  ASSUME MetricsApart
  PROVE  Spec => []FirstAccepted
  <1>1. IInv /\ TypeOK => FirstAccepted
    <2> SUFFICES ASSUME IInv, TypeOK, NEW x \in Made, AddedFit(x), Registered = {}
                 PROVE  Accepts(Describe(exp[x]))
      BY DEF FirstAccepted
    <2> DEFINE cs   == exp[x].collectors
               own  == SelfDescs(exp[x])
               of   == [i \in DOMAIN cs |-> CollectorDescs(cs[i])]
               all  == {CollectorDescs(c) : c \in Range(cs)}
    <2>1. /\ cs \in Seq(CollectorSet) /\ exp[x].self \in MetricPrefixes
          /\ DOMAIN cs = 1 .. Len(cs) /\ Len(cs) \in Nat
      BY BuiltInsAre
    <2>2. PICK p \in MetricPrefixes :
             \A i \in DOMAIN cs : IsBuiltIn(cs[i]) => \E n \in Entries : FromEntry(cs[i], p, n)
      BY BuiltInsAre
    <2>3. Apart(cs) /\ ApartFrom(cs, own)
      BY AllApart
    <2>4. \A i \in DOMAIN cs : ~IsBuiltIn(cs[i]) =>
             \A d \in CollectorDescs(cs[i]), e \in Describe(exp[x]) :
                d.fq = e.fq => Dims(d) = Dims(e)
      BY DEF AddedFit, Range
    <2>5. Describe(exp[x]) = own \cup UNION all
      BY DEF Describe
    <2>6. /\ of \in [DOMAIN cs -> all] /\ \A D \in all : \E i \in DOMAIN cs : of[i] = D
          /\ \A i \in DOMAIN cs : of[i] = CollectorDescs(cs[i])
      BY DEF Range
    <2> HIDE DEF cs, own, of, all
    <2>7. \A i \in DOMAIN cs : IsFiniteSet(CollectorDescs(cs[i]))
      <3> SUFFICES ASSUME NEW i \in DOMAIN cs PROVE IsFiniteSet(CollectorDescs(cs[i]))
        OBVIOUS
      <3>1. CASE IsBuiltIn(cs[i])
        <4>1. PICK n \in Entries : FromEntry(cs[i], p, n)
          BY <2>2, <3>1
        <4>2. IsFiniteSet(n.vecs)
          BY CatalogAssumption DEF Entries
        <4>3. QED BY <4>1, <4>2, VecsFinite DEF FromEntry
      <3>2. CASE ~IsBuiltIn(cs[i])
        <4>1. cs[i] \in CollectorSet
          BY <2>1
        <4>2. CASE IsSpec(cs[i])
          <5>1. cs[i].spec \in Specs
            BY <4>1, <4>2 DEF CollectorSet, IsSpec
          <5>2. CollectorDescs(cs[i]) = VecDescs(cs[i].prefix, SpecVecs(cs[i].spec))
            BY <4>2 DEF CollectorDescs, IsSpec
          <5>3. QED BY <5>1, <5>2, AddedFinite, VecsFinite
        <4>3. CASE ~IsSpec(cs[i])
          <5>1. cs[i].spec \in Customs
            BY <3>2, <4>1, <4>3 DEF CollectorSet, IsSpec, IsBuiltIn
          <5>2. CollectorDescs(cs[i]) = cs[i].spec.descs
            BY <3>2, <4>3 DEF CollectorDescs, IsSpec, IsBuiltIn
          <5>3. QED BY <5>1, <5>2, AddedFinite
        <4>4. QED BY <4>2, <4>3
      <3>3. QED BY <3>1, <3>2
    <2>8. IsFiniteSet(Describe(exp[x]))
      <3>1. IsFiniteSet(1 .. Len(cs))
        BY <2>1, FS_Interval
      <3>2. IsFiniteSet(all)
        BY <2>1, <2>6, <3>1, ImageFinite
      <3>3. \A D \in all : IsFiniteSet(D)
        BY <2>6, <2>7
      <3>4. IsFiniteSet(UNION all)
        BY <3>2, <3>3, FS_UNION
      <3>5. IsFiniteSet(own)
        BY SelfFinite DEF own
      <3>6. QED BY <2>5, <3>4, <3>5, FS_Union
    <2>9. ASSUME NEW d \in Describe(exp[x])
          PROVE  d \in own \/ \E i \in DOMAIN cs : d \in CollectorDescs(cs[i])
      <3>1. d \in own \/ \E D \in all : d \in D
        BY <2>5, <2>9
      <3>2. QED BY <2>6, <3>1
    <2>10. \A i \in DOMAIN cs : \A c, d :
              IsBuiltIn(cs[i]) /\ c \in CollectorDescs(cs[i]) /\ d \in own => c.fq # d.fq
      BY <2>3 DEF ApartFrom, Names
    <2>11. ASSUME NEW c \in Describe(exp[x]), NEW d \in Describe(exp[x]), c.fq = d.fq
           PROVE  Dims(c) = Dims(d)
      <3> DEFINE BuiltIn(e) == e \in own
                               \/ \E i \in DOMAIN cs : /\ IsBuiltIn(cs[i])
                                                       /\ e \in CollectorDescs(cs[i])
      <3>1. CASE ~BuiltIn(c)
        <4>1. PICK i \in DOMAIN cs : c \in CollectorDescs(cs[i]) /\ ~IsBuiltIn(cs[i])
          BY <2>9, <3>1
        <4>2. QED BY <2>4, <2>11, <4>1
      <3>2. CASE ~BuiltIn(d)
        <4>1. PICK i \in DOMAIN cs : d \in CollectorDescs(cs[i]) /\ ~IsBuiltIn(cs[i])
          BY <2>9, <3>2
        <4>2. QED BY <2>4, <2>11, <4>1
      <3>3. CASE BuiltIn(c) /\ BuiltIn(d)
        <4>1. CASE c \in own /\ d \in own
          BY <2>1, <2>11, <4>1, OneEach DEF own
        <4>2. CASE c \in own /\ d \notin own
          BY <2>10, <2>11, <3>3, <4>2
        <4>3. CASE c \notin own /\ d \in own
          BY <2>10, <2>11, <3>3, <4>3
        <4>4. CASE c \notin own /\ d \notin own
          <5>1. PICK i \in DOMAIN cs : IsBuiltIn(cs[i]) /\ c \in CollectorDescs(cs[i])
            BY <3>3, <4>4
          <5>2. PICK j \in DOMAIN cs : IsBuiltIn(cs[j]) /\ d \in CollectorDescs(cs[j])
            BY <3>3, <4>4
          <5>3. i = j
            <6> SUFFICES ASSUME i # j PROVE FALSE
              OBVIOUS
            <6>1. Names(CollectorDescs(cs[i])) \cap Names(CollectorDescs(cs[j])) = {}
              BY <2>3, <5>1, <5>2 DEF Apart
            <6>2. QED BY <2>11, <5>1, <5>2, <6>1 DEF Names
          <5>4. PICK n \in Entries : FromEntry(cs[i], p, n)
            BY <2>2, <5>1
          <5>5. QED BY <2>11, <5>1, <5>2, <5>3, <5>4, OneEach DEF FromEntry
        <4>5. QED BY <4>1, <4>2, <4>3, <4>4
      <3>4. QED BY <3>1, <3>2, <3>3
    <2>12. Consistent(Describe(exp[x]))
      BY <2>8, <2>11, ConsistentIf
    <2>13. Describe(exp[x]) \cup Registered = Describe(exp[x]) /\ Ids(Registered) = {}
      BY DEF Ids
    <2>14. QED BY <2>12, <2>13 DEF Accepts
  <1>2. QED BY <1>1, Invariant, TypeCorrect, PTL

-------------------------------------------------------------------------------
(* The names of the collectors.                                             *)

(* The number in the name of a custom collector is the number of the        *)
(* collectors before it.                                                    *)
IsCustom(c) == c.name[1] = "custom"

PlacedIn(cs) == \A i \in DOMAIN cs : IsCustom(cs[i]) => cs[i].name = <<"custom", i - 1>>

Placed == \A x \in Exporters : x \in Made => PlacedIn(exp[x].collectors)

LEMMA PlacedAppended ==
  ASSUME NEW S, NEW cs \in Seq(S), NEW ds \in Seq(S), PlacedIn(cs),
         \A i \in 1 .. Len(ds) : IsCustom(ds[i]) => i = 1 /\ ds[i].name = <<"custom", Len(cs)>>
  PROVE  PlacedIn(cs \o ds)
  <1> DEFINE es == cs \o ds
  <1>1. /\ DOMAIN es = 1 .. Len(cs) + Len(ds) /\ DOMAIN cs = 1 .. Len(cs)
        /\ Len(cs) \in Nat /\ Len(ds) \in Nat
        /\ \A i \in 1 .. Len(cs) : es[i] = cs[i]
        /\ \A i \in (Len(cs) + 1) .. (Len(cs) + Len(ds)) :
              i - Len(cs) \in 1 .. Len(ds) /\ es[i] = ds[i - Len(cs)]
    BY ConcatAt, Zenon
  <1> HIDE DEF es
  <1>2. ASSUME NEW i \in DOMAIN es, IsCustom(es[i]) PROVE es[i].name = <<"custom", i - 1>>
    <2>1. CASE i \in 1 .. Len(cs)
      BY <1>1, <1>2, <2>1 DEF PlacedIn
    <2>2. CASE i \in (Len(cs) + 1) .. (Len(cs) + Len(ds))
      <3>1. i - Len(cs) = 1 /\ es[i].name = <<"custom", Len(cs)>>
        BY <1>1, <1>2, <2>2
      <3>2. i - 1 = Len(cs)
        BY <1>1, <2>2, <3>1
      <3>3. QED BY <3>1, <3>2
    <2>3. QED BY <1>1, <2>1, <2>2
  <1>3. QED BY <1>2 DEF PlacedIn, es

LEMMA PlacedStep == TypeOK /\ MaxBatch <= 1 /\ Placed /\ [Next]_vars => Placed'
  <1> SUFFICES ASSUME TypeOK, MaxBatch <= 1, Placed, [Next]_vars PROVE Placed'
    OBVIOUS
  <1>1. ASSUME UNCHANGED exp PROVE Placed'
    BY <1>1 DEF Placed, Made
  <1>2. ASSUME NEW x \in Exporters, NEW e, PlacedIn(e.collectors), exp' = [exp EXCEPT ![x] = e]
        PROVE  Placed'
    <2>1. \A y \in Exporters : exp'[y] = IF y = x THEN e ELSE exp[y]
      BY <1>2 DEF TypeOK
    <2>2. QED BY <1>2, <2>1 DEF Placed, Made
  <1>3. ASSUME NEW x \in Exporters, NEW o \in Options, New(x, o) PROVE Placed'
    <2> DEFINE E(cs) == [opts |-> o, self |-> self', files |-> <<>>, collectors |-> cs]
    <2>1. PICK cs \in Seq(CollectorSet) : /\ \A c \in Range(cs) : IsBuiltIn(c)
                                          /\ exp' = [exp EXCEPT ![x] = E(cs)]
      BY <1>3, NewIs
    <2>2. PlacedIn(cs)
      BY <2>1 DEF PlacedIn, Range, IsBuiltIn, IsCustom
    <2>3. E(cs).collectors = cs
      OBVIOUS
    <2> HIDE DEF E
    <2>4. QED BY <1>2, <2>1, <2>2, <2>3
  <1>4. ASSUME NEW x \in Exporters, NEW n \in 1 .. MaxBatch, WithCustomCollectors(x, n)
        PROVE  Placed'
    <2> DEFINE E(cs) == [opts |-> exp[x].opts, self |-> exp[x].self,
                         files |-> exp[x].files \o <<>>, collectors |-> exp[x].collectors \o cs]
               old   == exp[x].collectors
    <2>1. PICK cs \in Seq(CollectorSet) :
             /\ Len(cs) = n
             /\ \A i \in 1 .. Len(cs) : cs[i].name = CustomName(Len(old), i - 1)
             /\ exp' = [exp EXCEPT ![x] = E(cs)]
      BY <1>4, CustomIs
    <2>2. n = 1
      BY BoundsAssumption
    <2>3. old \in Seq(CollectorSet) /\ PlacedIn(old)
      BY <1>4, CustomIs DEF ExporterSet, Placed, Made, WithCustomCollectors
    <2> HIDE DEF old
    <2>4. \A i \in 1 .. Len(cs) : i = 1 /\ cs[i].name = <<"custom", Len(old)>>
      BY <2>1, <2>2, <2>3 DEF CustomName
    <2>5. PlacedIn(old \o cs)
      BY <2>3, <2>4, PlacedAppended
    <2>6. E(cs).collectors = old \o cs
      BY DEF old
    <2> HIDE DEF E
    <2>7. QED BY <1>2, <2>1, <2>5, <2>6
  <1>5. ASSUME NEW x \in Exporters, NEW f \in Files, ExtendFromYAMLFile(x, f) PROVE Placed'
    <2> DEFINE E(cs) == [opts |-> exp[x].opts, self |-> exp[x].self,
                         files |-> exp[x].files \o <<f>>, collectors |-> exp[x].collectors \o cs]
               old   == exp[x].collectors
    <2>1. PICK cs \in Seq(CollectorSet) :
             /\ Len(cs) = Len(f)
             /\ \A i \in 1 .. Len(f) : IsSpec(cs[i]) /\ cs[i].spec = f[i]
             /\ exp' = [exp EXCEPT ![x] = E(cs)]
      BY <1>5, ExtendIs
    <2>2. old \in Seq(CollectorSet) /\ PlacedIn(old)
      BY <1>5, ExtendIs DEF ExporterSet, Placed, Made, ExtendFromYAMLFile
    <2>3. \A i \in 1 .. Len(cs) : ~IsCustom(cs[i])
      BY <2>1 DEF IsSpec, IsCustom
    <2> HIDE DEF old
    <2>4. PlacedIn(old \o cs)
      BY <2>2, <2>3, PlacedAppended
    <2>5. E(cs).collectors = old \o cs
      BY DEF old
    <2> HIDE DEF E
    <2>6. QED BY <1>2, <2>1, <2>4, <2>5
  <1>6. ASSUME NEW x \in Exporters, Register(x) PROVE Placed'
    BY <1>1, <1>6 DEF Register
  <1>7. ASSUME NEW x \in Exporters, NEW o \in Options, NewFails(x, o) PROVE Placed'
    BY <1>1, <1>7 DEF NewFails
  <1>8. ASSUME NEW p \in MetricPrefixes \cup {""}, SetMetricPrefix(p) PROVE Placed'
    BY <1>1, <1>8 DEF SetMetricPrefix
  <1>9. CASE UNCHANGED vars BY <1>1, <1>9 DEF vars
  <1>10. QED BY <1>3, <1>4, <1>5, <1>6, <1>7, <1>8, <1>9 DEF Next

(* A program that adds its custom collectors one per call gets different    *)
(* names for them, between which any files may be loaded: the names clash   *)
(* only because of calls with several collectors.                           *)
THEOREM DistinctOneByOne ==
  ASSUME MaxBatch <= 1
  PROVE  Spec => []NamesDistinct
  <1>1. Init => Placed
    BY DEF Init, Placed, Made
  <1>2. IInv /\ TypeOK /\ Placed => NamesDistinct
    <2> SUFFICES ASSUME IInv, TypeOK, Placed, NEW x \in Made,
                        NEW i \in DOMAIN exp[x].collectors, NEW j \in DOMAIN exp[x].collectors,
                        i # j, exp[x].collectors[i].name = exp[x].collectors[j].name
                 PROVE  exp[x].collectors[i].name[1] = "spec"
      BY DEF NamesDistinct
    <2> DEFINE cs == exp[x].collectors
    <2>1. x \in Exporters /\ exp[x] # None
      BY DEF Made
    <2>2. cs \in Seq(CollectorSet)
      <3>1. exp[x] \in ExporterSet BY <2>1 DEF TypeOK
      <3>2. QED BY <3>1 DEF ExporterSet
    <2>3. Once(cs) /\ PlacedIn(cs)
      BY <2>1 DEF IInv, AsNew, Placed
    <2> HIDE DEF cs
    <2>4. i \in DOMAIN cs /\ j \in DOMAIN cs /\ i # j /\ cs[i].name = cs[j].name
      BY DEF cs
    <2>5. i \in Nat /\ j \in Nat /\ cs[i] \in CollectorSet
      BY <2>2, <2>4
    <2>6. cs[i].name[1] # "builtin"
      BY <2>3, <2>4 DEF Once
    <2>7. cs[i].name[1] # "custom"
      <3> SUFFICES ASSUME cs[i].name[1] = "custom" PROVE FALSE
        OBVIOUS
      <3>1. cs[i].name = <<"custom", i - 1>> /\ cs[j].name = <<"custom", j - 1>>
        BY <2>3, <2>4 DEF PlacedIn, IsCustom
      <3>2. <<"custom", i - 1>> = <<"custom", j - 1>>
        BY <2>4, <3>1, Zenon
      <3>3. QED BY <2>4, <2>5, <3>2
    <2>8. cs[i].name[1] \in {"builtin", "custom", "spec"}
      BY <2>5 DEF CollectorSet
    <2>9. QED BY <2>6, <2>7, <2>8 DEF cs
  <1>3. QED BY <1>1, <1>2, PlacedStep, Invariant, TypeCorrect, PTL DEF Spec
===============================================================================

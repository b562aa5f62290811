-------------------------- MODULE BenchmarkSuiteProofs --------------------------
(***************************************************************************)
(* Proofs about BenchmarkSuite, for every suite of configurations.         *)
(***************************************************************************)
EXTENDS BenchmarkSuite, OperatorProofs

-----------------------------------------------------------------------------
(* The benchmarks of a suite.                                              *)

(* A benchmark bm is the one of entry e with the configs c and d.          *)
FromEntry(suite, bm, e, c, d) ==
  /\ e \in DOMAIN suite /\ c \in DOMAIN suite[e].one
  /\ \/ ~suite[e].parallel /\ d = 0 /\ bm = SingleBenchmark(suite, e, c)
     \/ /\ suite[e].parallel /\ d \in DOMAIN suite[e].two
        /\ bm = ParallelBenchmark(suite, e, c, d)

(* place[b] are the entry and the configs of the benchmark b, and of no    *)
(* other one.                                                              *)
PlacedAt(place, suite, bms) ==
  /\ \A b \in 1 .. Len(bms) :
       FromEntry(suite, bms[b], place[b][1], place[b][2], place[b][3])
  /\ \A b, c \in 1 .. Len(bms) :
       (\A k \in 1 .. 3 : place[b][k] = place[c][k]) => b = c

AllBenchmarks(suite) ==
  {SingleBenchmark(suite, e, c) : e \in DOMAIN suite, c \in Nat}
    \cup {ParallelBenchmark(suite, e, c, d) : e \in DOMAIN suite, c \in Nat, d \in Nat}

(* What SuitesAssumption says of the lengths of a suite and of its         *)
(* entries.                                                                *)
LEMMA SuiteType ==
  ASSUME NEW suite \in Suites
  PROVE  /\ Len(suite) \in Nat /\ DOMAIN suite = 1 .. Len(suite)
         /\ \A e \in DOMAIN suite :
              /\ suite[e].parallel \in BOOLEAN
              /\ Len(suite[e].one) \in Nat /\ DOMAIN suite[e].one = 1 .. Len(suite[e].one)
              /\ Len(suite[e].two) \in Nat /\ DOMAIN suite[e].two = 1 .. Len(suite[e].two)
<1>1. suite \in Seq(Range(suite))
  BY SuitesAssumption
<1>2. ASSUME NEW e \in DOMAIN suite
      PROVE  /\ suite[e].parallel \in BOOLEAN
             /\ suite[e].one \in Seq(Range(suite[e].one))
             /\ suite[e].two \in Seq(Range(suite[e].two))
  BY SuitesAssumption
<1> QED  BY <1>1, <1>2, LenProperties

(* The single benchmarks of a suite come from its entries, in order.       *)
LEMMA SinglesPlaced ==
  ASSUME NEW suite \in Suites
  PROVE  /\ create_single_benchmarks(suite) \in Seq(AllBenchmarks(suite))
         /\ \E place :
              /\ PlacedAt(place, suite, create_single_benchmarks(suite))
              /\ \A b \in 1 .. Len(create_single_benchmarks(suite)) : place[b][3] = 0
<1> DEFINE S == AllBenchmarks(suite)
           of(e) == IF suite[e].parallel THEN <<>>
                    ELSE [c \in DOMAIN suite[e].one |-> SingleBenchmark(suite, e, c)]
           ss == [e \in DOMAIN suite |-> of(e)]
           f == create_single_benchmarks(suite)
<1>1. ASSUME NEW e \in DOMAIN suite
      PROVE  /\ of(e) \in Seq(S)
             /\ \A c \in 1 .. Len(of(e)) :
                  /\ c \in DOMAIN suite[e].one /\ ~suite[e].parallel
                  /\ of(e)[c] = SingleBenchmark(suite, e, c)
  <2>1. CASE suite[e].parallel
    BY <2>1
  <2>2. CASE ~suite[e].parallel
    <3>1. Len(suite[e].one) \in Nat /\ DOMAIN suite[e].one = 1 .. Len(suite[e].one)
      BY SuiteType
    <3>2. of(e) = [c \in 1 .. Len(suite[e].one) |-> SingleBenchmark(suite, e, c)]
      BY <2>2, <3>1
    <3>3. \A c \in 1 .. Len(suite[e].one) : SingleBenchmark(suite, e, c) \in S
      BY DEF AllBenchmarks
    <3> HIDE DEF S, of
    <3> QED  BY <2>2, <3>1, <3>2, <3>3
  <2> QED  BY <2>1, <2>2
<1>2. ss \in Seq(Seq(S)) /\ Len(ss) = Len(suite) /\ \A e \in 1 .. Len(ss) : ss[e] = of(e)
  <2>1. Len(suite) \in Nat /\ DOMAIN suite = 1 .. Len(suite)
    BY SuiteType
  <2>2. \A e \in 1 .. Len(suite) : of(e) \in Seq(S)
    BY <1>1, <2>1
  <2> HIDE DEF S, of
  <2>3. ss = [e \in 1 .. Len(suite) |-> of(e)]
    BY <2>1
  <2> QED  BY <2>1, <2>2, <2>3
<1>3. f = FlattenSeq(ss)
  BY DEF create_single_benchmarks
<1>4. 1 .. Len(ss) = DOMAIN suite
  BY <1>2, SuiteType
<1> HIDE DEF ss, f, S, of
<1>5. f \in Seq(S) /\ \E at : ComesFrom(at, f, ss, Len(ss))
  BY <1>2, <1>3, FlattenSeqComesFrom
<1>6. PICK at : ComesFrom(at, f, ss, Len(ss))
  BY <1>5
<1> DEFINE place == [b \in 1 .. Len(f) |-> <<at[b][1], at[b][2], 0>>]
<1>7. ASSUME NEW b \in 1 .. Len(f)
      PROVE  /\ FromEntry(suite, f[b], place[b][1], place[b][2], place[b][3])
             /\ place[b][1] = at[b][1] /\ place[b][2] = at[b][2] /\ place[b][3] = 0
  <2> DEFINE e == at[b][1]
             c == at[b][2]
  <2>1. e \in 1 .. Len(ss) /\ c \in 1 .. Len(ss[e]) /\ f[b] = ss[e][c]
    BY <1>6 DEF ComesFrom
  <2>2. place[b][1] = e /\ place[b][2] = c /\ place[b][3] = 0
    OBVIOUS
  <2>3. FromEntry(suite, f[b], e, c, 0)
    BY <1>1, <1>2, <1>4, <2>1 DEF FromEntry
  <2> QED  BY <2>2, <2>3
<1> HIDE DEF place
<1>8. PlacedAt(place, suite, f)
  <2>1. ASSUME NEW b \in 1 .. Len(f), NEW c \in 1 .. Len(f),
               \A k \in 1 .. 3 : place[b][k] = place[c][k]
        PROVE  b = c
    <3>1. place[b][1] = place[c][1] /\ place[b][2] = place[c][2]
      BY <2>1
    <3> QED  BY <1>6, <1>7, <3>1 DEF ComesFrom
  <2> QED  BY <1>7, <2>1 DEF PlacedAt
<1> QED  BY <1>5, <1>7, <1>8 DEF f, S

(* So do the parallel ones, one for each pair of configurations.           *)
LEMMA ParallelsPlaced ==
  ASSUME NEW suite \in Suites
  PROVE  /\ create_parallel_benchmarks(suite) \in Seq(AllBenchmarks(suite))
         /\ \E place :
              /\ PlacedAt(place, suite, create_parallel_benchmarks(suite))
              /\ \A b \in 1 .. Len(create_parallel_benchmarks(suite)) : place[b][3] # 0
<1> DEFINE S == AllBenchmarks(suite)
           rows(e) == [c \in DOMAIN suite[e].one |->
                         [d \in DOMAIN suite[e].two |-> ParallelBenchmark(suite, e, c, d)]]
           of(e) == IF ~suite[e].parallel THEN <<>> ELSE FlattenSeq(rows(e))
           ss == [e \in DOMAIN suite |-> of(e)]
           f == create_parallel_benchmarks(suite)
           From(at, e) == ComesFrom(at, FlattenSeq(rows(e)), rows(e), Len(rows(e)))
           inner == [e \in DOMAIN suite |-> CHOOSE at : From(at, e)]
<1>1. ASSUME NEW e \in DOMAIN suite
      PROVE  /\ rows(e) \in Seq(Seq(S)) /\ Len(rows(e)) = Len(suite[e].one)
             /\ \A c \in 1 .. Len(rows(e)) :
                  /\ c \in DOMAIN suite[e].one
                  /\ \A d \in 1 .. Len(rows(e)[c]) :
                       /\ d \in DOMAIN suite[e].two /\ d # 0
                       /\ rows(e)[c][d] = ParallelBenchmark(suite, e, c, d)
  <2> DEFINE row(c) == [d \in DOMAIN suite[e].two |-> ParallelBenchmark(suite, e, c, d)]
  <2>1. /\ Len(suite[e].one) \in Nat /\ DOMAIN suite[e].one = 1 .. Len(suite[e].one)
        /\ Len(suite[e].two) \in Nat /\ DOMAIN suite[e].two = 1 .. Len(suite[e].two)
    BY SuiteType
  <2>2. ASSUME NEW c \in 1 .. Len(suite[e].one)
        PROVE  /\ row(c) \in Seq(S)
               /\ \A d \in 1 .. Len(row(c)) :
                    /\ d \in DOMAIN suite[e].two /\ d # 0
                    /\ row(c)[d] = ParallelBenchmark(suite, e, c, d)
    <3>1. row(c) = [d \in 1 .. Len(suite[e].two) |-> ParallelBenchmark(suite, e, c, d)]
      BY <2>1
    <3>2. \A d \in 1 .. Len(suite[e].two) : ParallelBenchmark(suite, e, c, d) \in S
      BY <2>1 DEF AllBenchmarks
    <3> HIDE DEF S, row
    <3> QED  BY <2>1, <3>1, <3>2
  <2>3. rows(e) = [c \in 1 .. Len(suite[e].one) |-> row(c)]
    BY <2>1
  <2> HIDE DEF S, row, rows
  <2>4. rows(e) \in Seq(Seq(S)) /\ Len(rows(e)) = Len(suite[e].one)
    BY <2>1, <2>2, <2>3
  <2>5. ASSUME NEW c \in 1 .. Len(rows(e))
        PROVE  c \in DOMAIN suite[e].one /\ rows(e)[c] = row(c)
    BY <2>1, <2>3, <2>4
  <2> QED  BY <2>1, <2>2, <2>4, <2>5
<1>2. ASSUME NEW e \in DOMAIN suite
      PROVE  of(e) \in Seq(S) /\ From(inner[e], e)
  <2> HIDE DEF S, rows
  <2>1. FlattenSeq(rows(e)) \in Seq(S) /\ \E at : From(at, e)
    BY <1>1, FlattenSeqComesFrom
  <2>2. From(inner[e], e)
    <3>1. inner[e] = CHOOSE at : From(at, e)
      OBVIOUS
    <3> HIDE DEF From, inner
    <3> QED  BY <2>1, <3>1
  <2> QED  BY <2>1, <2>2
<1>3. ss \in Seq(Seq(S)) /\ Len(ss) = Len(suite) /\ \A e \in 1 .. Len(ss) : ss[e] = of(e)
  <2>1. Len(suite) \in Nat /\ DOMAIN suite = 1 .. Len(suite)
    BY SuiteType
  <2>2. \A e \in 1 .. Len(suite) : of(e) \in Seq(S)
    BY <1>2, <2>1
  <2> HIDE DEF S, of
  <2>3. ss = [e \in 1 .. Len(suite) |-> of(e)]
    BY <2>1
  <2> QED  BY <2>1, <2>2, <2>3
<1>4. f = FlattenSeq(ss)
  BY DEF create_parallel_benchmarks
<1>5. 1 .. Len(ss) = DOMAIN suite
  BY <1>3, SuiteType
<1>6. ASSUME NEW e \in DOMAIN suite, NEW k \in 1 .. Len(of(e))
      PROVE  suite[e].parallel /\ of(e) = FlattenSeq(rows(e))
  <2> HIDE DEF rows
  <2>1. suite[e].parallel \in BOOLEAN
    BY SuiteType
  <2> QED  BY <2>1
<1> HIDE DEF ss, f, S, of, rows, inner
<1>7. f \in Seq(S) /\ \E at : ComesFrom(at, f, ss, Len(ss))
  BY <1>3, <1>4, FlattenSeqComesFrom
<1>8. PICK at : ComesFrom(at, f, ss, Len(ss))
  BY <1>7
<1> DEFINE in(b) == inner[at[b][1]][at[b][2]]
           place == [b \in 1 .. Len(f) |-> <<at[b][1], in(b)[1], in(b)[2]>>]
<1>9. ASSUME NEW b \in 1 .. Len(f)
      PROVE  /\ at[b][1] \in DOMAIN suite
             /\ at[b][2] \in 1 .. Len(FlattenSeq(rows(at[b][1])))
             /\ FromEntry(suite, f[b], at[b][1], in(b)[1], in(b)[2]) /\ in(b)[2] # 0
  <2> DEFINE e == at[b][1]
             k == at[b][2]
  <2>1. e \in 1 .. Len(ss) /\ k \in 1 .. Len(ss[e]) /\ f[b] = ss[e][k]
    BY <1>8 DEF ComesFrom
  <2>2. e \in DOMAIN suite /\ ss[e] = of(e)
    BY <1>3, <1>5, <2>1
  <2>3. suite[e].parallel /\ of(e) = FlattenSeq(rows(e))
    BY <1>6, <2>1, <2>2
  <2>4. /\ in(b)[1] \in 1 .. Len(rows(e)) /\ in(b)[2] \in 1 .. Len(rows(e)[in(b)[1]])
        /\ f[b] = rows(e)[in(b)[1]][in(b)[2]]
    <3>1. ComesFrom(inner[e], FlattenSeq(rows(e)), rows(e), Len(rows(e)))
      BY <1>2, <2>2
    <3>2. k \in 1 .. Len(FlattenSeq(rows(e))) /\ f[b] = FlattenSeq(rows(e))[k]
      BY <2>1, <2>2, <2>3
    <3>3. in(b) = inner[e][k]
      OBVIOUS
    <3> HIDE DEF e, k, in
    <3> QED  BY <3>1, <3>2, <3>3 DEF ComesFrom
  <2>5. FromEntry(suite, f[b], e, in(b)[1], in(b)[2]) /\ in(b)[2] # 0
    <3> DEFINE c == in(b)[1]
               d == in(b)[2]
    <3>1. c \in DOMAIN suite[e].one /\ d \in DOMAIN suite[e].two /\ d # 0
          /\ f[b] = ParallelBenchmark(suite, e, c, d)
      <4> HIDE DEF e, in
      <4> QED  BY <1>1, <2>2, <2>4
    <3> HIDE DEF e, c, d
    <3> QED  BY <2>2, <2>3, <3>1 DEF FromEntry, c, d
  <2> QED  BY <2>1, <2>2, <2>3, <2>5
<1>10. ASSUME NEW b \in 1 .. Len(f)
       PROVE  place[b][1] = at[b][1] /\ place[b][2] = in(b)[1] /\ place[b][3] = in(b)[2]
  <2> HIDE DEF in
  <2> QED  OBVIOUS
<1> HIDE DEF place
<1>11. PlacedAt(place, suite, f)
  <2>1. ASSUME NEW b \in 1 .. Len(f), NEW c \in 1 .. Len(f),
               \A k \in 1 .. 3 : place[b][k] = place[c][k]
        PROVE  b = c
    <3>1. at[b][1] = at[c][1] /\ in(b)[1] = in(c)[1] /\ in(b)[2] = in(c)[2]
      <4> HIDE DEF in
      <4>1. place[b][1] = place[c][1] /\ place[b][2] = place[c][2] /\ place[b][3] = place[c][3]
        BY <2>1
      <4> QED  BY <1>10, <4>1
    <3>2. at[b][2] = at[c][2]
      <4> DEFINE e == at[b][1]
      <4>1. ComesFrom(inner[e], FlattenSeq(rows(e)), rows(e), Len(rows(e)))
        BY <1>2, <1>9
      <4>2. /\ at[b][2] \in 1 .. Len(FlattenSeq(rows(e)))
            /\ at[c][2] \in 1 .. Len(FlattenSeq(rows(e)))
        BY <1>9, <3>1
      <4>3. in(b) = inner[e][at[b][2]] /\ in(c) = inner[e][at[c][2]]
        BY <3>1
      <4> HIDE DEF e, in
      <4> QED  BY <3>1, <4>1, <4>2, <4>3 DEF ComesFrom
    <3> QED  BY <1>8, <3>1, <3>2 DEF ComesFrom
  <2> QED  BY <1>9, <1>10, <2>1 DEF PlacedAt
<1>12. \A b \in 1 .. Len(f) : place[b][3] # 0
  <2> HIDE DEF in
  <2> QED  BY <1>9, <1>10
<1> QED  BY <1>7, <1>11, <1>12 DEF f, S

(* So do both together.                                                    *)
LEMMA BenchmarksPlaced ==
  ASSUME NEW suite \in Suites,
         NEW bms, bms = create_single_benchmarks(suite) \o create_parallel_benchmarks(suite)
  PROVE  bms \in Seq(AllBenchmarks(suite)) /\ \E place : PlacedAt(place, suite, bms)
<1> DEFINE S == AllBenchmarks(suite)
           f == create_single_benchmarks(suite)
           g == create_parallel_benchmarks(suite)
<1>1. /\ f \in Seq(S)
      /\ \E p : PlacedAt(p, suite, f) /\ \A b \in 1 .. Len(f) : p[b][3] = 0
  BY SinglesPlaced
<1>2. /\ g \in Seq(S)
      /\ \E p : PlacedAt(p, suite, g) /\ \A b \in 1 .. Len(g) : p[b][3] # 0
  BY ParallelsPlaced
<1> HIDE DEF S, f, g
<1>3. PICK p : PlacedAt(p, suite, f) /\ \A b \in 1 .. Len(f) : p[b][3] = 0
  BY <1>1
<1>4. PICK q : PlacedAt(q, suite, g) /\ \A b \in 1 .. Len(g) : q[b][3] # 0
  BY <1>2
<1>5. /\ Len(f) \in Nat /\ Len(g) \in Nat
      /\ bms \in Seq(S) /\ Len(bms) = Len(f) + Len(g)
      /\ \A b \in 1 .. Len(f) + Len(g) : bms[b] = IF b <= Len(f) THEN f[b] ELSE g[b - Len(f)]
  BY <1>1, <1>2, LenProperties, ConcatProperties DEF f, g
<1> DEFINE of(x) == <<x[1], x[2], x[3]>>
           place == [b \in 1 .. Len(bms) |-> IF b <= Len(f) THEN of(p[b]) ELSE of(q[b - Len(f)])]
<1>6. ASSUME NEW b \in 1 .. Len(bms)
      PROVE  \/ /\ b \in 1 .. Len(f) /\ bms[b] = f[b] /\ \A k \in 1 .. 3 : place[b][k] = p[b][k]
             \/ /\ b \notin 1 .. Len(f) /\ b - Len(f) \in 1 .. Len(g) /\ bms[b] = g[b - Len(f)]
                /\ \A k \in 1 .. 3 : place[b][k] = q[b - Len(f)][k]
  <2>1. CASE b <= Len(f)
    <3>1. place[b] = of(p[b])
      BY <2>1
    <3>2. \A k \in 1 .. 3 : place[b][k] = p[b][k]
      BY <3>1
    <3> QED  BY <1>5, <2>1, <3>2
  <2>2. CASE ~(b <= Len(f))
    <3>1. place[b] = of(q[b - Len(f)])
      BY <2>2
    <3>2. \A k \in 1 .. 3 : place[b][k] = q[b - Len(f)][k]
      BY <3>1
    <3> QED  BY <1>5, <2>2, <3>2
  <2> QED  BY <2>1, <2>2
<1> HIDE DEF place
<1>7. ASSUME NEW b \in 1 .. Len(bms)
      PROVE  FromEntry(suite, bms[b], place[b][1], place[b][2], place[b][3])
  BY <1>3, <1>4, <1>6 DEF PlacedAt
<1>8. ASSUME NEW b \in 1 .. Len(bms), NEW c \in 1 .. Len(bms),
             \A k \in 1 .. 3 : place[b][k] = place[c][k]
      PROVE  b = c
  <2>1. CASE b \in 1 .. Len(f) /\ c \in 1 .. Len(f)
    BY <1>3, <1>6, <1>8, <2>1 DEF PlacedAt
  <2>2. CASE b \notin 1 .. Len(f) /\ c \notin 1 .. Len(f)
    <3>1. /\ b - Len(f) \in 1 .. Len(g) /\ c - Len(f) \in 1 .. Len(g)
          /\ \A k \in 1 .. 3 : q[b - Len(f)][k] = q[c - Len(f)][k]
      BY <1>6, <1>8, <2>2
    <3>2. b - Len(f) = c - Len(f)
      BY <1>4, <3>1 DEF PlacedAt
    <3> QED  BY <1>5, <3>2
  <2>3. \A x \in 1 .. Len(bms) : place[x][3] = 0 <=> x \in 1 .. Len(f)
    <3> SUFFICES ASSUME NEW x \in 1 .. Len(bms)
                 PROVE  place[x][3] = 0 <=> x \in 1 .. Len(f)
      OBVIOUS
    <3>1. 3 \in 1 .. 3
      OBVIOUS
    <3>2. CASE x \in 1 .. Len(f)
      BY <1>3, <1>6, <3>1, <3>2
    <3>3. CASE x \notin 1 .. Len(f)
      <4>1. /\ x - Len(f) \in 1 .. Len(g)
            /\ \A k \in 1 .. 3 : place[x][k] = q[x - Len(f)][k]
        BY <1>6, <3>3
      <4>2. place[x][3] = q[x - Len(f)][3]
        BY <3>1, <4>1
      <4> QED  BY <1>4, <3>3, <4>1, <4>2
    <3> QED  BY <3>2, <3>3
  <2>4. place[b][3] = place[c][3]
    BY <1>8
  <2> QED  BY <2>1, <2>2, <2>3, <2>4
<1>9. PlacedAt(place, suite, bms)
  BY <1>7, <1>8 DEF PlacedAt
<1> QED  BY <1>5, <1>9 DEF S

(* The file of a region is the benchmark's own, or it is shared and the    *)
(* config reads and does not write.                                        *)
IsRegionOf(g, e, c, d, n) ==
  /\ g.config.read \in BOOLEAN /\ g.config.write \in BOOLEAN /\ g.config.range \in Nat
  /\ \/ g.owns_pmem_file = TRUE /\ g.file = OwnFile(e, c, d, n)
     \/ /\ g.owns_pmem_file = FALSE /\ g.file = SharedFile(e, n)
        /\ ~g.config.write /\ g.config.read

(* A benchmark has one region for each of its configurations.              *)
LEMMA RegionsOfEntry ==
  ASSUME NEW suite \in Suites, NEW bm, NEW e, NEW c, NEW d, FromEntry(suite, bm, e, c, d)
  PROVE  /\ bm.name = suite[e].name /\ c # 0
         /\ \/ /\ DOMAIN bm.regions = {1} /\ Len(bm.regions) = 1
               /\ IsRegionOf(bm.regions[1], e, c, d, 1)
            \/ /\ DOMAIN bm.regions = {1, 2} /\ Len(bm.regions) = 2
               /\ \E n \in 1 .. 2 : /\ IsRegionOf(bm.regions[1], e, c, d, n)
                                    /\ IsRegionOf(bm.regions[2], e, c, d, 3 - n)
<1> DEFINE one == suite[e].one[c]
           two == suite[e].two[d]
<1>1. e \in DOMAIN suite /\ c \in DOMAIN suite[e].one
  BY DEF FromEntry
<1>2. /\ one.read \in BOOLEAN /\ one.write \in BOOLEAN /\ (one.read \/ one.write)
      /\ one.range \in Nat
  BY <1>1, SuitesAssumption
<1>3. c # 0
  BY <1>1, SuiteType
<1>4. CASE ~suite[e].parallel /\ d = 0 /\ bm = SingleBenchmark(suite, e, c)
  <2> DEFINE g == IF suite[e].matrix /\ ~one.write THEN Shared(one, SharedFile(e, 1))
                  ELSE Own(one, OwnFile(e, c, 0, 1))
  <2>1. bm.name = suite[e].name /\ bm.regions = <<g>>
    BY <1>4 DEF SingleBenchmark
  <2>2. IsRegionOf(g, e, c, d, 1)
    BY <1>2, <1>4 DEF IsRegionOf, Shared, Own, Region
  <2> HIDE DEF g
  <2> QED  BY <1>3, <2>1, <2>2
<1>5. CASE /\ suite[e].parallel /\ d \in DOMAIN suite[e].two
           /\ bm = ParallelBenchmark(suite, e, c, d)
  <2>1. /\ two.read \in BOOLEAN /\ two.write \in BOOLEAN /\ (two.read \/ two.write)
        /\ two.range \in Nat
    BY <1>1, <1>5, SuitesAssumption
  <2> DEFINE own1 == Own(one, OwnFile(e, c, d, 1))
             own2 == Own(two, OwnFile(e, c, d, 2))
             shared1 == Shared(one, SharedFile(e, 1))
             shared2 == Shared(two, SharedFile(e, 2))
  <2>2. /\ bm.name = suite[e].name
        /\ \/ one.write /\ two.write /\ bm.regions = <<own1, own2>>
           \/ one.write /\ ~two.write /\ bm.regions = <<shared2, own1>>
           \/ ~one.write /\ two.write /\ bm.regions = <<shared1, own2>>
           \/ ~one.write /\ ~two.write /\ bm.regions = <<shared1, shared2>>
    <3> HIDE DEF own1, own2, shared1, shared2
    <3>1. bm.name = suite[e].name
      BY <1>5 DEF ParallelBenchmark
    <3>2. bm.regions = CASE one.write /\ two.write   -> <<own1, own2>>
                         [] one.write /\ ~two.write  -> <<shared2, own1>>
                         [] ~one.write /\ two.write  -> <<shared1, own2>>
                         [] OTHER                    -> <<shared1, shared2>>
      BY <1>5 DEF ParallelBenchmark, own1, own2, shared1, shared2
    <3> HIDE DEF one, two
    <3> QED  BY <1>2, <2>1, <3>1, <3>2
  <2>3. IsRegionOf(own1, e, c, d, 1) /\ IsRegionOf(own2, e, c, d, 2)
    BY <1>2, <2>1 DEF IsRegionOf, Own, Region
  <2>4. /\ ~one.write => IsRegionOf(shared1, e, c, d, 1)
        /\ ~two.write => IsRegionOf(shared2, e, c, d, 2)
    BY <1>2, <2>1 DEF IsRegionOf, Shared, Region
  <2> HIDE DEF own1, own2, shared1, shared2, one, two
  <2>5. DOMAIN bm.regions = {1, 2} /\ Len(bm.regions) = 2
    BY <2>2
  <2>6. \/ IsRegionOf(bm.regions[1], e, c, d, 1) /\ IsRegionOf(bm.regions[2], e, c, d, 2)
        \/ IsRegionOf(bm.regions[1], e, c, d, 2) /\ IsRegionOf(bm.regions[2], e, c, d, 1)
    BY <2>2, <2>3, <2>4
  <2>7. \E n \in 1 .. 2 : /\ IsRegionOf(bm.regions[1], e, c, d, n)
                          /\ IsRegionOf(bm.regions[2], e, c, d, 3 - n)
    <3>1. 3 - 1 = 2 /\ 3 - 2 = 1 /\ 1 \in 1 .. 2 /\ 2 \in 1 .. 2
      OBVIOUS
    <3> QED  BY <2>6, <3>1
  <2> QED  BY <1>3, <2>2, <2>5, <2>7
<1> QED  BY <1>4, <1>5 DEF FromEntry

-----------------------------------------------------------------------------
(* Who uses which file.                                                    *)

Suited ==
  \E suite \in Suites :
    /\ benchmarks \in Seq(AllBenchmarks(suite))
    /\ \E place : PlacedAt(place, suite, benchmarks)

(* The benchmarks are created with the process ...                         *)
LEMMA InitSuited == Init => Suited
BY BenchmarksPlaced DEF Init, Suited

(* Benchmarks are numbered from 1.                                         *)
LEMMA BenchmarksType ==
  ASSUME Suited
  PROVE  Len(benchmarks) \in Nat /\ Benchmarks = 1 .. Len(benchmarks)
BY LenProperties DEF Suited, Benchmarks

RegionType(g) ==
  /\ g.config.read \in BOOLEAN /\ g.config.write \in BOOLEAN /\ g.config.range \in Nat
  /\ g.owns_pmem_file \in BOOLEAN
  /\ ~g.owns_pmem_file => ~g.config.write /\ g.config.read

(* A benchmark has one or two regions.                                     *)
LEMMA RegionsType ==
  ASSUME Suited, NEW b \in Benchmarks
  PROVE  /\ DOMAIN Regions(b) = 1 .. Len(Regions(b)) /\ Len(Regions(b)) \in {1, 2}
         /\ \A r \in DOMAIN Regions(b) : RegionType(Regions(b)[r])
<1> PICK suite \in Suites :
       \E place : benchmarks \in Seq(AllBenchmarks(suite)) /\ PlacedAt(place, suite, benchmarks)
  BY DEF Suited
<1>1. PICK place :
           benchmarks \in Seq(AllBenchmarks(suite)) /\ PlacedAt(place, suite, benchmarks)
  OBVIOUS
<1> DEFINE e == place[b][1]
           c == place[b][2]
           d == place[b][3]
<1>2. FromEntry(suite, benchmarks[b], e, c, d)
  BY <1>1, BenchmarksType DEF PlacedAt
<1> HIDE DEF e, c, d
<1>3. \A g, n : IsRegionOf(g, e, c, d, n) => RegionType(g)
  BY DEF IsRegionOf, RegionType
<1>4. 1 .. 1 = {1} /\ 1 .. 2 = {1, 2}
  OBVIOUS
<1> QED  BY <1>1, <1>2, <1>3, <1>4, RegionsOfEntry DEF Regions

(* A file that several regions use, of one benchmark or of several, is     *)
(* shared by readers of one entry.                                         *)
LEMMA SameFile ==
  ASSUME Suited, NEW b \in Benchmarks, NEW c \in Benchmarks,
         NEW r \in DOMAIN Regions(b), NEW q \in DOMAIN Regions(c),
         Regions(b)[r].file = Regions(c)[q].file
  PROVE  /\ benchmarks[b].name = benchmarks[c].name
         /\ Regions(b)[r].owns_pmem_file = Regions(c)[q].owns_pmem_file
         /\ Regions(b)[r].owns_pmem_file => b = c
         /\ b = c => r = q
<1> PICK suite \in Suites :
       \E place : benchmarks \in Seq(AllBenchmarks(suite)) /\ PlacedAt(place, suite, benchmarks)
  BY DEF Suited
<1>1. PICK place :
           benchmarks \in Seq(AllBenchmarks(suite)) /\ PlacedAt(place, suite, benchmarks)
  OBVIOUS
<1>2. b \in 1 .. Len(benchmarks) /\ c \in 1 .. Len(benchmarks)
  BY BenchmarksType
<1>3. ASSUME NEW x \in 1 .. Len(benchmarks)
      PROVE  /\ benchmarks[x].name = suite[place[x][1]].name /\ place[x][2] # 0
             /\ \A y \in DOMAIN Regions(x) : \E n \in 1 .. 2 :
                  IsRegionOf(Regions(x)[y], place[x][1], place[x][2], place[x][3], n)
             /\ \A y, z \in DOMAIN Regions(x) :
                  y # z => Regions(x)[y].file[4] # Regions(x)[z].file[4]
  <2> DEFINE i1 == place[x][1]
             i2 == place[x][2]
             i3 == place[x][3]
  <2>1. FromEntry(suite, benchmarks[x], i1, i2, i3)
    BY <1>1 DEF PlacedAt
  <2> HIDE DEF i1, i2, i3
  <2>2. \A g, n : IsRegionOf(g, i1, i2, i3, n) => g.file[4] = n
    BY DEF IsRegionOf, OwnFile, SharedFile
  <2>3. CASE DOMAIN Regions(x) = {1} /\ IsRegionOf(Regions(x)[1], i1, i2, i3, 1)
    <3>1. benchmarks[x].name = suite[i1].name /\ i2 # 0
      BY <2>1, RegionsOfEntry
    <3>2. 1 \in 1 .. 2
      OBVIOUS
    <3> QED  BY <2>3, <3>1, <3>2 DEF i1, i2, i3
  <2>4. ASSUME DOMAIN Regions(x) = {1, 2}, NEW n \in 1 .. 2,
               IsRegionOf(Regions(x)[1], i1, i2, i3, n),
               IsRegionOf(Regions(x)[2], i1, i2, i3, 3 - n)
        PROVE  /\ \A y \in DOMAIN Regions(x) : \E m \in 1 .. 2 :
                    IsRegionOf(Regions(x)[y], i1, i2, i3, m)
               /\ \A y, z \in DOMAIN Regions(x) :
                    y # z => Regions(x)[y].file[4] # Regions(x)[z].file[4]
    <3>1. 3 - n \in 1 .. 2 /\ n # 3 - n
      OBVIOUS
    <3>2. Regions(x)[1].file[4] = n /\ Regions(x)[2].file[4] = 3 - n
      BY <2>2, <2>4
    <3> QED  BY <2>4, <3>1, <3>2
  <2>5. benchmarks[x].name = suite[i1].name /\ i2 # 0
    BY <2>1, RegionsOfEntry
  <2>6. \/ DOMAIN Regions(x) = {1} /\ IsRegionOf(Regions(x)[1], i1, i2, i3, 1)
        \/ /\ DOMAIN Regions(x) = {1, 2}
           /\ \E n \in 1 .. 2 : /\ IsRegionOf(Regions(x)[1], i1, i2, i3, n)
                                /\ IsRegionOf(Regions(x)[2], i1, i2, i3, 3 - n)
    BY <2>1, RegionsOfEntry DEF Regions
  <2>7. CASE DOMAIN Regions(x) = {1, 2}
    BY <2>4, <2>5, <2>6, <2>7 DEF i1, i2, i3
  <2> QED  BY <2>3, <2>6, <2>7
<1>4. \A y \in DOMAIN Regions(c), z \in DOMAIN Regions(c) :
        y # z => Regions(c)[y].file[4] # Regions(c)[z].file[4]
  BY <1>2, <1>3
<1>5. b = c => r = q
  BY <1>4
<1>6. PICK n \in 1 .. 2 :
           IsRegionOf(Regions(b)[r], place[b][1], place[b][2], place[b][3], n)
  BY <1>2, <1>3
<1>7. PICK m \in 1 .. 2 :
           IsRegionOf(Regions(c)[q], place[c][1], place[c][2], place[c][3], m)
  BY <1>2, <1>3
<1> DEFINE f == Regions(b)[r].file
<1>8. /\ f[1] = place[b][1] /\ f[1] = place[c][1]
      /\ Regions(b)[r].owns_pmem_file =>
           f[2] = place[b][2] /\ f[3] = place[b][3]
      /\ ~Regions(b)[r].owns_pmem_file => f[2] = 0
      /\ Regions(c)[q].owns_pmem_file =>
           f[2] = place[c][2] /\ f[3] = place[c][3]
      /\ ~Regions(c)[q].owns_pmem_file => f[2] = 0
      /\ Regions(b)[r].owns_pmem_file \in BOOLEAN /\ Regions(c)[q].owns_pmem_file \in BOOLEAN
  <2>1. ASSUME NEW g, NEW i1, NEW i2, NEW i3, NEW k, IsRegionOf(g, i1, i2, i3, k)
        PROVE  /\ g.owns_pmem_file \in BOOLEAN /\ g.file[1] = i1
               /\ g.owns_pmem_file => g.file[2] = i2 /\ g.file[3] = i3
               /\ ~g.owns_pmem_file => g.file[2] = 0
    <3>1. CASE g.owns_pmem_file = TRUE /\ g.file = OwnFile(i1, i2, i3, k)
      <4>1. g.file[1] = i1 /\ g.file[2] = i2 /\ g.file[3] = i3
        BY <3>1 DEF OwnFile
      <4> QED  BY <3>1, <4>1
    <3>2. CASE g.owns_pmem_file = FALSE /\ g.file = SharedFile(i1, k)
      <4>1. g.file[1] = i1 /\ g.file[2] = 0
        BY <3>2 DEF SharedFile
      <4> QED  BY <3>2, <4>1
    <3> QED  BY <2>1, <3>1, <3>2 DEF IsRegionOf
  <2> QED  BY <1>6, <1>7, <2>1
<1>9. place[b][2] # 0 /\ place[c][2] # 0
  BY <1>2, <1>3
<1>10. benchmarks[b].name = benchmarks[c].name
  BY <1>2, <1>3, <1>8
<1> HIDE DEF f
<1>11. Regions(b)[r].owns_pmem_file = Regions(c)[q].owns_pmem_file
  BY <1>8, <1>9
<1>12. ASSUME Regions(b)[r].owns_pmem_file PROVE b = c
  <2>1. place[b][1] = place[c][1] /\ place[b][2] = place[c][2] /\ place[b][3] = place[c][3]
    BY <1>8, <1>11, <1>12
  <2>2. \A k \in 1 .. 3 : place[b][k] = place[c][k]
    BY <2>1
  <2> QED  BY <1>1, <1>2, <2>2 DEF PlacedAt
<1> QED  BY <1>5, <1>10, <1>11, <1>12

(* ... and stay the same.                                                  *)
LEMMA SuitedInvariance == Spec => []Suited
<1>1. Suited /\ [Next]_vars => Suited'
  <2>1. [Next]_vars => benchmarks' = benchmarks
    BY DEF Next, vars, FlushPrevious, Continue, CreateDataFiles, CreateThrows, RunSucceeds,
           RunFails, RunKilled, Finish, FinishWithError
  <2> QED  BY <2>1 DEF Suited
<1> QED  BY <1>1, InitSuited, PTL DEF Spec

(* Whatever the suite, a config that writes has a file of its own.         *)
THEOREM WritersAlone == Spec => []WritersOwnTheirFiles
<1>1. Suited => WritersOwnTheirFiles
  BY SameFile, RegionsType DEF WritersOwnTheirFiles, RegionType
<1> QED  BY <1>1, SuitedInvariance, PTL

-----------------------------------------------------------------------------
(* The loop over the benchmarks.                                           *)

Entries == [bm : Benchmarks, results : Seq(Benchmarks)]

(* Writing an entry writes its results after those written before.         *)
LEMMA WrittenGrows ==
  ASSUME NEW x \in Entries, result_file \in Seq(Entries),
         result_file' = Append(result_file, x)
  PROVE  Written' = Written \o x.results
<1> DEFINE ss == [k \in DOMAIN result_file |-> result_file[k].results]
           tt == [k \in DOMAIN result_file' |-> result_file'[k].results]
           n == Len(result_file)
<1>1. x.results \in Seq(Benchmarks)
  BY DEF Entries
<1>2. /\ n \in Nat /\ DOMAIN result_file = 1 .. n
      /\ \A k \in 1 .. n : result_file[k].results \in Seq(Benchmarks)
  <2>1. n \in Nat /\ DOMAIN result_file = 1 .. n
    BY LenProperties
  <2>2. \A k \in 1 .. n : result_file[k] \in Entries
    BY ElementOfSeq
  <2> QED  BY <2>1, <2>2 DEF Entries
<1>3. /\ DOMAIN result_file' = 1 .. n + 1 /\ result_file'[n + 1] = x
      /\ \A k \in 1 .. n : result_file'[k] = result_file[k]
  BY AppendProperties, LenProperties
<1>4. ss \in Seq(Seq(Benchmarks)) /\ Len(ss) = n
  <2>1. ss = [k \in 1 .. n |-> result_file[k].results]
    BY <1>2
  <2> HIDE DEF ss, n
  <2> QED  BY <1>2, <2>1
<1>5. tt = Append(ss, x.results)
  <2>1. tt = [k \in 1 .. n + 1 |-> IF k <= n THEN ss[k] ELSE x.results]
    BY <1>2, <1>3
  <2>2. /\ Append(ss, x.results) \in Seq(Seq(Benchmarks))
        /\ Len(Append(ss, x.results)) = n + 1
        /\ \A k \in 1 .. n : Append(ss, x.results)[k] = ss[k]
        /\ Append(ss, x.results)[n + 1] = x.results
    BY <1>1, <1>4, AppendProperties
  <2>3. Append(ss, x.results) \in [1 .. n + 1 -> Seq(Benchmarks)]
    BY <2>2, LenProperties
  <2> HIDE DEF tt, ss, n
  <2>4. \A k \in 1 .. n + 1 : tt[k] = Append(ss, x.results)[k]
    BY <1>2, <2>1, <2>2
  <2> QED  BY <2>1, <2>3, <2>4
<1>6. FlattenSeq(Append(ss, x.results)) = FlattenSeq(ss) \o x.results
  BY <1>1, <1>4, FlattenSeqAppend
<1> QED  BY <1>5, <1>6 DEF Written

(* What is written are benchmarks.                                         *)
LEMMA WrittenType ==
  ASSUME result_file \in Seq(Entries)
  PROVE  Written \in Seq(Benchmarks)
<1> DEFINE ss == [k \in DOMAIN result_file |-> result_file[k].results]
           n == Len(result_file)
<1>1. /\ n \in Nat /\ DOMAIN result_file = 1 .. n
      /\ \A k \in 1 .. n : result_file[k].results \in Seq(Benchmarks)
  <2>1. n \in Nat /\ DOMAIN result_file = 1 .. n
    BY LenProperties
  <2>2. \A k \in 1 .. n : result_file[k] \in Entries
    BY ElementOfSeq
  <2> QED  BY <2>1, <2>2 DEF Entries
<1>2. ss \in Seq(Seq(Benchmarks))
  <2>1. ss = [k \in 1 .. n |-> result_file[k].results]
    BY <1>1
  <2> HIDE DEF ss, n
  <2> QED  BY <1>1, <2>1
<1> QED  BY <1>2, FlattenSeqComesFrom DEF Written

(* At first nothing is completed, mapped or written.                       *)
LEMMA InitLoop == Init => IndInv
<1> SUFFICES ASSUME Init PROVE IndInv
  OBVIOUS
<1>1. Len(benchmarks) \in Nat
  BY InitSuited, BenchmarksType
<1>2. Len(<<>>) = 0 /\ DOMAIN <<>> = {}
  OBVIOUS
<1>3. /\ pc = "next" /\ i = 1 /\ previous_bm = 0 /\ matrix_bm_results = <<>>
      /\ result_file = <<>> /\ mapped = {} /\ completed = <<>>
  BY DEF Init
<1>4. [b \in 1 .. i - 1 |-> b] = <<>>
  BY <1>3
<1>5. LoopInv
  BY <1>1, <1>3, <1>4 DEF LoopInv
<1>6. Written = <<>>
  BY <1>2, <1>3 DEF Written, FlattenSeq
<1>7. ResultsComplete
  BY <1>3, <1>6 DEF ResultsComplete
<1>8. GroupedByName /\ NamesInv /\ OnlyCurrentMapped
  BY <1>2, <1>3 DEF GroupedByName, NamesInv, OnlyCurrentMapped, ToSet
<1> QED  BY <1>5, <1>7, <1>8 DEF IndInv

(* What GroupedByName and NamesInv say of the result file, for any file.   *)
NamesAgree(b, results) ==
  \A n \in ToSet(results) : benchmarks[n].name = benchmarks[b].name

Grouped(file) ==
  /\ \A k \in DOMAIN file : NamesAgree(file[k].bm, file[k].results)
  /\ \A k \in 2 .. Len(file) : benchmarks[file[k].bm].name # benchmarks[file[k - 1].bm].name

EndsWithOther(file, b) ==
  file # <<>> => benchmarks[file[Len(file)].bm].name # benchmarks[b].name

(* An entry of another name than the last one keeps the results grouped.   *)
LEMMA GroupsGrow ==
  ASSUME NEW file \in Seq(Entries), NEW x \in Entries,
         Grouped(file), NamesAgree(x.bm, x.results), EndsWithOther(file, x.bm)
  PROVE  /\ Grouped(Append(file, x))
         /\ \A b : benchmarks[x.bm].name # benchmarks[b].name => EndsWithOther(Append(file, x), b)
<1> DEFINE new == Append(file, x)
           n == Len(file)
<1>1. /\ n \in Nat /\ DOMAIN file = 1 .. n /\ Len(new) = n + 1 /\ DOMAIN new = 1 .. n + 1
      /\ new[n + 1] = x /\ \A k \in 1 .. n : new[k] = file[k]
  BY AppendProperties, LenProperties
<1>2. n # 0 => file # <<>>
  BY <1>1
<1> HIDE DEF new, n
<1>3. ASSUME NEW k \in DOMAIN new PROVE NamesAgree(new[k].bm, new[k].results)
  <2>1. CASE k = n + 1
    BY <1>1, <2>1
  <2>2. CASE k \in 1 .. n
    BY <1>1, <2>2 DEF Grouped
  <2> QED  BY <1>1, <2>1, <2>2
<1>4. ASSUME NEW k \in 2 .. Len(new)
      PROVE  benchmarks[new[k].bm].name # benchmarks[new[k - 1].bm].name
  <2>1. CASE k = n + 1
    <3>1. new[k] = x /\ k - 1 = n /\ n \in 1 .. n /\ new[k - 1] = file[n] /\ file # <<>>
      BY <1>1, <1>2, <2>1
    <3> QED  BY <3>1 DEF EndsWithOther, n
  <2>2. CASE k \in 1 .. n
    <3>1. k \in 2 .. n /\ k - 1 \in 1 .. n
      BY <1>1, <2>2
    <3>2. new[k] = file[k] /\ new[k - 1] = file[k - 1]
      BY <1>1, <3>1
    <3> QED  BY <3>1, <3>2 DEF Grouped, n
  <2> QED  BY <1>1, <2>1, <2>2
<1> QED  BY <1>1, <1>3, <1>4 DEF Grouped, EndsWithOther, new

(* write_benchmark_results, when the current benchmark is the previous one *)
LEMMA WriteResults ==
  ASSUME Suited, IndInv, pc \in {"next", "had_error"}, previous_bm # 0, benchmarks' = benchmarks,
         write_benchmark_results, completed' = completed, matrix_bm_results' = <<>>
  PROVE  /\ result_file' \in Seq(Entries) /\ Written' = completed
         /\ Written' \o matrix_bm_results' = completed
         /\ Grouped(result_file')
         /\ \A b : benchmarks[previous_bm].name # benchmarks[b].name
                     => EndsWithOther(result_file', b)
<1> DEFINE x == [bm |-> previous_bm, results |-> matrix_bm_results]
<1>1. /\ matrix_bm_results \in Seq(Benchmarks) /\ result_file \in Seq(Entries)
      /\ previous_bm \in Benchmarks
  BY BenchmarksType DEF IndInv, LoopInv, Entries
<1>2. x \in Entries /\ result_file' = Append(result_file, x)
  BY <1>1 DEF Entries, write_benchmark_results
<1>3. Written' = Written \o x.results
  BY <1>1, <1>2, WrittenGrows
<1>4. Written' = completed
  BY <1>3 DEF IndInv, ResultsComplete
<1>5. Written \in Seq(Benchmarks)
  BY <1>1, WrittenType
<1>6. Written' \in Seq(Benchmarks)
  BY <1>1, <1>3, <1>5, ConcatProperties
<1>7. Written' \o matrix_bm_results' = completed
  BY <1>4, <1>6, ConcatEmptySeq
<1>8. Grouped(result_file) /\ NamesAgree(x.bm, x.results) /\ EndsWithOther(result_file, x.bm)
  BY DEF IndInv, GroupedByName, NamesInv, Grouped, NamesAgree, EndsWithOther
<1>9. x.bm = previous_bm
  OBVIOUS
<1>10. result_file' \in Seq(Entries)
  BY <1>1, <1>2, AppendProperties
<1> HIDE DEF x
<1> QED  BY <1>1, <1>2, <1>4, <1>7, <1>8, <1>9, <1>10, GroupsGrow

(* The steps of the loop: the results of the previous name are written,    *)
(* ...                                                                     *)
LEMMA FlushPreviousStep ==
  ASSUME Suited, IndInv, FlushPrevious
  PROVE  IndInv'
<1>1. /\ pc = "next" /\ pc' = "create" /\ previous_bm # 0 /\ matrix_bm_results' = <<>>
      /\ i <= Len(benchmarks) /\ benchmarks[previous_bm].name # benchmarks[i].name
      /\ tear_down(previous_bm, TRUE)
      /\ benchmarks' = benchmarks /\ i' = i /\ previous_bm' = previous_bm
      /\ completed' = completed
  BY DEF FlushPrevious, Goto, StartsMatrix
<1>2. /\ result_file' \in Seq(Entries)
      /\ Written' \o matrix_bm_results' = completed /\ Grouped(result_file')
      /\ EndsWithOther(result_file', i)
  BY <1>1, WriteResults DEF FlushPrevious
<1>3. LoopInv'
  BY <1>1, <1>2 DEF IndInv, LoopInv, Entries, Benchmarks
<1>4. OnlyCurrentMapped'
  BY <1>1 DEF IndInv, OnlyCurrentMapped, tear_down
<1>5. NamesInv'
  BY <1>1, <1>2 DEF NamesInv, EndsWithOther, ToSet
<1>6. ResultsComplete'
  BY <1>1, <1>2 DEF ResultsComplete
<1>7. GroupedByName'
  BY <1>1, <1>2 DEF Grouped, NamesAgree, GroupedByName
<1> QED  BY <1>3, <1>4, <1>5, <1>6, <1>7 DEF IndInv

(* A step that leaves the results alone keeps them complete and grouped.   *)
LEMMA ResultsKept ==
  ASSUME IndInv, UNCHANGED <<benchmarks, matrix_bm_results, result_file, completed>>,
         pc' # "finished", pc' = "terminated" => previous_bm' # i'
  PROVE  ResultsComplete' /\ GroupedByName'
<1>1. Written' = Written
  BY DEF Written
<1> QED  BY <1>1 DEF IndInv, ResultsComplete, GroupedByName

(* ... or the benchmark continues its matrix, ...                          *)
LEMMA ContinueStep ==
  ASSUME Suited, IndInv, Continue
  PROVE  IndInv'
<1>1. /\ pc = "next" /\ pc' = "create" /\ i <= Len(benchmarks)
      /\ previous_bm = 0 \/ benchmarks[previous_bm].name = benchmarks[i].name
      /\ UNCHANGED <<benchmarks, i, previous_bm, matrix_bm_results, result_file, mapped, completed>>
  BY DEF Continue, Goto, StartsMatrix
<1>2. ResultsComplete' /\ GroupedByName'
  BY <1>1, ResultsKept
<1>3. LoopInv'
  BY <1>1 DEF IndInv, LoopInv, Benchmarks
<1>4. NamesInv'
  <2>1. CASE previous_bm = 0
    <3>1. matrix_bm_results' = <<>> /\ result_file' = <<>> /\ DOMAIN <<>> = {}
      BY <1>1, <2>1 DEF IndInv, LoopInv
    <3>2. ToSet(matrix_bm_results') = {}
      BY <3>1 DEF ToSet
    <3> QED  BY <1>1, <3>1, <3>2 DEF NamesInv
  <2>2. CASE benchmarks[previous_bm].name = benchmarks[i].name
    BY <1>1, <2>2 DEF IndInv, NamesInv
  <2> QED  BY <1>1, <2>1, <2>2
<1>5. OnlyCurrentMapped'
  BY <1>1 DEF IndInv, OnlyCurrentMapped
<1> QED  BY <1>2, <1>3, <1>4, <1>5 DEF IndInv

(* ... it is mapped, ...                                                   *)
LEMMA CreateDataFilesStep ==
  ASSUME Suited, IndInv, CreateDataFiles
  PROVE  IndInv'
<1>1. /\ pc = "create" /\ pc' = "run"
      /\ mapped' = mapped \cup {<<i, r>> : r \in DOMAIN Regions(i)}
      /\ UNCHANGED <<benchmarks, i, previous_bm, matrix_bm_results, result_file, completed>>
  BY DEF CreateDataFiles, Goto
<1>2. ResultsComplete' /\ GroupedByName'
  BY <1>1, ResultsKept
<1>3. LoopInv'
  BY <1>1 DEF IndInv, LoopInv, Benchmarks
<1>4. NamesInv'
  BY <1>1 DEF IndInv, NamesInv
<1>5. OnlyCurrentMapped'
  BY <1>1 DEF IndInv, OnlyCurrentMapped, Regions
<1> QED  BY <1>2, <1>3, <1>4, <1>5 DEF IndInv

(* ... or the process ends without a tear down, ...                        *)
LEMMA ThrowsOrKilledStep ==
  ASSUME Suited, IndInv, CreateThrows \/ RunKilled
  PROVE  IndInv'
<1>1. /\ pc \in {"create", "run"} /\ pc' = "terminated" /\ mapped' = {}
      /\ UNCHANGED <<benchmarks, i, previous_bm, matrix_bm_results, result_file, completed>>
  BY DEF CreateThrows, RunKilled, Goto
<1>2. previous_bm' # i'
  BY <1>1, BenchmarksType DEF IndInv, LoopInv
<1>3. ResultsComplete' /\ GroupedByName'
  BY <1>1, <1>2, ResultsKept
<1>4. LoopInv'
  BY <1>1 DEF IndInv, LoopInv, Benchmarks
<1>5. NamesInv' /\ OnlyCurrentMapped'
  BY <1>1 DEF NamesInv, OnlyCurrentMapped
<1> QED  BY <1>3, <1>4, <1>5 DEF IndInv

(* ... it completes, ...                                                   *)
LEMMA RunSucceedsStep ==
  ASSUME Suited, IndInv, RunSucceeds
  PROVE  IndInv'
<1>1. /\ pc = "run" /\ pc' = "next" /\ previous_bm' = i /\ i' = i + 1
      /\ matrix_bm_results' = Append(matrix_bm_results, i)
      /\ completed' = Append(completed, i) /\ tear_down(i, FALSE)
      /\ UNCHANGED <<benchmarks, result_file>>
  BY DEF RunSucceeds, Goto
<1>2. /\ Len(benchmarks) \in Nat /\ Benchmarks = 1 .. Len(benchmarks)
      /\ i \in Benchmarks /\ i \in Nat /\ i <= Len(benchmarks) /\ previous_bm = i - 1
      /\ matrix_bm_results \in Seq(Benchmarks) /\ result_file \in Seq(Entries)
      /\ completed = [b \in 1 .. i - 1 |-> b]
  BY <1>1, BenchmarksType DEF IndInv, LoopInv, Entries
<1>3. completed' = [b \in 1 .. i' - 1 |-> b]
  <2>1. completed \in Seq(Nat) /\ Len(completed) = i - 1
    BY <1>2
  <2>2. Append(completed, i) = [b \in 1 .. i |-> IF b <= i - 1 THEN completed[b] ELSE i]
    <3>1. /\ Append(completed, i) \in Seq(Nat) /\ Len(Append(completed, i)) = i
          /\ \A b \in 1 .. i - 1 : Append(completed, i)[b] = completed[b]
          /\ Append(completed, i)[i] = i
      BY <1>2, <2>1, AppendProperties
    <3>2. Append(completed, i) \in [1 .. i -> Nat]
      BY <3>1, LenProperties
    <3> QED  BY <1>2, <3>1, <3>2
  <2>3. \A b \in 1 .. i : (IF b <= i - 1 THEN completed[b] ELSE i) = b
    BY <1>2
  <2>4. i' - 1 = i
    BY <1>1, <1>2
  <2> QED  BY <1>1, <2>2, <2>3, <2>4
<1>4. matrix_bm_results' \in Seq(Benchmarks)
  BY <1>1, <1>2, AppendProperties
<1>5. LoopInv'
  <2>1. i' \in 1 .. Len(benchmarks) + 1 /\ previous_bm' = i' - 1
        /\ previous_bm' \in 0 .. Len(benchmarks) /\ previous_bm' # 0
    BY <1>1, <1>2
  <2> QED  BY <1>1, <1>2, <1>3, <1>4, <2>1 DEF LoopInv, Benchmarks, Entries
<1>6. NamesInv'
  <2>1. ToSet(matrix_bm_results') = ToSet(matrix_bm_results) \cup {i}
    <3> DEFINE n == Len(matrix_bm_results)
    <3>1. /\ n \in Nat /\ DOMAIN matrix_bm_results = 1 .. n
          /\ DOMAIN matrix_bm_results' = 1 .. n + 1
          /\ \A k \in 1 .. n : matrix_bm_results'[k] = matrix_bm_results[k]
          /\ matrix_bm_results'[n + 1] = i
      BY <1>1, <1>2, <1>4, AppendProperties, LenProperties
    <3> HIDE DEF n
    <3> QED  BY <3>1 DEF ToSet
  <2> QED  BY <1>1, <2>1 DEF IndInv, NamesInv
<1>7. ResultsComplete'
  <2>1. Written' = Written
    BY <1>1 DEF Written
  <2>2. Written \in Seq(Benchmarks)
    BY <1>2, WrittenType
  <2>3. Written \o matrix_bm_results = completed
    BY DEF IndInv, ResultsComplete
  <2>4. <<i>> \in Seq(Benchmarks)
    BY <1>2
  <2>5. Written \o (matrix_bm_results \o <<i>>) = (Written \o matrix_bm_results) \o <<i>>
    BY <1>2, <2>2, <2>4, ConcatAssociative
  <2>6. Append(matrix_bm_results, i) = matrix_bm_results \o <<i>>
    BY <1>2, AppendIsConcat
  <2>7. Written \o matrix_bm_results \in Seq(Benchmarks)
    BY <1>2, <2>2, ConcatProperties
  <2>8. Append(completed, i) = completed \o <<i>>
    BY <1>2, <2>3, <2>7, AppendIsConcat
  <2> QED  BY <1>1, <2>1, <2>3, <2>5, <2>6, <2>8 DEF ResultsComplete
<1>8. GroupedByName'
  BY <1>1 DEF IndInv, GroupedByName
<1>9. OnlyCurrentMapped'
  BY <1>1 DEF IndInv, OnlyCurrentMapped, tear_down
<1> QED  BY <1>5, <1>6, <1>7, <1>8, <1>9 DEF IndInv

(* ... or fails, ...                                                       *)
LEMMA RunFailsStep ==
  ASSUME Suited, IndInv, RunFails
  PROVE  IndInv'
<1>1. /\ pc = "run" /\ pc' = "had_error" /\ previous_bm' = i
      /\ UNCHANGED <<benchmarks, i, matrix_bm_results, result_file, mapped, completed>>
  BY DEF RunFails, Goto
<1>2. ResultsComplete' /\ GroupedByName'
  BY <1>1, ResultsKept
<1>3. LoopInv'
  BY <1>1, BenchmarksType DEF IndInv, LoopInv, Benchmarks
<1>4. NamesInv'
  BY <1>1 DEF IndInv, NamesInv
<1>5. OnlyCurrentMapped'
  BY <1>1 DEF IndInv, OnlyCurrentMapped, Regions
<1> QED  BY <1>2, <1>3, <1>4, <1>5 DEF IndInv

(* ... and what is left is written after the last one ...                  *)
LEMMA FinishStep ==
  ASSUME Suited, IndInv, Finish
  PROVE  IndInv'
<1>1. /\ pc = "next" /\ pc' = "finished" /\ i > Len(benchmarks)
      /\ UNCHANGED <<benchmarks, i, previous_bm, completed>>
  BY DEF Finish, Goto
<1>2. /\ Len(benchmarks) \in Nat /\ i = Len(benchmarks) + 1 /\ previous_bm = Len(benchmarks)
      /\ Len(completed) = Len(benchmarks)
  BY <1>1, BenchmarksType DEF IndInv, LoopInv
<1>3. CASE benchmarks = <<>>
  <2>1. UNCHANGED <<matrix_bm_results, result_file, mapped>>
    BY <1>3 DEF Finish
  <2>2. Written' = Written /\ Written \in Seq(Benchmarks)
    BY <2>1, WrittenType DEF Written, IndInv, LoopInv, Entries
  <2>3. matrix_bm_results = <<>> /\ result_file = <<>>
    BY <1>2, <1>3 DEF IndInv, LoopInv
  <2>4. Written = completed
    BY <2>2, <2>3, ConcatEmptySeq DEF IndInv, ResultsComplete
  <2>5. ResultsComplete'
    BY <1>1, <1>2, <2>1, <2>2, <2>4 DEF IndInv, ResultsComplete
  <2>6. LoopInv'
    BY <1>1, <1>2, <2>1 DEF IndInv, LoopInv, Benchmarks
  <2> QED  BY <1>1, <2>1, <2>5, <2>6 DEF IndInv, NamesInv, GroupedByName, OnlyCurrentMapped
<1>4. CASE benchmarks # <<>>
  <2>1. /\ write_benchmark_results /\ tear_down(previous_bm, TRUE)
        /\ matrix_bm_results' = <<>>
    BY <1>4 DEF Finish
  <2>2. previous_bm # 0
    BY <1>2, <1>4, EmptySeq DEF Suited
  <2>3. /\ result_file' \in Seq(Entries) /\ Written' = completed
        /\ Written' \o matrix_bm_results' = completed /\ Grouped(result_file')
    BY <1>1, <2>1, <2>2, WriteResults
  <2>4. LoopInv'
    BY <1>1, <1>2, <2>1, <2>2, <2>3 DEF IndInv, LoopInv, Entries, Benchmarks
  <2>5. ResultsComplete'
    BY <1>1, <1>2, <2>3 DEF ResultsComplete
  <2>6. GroupedByName'
    BY <1>1, <2>3 DEF Grouped, NamesAgree, GroupedByName
  <2>7. OnlyCurrentMapped'
    BY <1>1, <2>1 DEF IndInv, OnlyCurrentMapped, tear_down
  <2> QED  BY <1>1, <2>4, <2>5, <2>6, <2>7 DEF IndInv, NamesInv
<1> QED  BY <1>3, <1>4

(* ... or after the one that failed.                                       *)
LEMMA FinishWithErrorStep ==
  ASSUME Suited, IndInv, FinishWithError
  PROVE  IndInv'
<1>1. /\ pc = "had_error" /\ pc' = "terminated" /\ write_benchmark_results
      /\ matrix_bm_results' = <<>> /\ tear_down(previous_bm, TRUE)
      /\ UNCHANGED <<benchmarks, i, previous_bm, completed>>
  BY DEF FinishWithError, Goto
<1>2. previous_bm = i /\ previous_bm # 0
  BY <1>1, BenchmarksType DEF IndInv, LoopInv
<1>3. /\ result_file' \in Seq(Entries) /\ Written' = completed
      /\ Written' \o matrix_bm_results' = completed /\ Grouped(result_file')
  BY <1>1, <1>2, WriteResults
<1>4. LoopInv'
  BY <1>1, <1>2, <1>3 DEF IndInv, LoopInv, Entries, Benchmarks
<1>5. ResultsComplete'
  BY <1>1, <1>3 DEF ResultsComplete
<1>6. GroupedByName'
  BY <1>1, <1>3 DEF Grouped, NamesAgree, GroupedByName
<1>7. OnlyCurrentMapped'
  BY <1>1, <1>2 DEF IndInv, OnlyCurrentMapped, tear_down
<1> QED  BY <1>1, <1>4, <1>5, <1>6, <1>7 DEF IndInv, NamesInv

(* The invariant of the loop holds in every reachable state.               *)
LEMMA LoopInvariance == Spec => []IndInv
<1>1. Suited /\ IndInv /\ [Next]_vars => IndInv'
  <2> SUFFICES ASSUME Suited, IndInv, [Next]_vars PROVE IndInv'
    OBVIOUS
  <2>1. CASE UNCHANGED vars
    <3>1. UNCHANGED <<benchmarks, pc, i, previous_bm, matrix_bm_results,
                      result_file, mapped, completed>>
      BY <2>1 DEF vars
    <3>2. LoopInv'
      BY <3>1 DEF IndInv, LoopInv, Benchmarks
    <3>3. NamesInv' /\ GroupedByName'
      BY <3>1 DEF IndInv, NamesInv, GroupedByName
    <3>4. OnlyCurrentMapped' /\ ResultsComplete'
      BY <3>1 DEF IndInv, OnlyCurrentMapped, ResultsComplete, Written, Regions
    <3> QED  BY <3>2, <3>3, <3>4 DEF IndInv
  <2> QED  BY <2>1, FlushPreviousStep, ContinueStep, CreateDataFilesStep, ThrowsOrKilledStep,
              RunSucceedsStep, RunFailsStep, FinishStep, FinishWithErrorStep DEF Next
<1> QED  BY <1>1, InitLoop, SuitedInvariance, PTL DEF Spec

(* No result of a completed benchmark is lost, written twice or out of     *)
(* order, also when a segmentation fault ends the loop.                    *)
THEOREM NoResultLost == Spec => []ResultsComplete
<1>1. IndInv => ResultsComplete
  BY DEF IndInv
<1> QED  BY <1>1, LoopInvariance, PTL

(* The results of a matrix are written as one entry, under their name.     *)
THEOREM ResultsGrouped == Spec => []GroupedByName
<1>1. IndInv => GroupedByName
  BY DEF IndInv
<1> QED  BY <1>1, LoopInvariance, PTL

(* No region stays mapped when the next benchmark is set up.               *)
THEOREM NothingStaysMapped == Spec => []OnlyCurrentMapped
<1>1. IndInv => OnlyCurrentMapped
  BY DEF IndInv
<1> QED  BY <1>1, LoopInvariance, PTL

-----------------------------------------------------------------------------
(* The data files.                                                         *)

(* created is what is left of files, and the files that it lacks of the    *)
(* regions s.                                                              *)
Creates(created, s) ==
  /\ DOMAIN created = DOMAIN files \cup {s[k].file : k \in DOMAIN s}
  /\ \A f \in DOMAIN files : created[f] = files[f]
  /\ \A f \in DOMAIN created \ DOMAIN files : \E k \in DOMAIN s :
       /\ s[k].file = f
       /\ created[f] = [length |-> s[k].config.range, read_data |-> s[k].config.read]

(* The recursion of FoldLeft, over the regions up to each one              *)
Iterates(g, s) ==
  g = [A \in SUBSET (DOMAIN s) |->
         IF A = {} THEN files ELSE CreateFile(g[A \ {Max(A)}], s[Max(A)])]

(* What FoldLeft gives, if its recursion has exactly one solution: the     *)
(* last of the file systems it goes through.                               *)
LEMMA FoldLeftIterates ==
  ASSUME NEW s, NEW g, Iterates(g, s), \A h : Iterates(h, s) => h = g
  PROVE  FoldLeft(CreateFile, files, s) = g[DOMAIN s]
<1>1. FoldLeft(CreateFile, files, s) = (CHOOSE h : Iterates(h, s))[DOMAIN s]
  BY DEF FoldLeft, MapThenFoldSet, Iterates
<1>2. (CHOOSE h : Iterates(h, s)) = g
  OBVIOUS
<1> QED  BY <1>1, <1>2

(* The largest of one or two positions.                                    *)
LEMMA MaxOfPositions == Max({1}) = 1 /\ Max({2}) = 2 /\ Max({1, 2}) = 2
<1>1. Max({1}) = 1
  BY DEF Max
<1>2. Max({2}) = 2
  BY DEF Max
<1>3. Max({1, 2}) = 2
  <2>1. 2 \in {1, 2} /\ \A y \in {1, 2} : 2 >= y
    OBVIOUS
  <2>2. \A x \in {1, 2} : (\A y \in {1, 2} : x >= y) => x = 2
    OBVIOUS
  <2> QED  BY <2>1, <2>2 DEF Max
<1> QED  BY <1>1, <1>2, <1>3

(* A benchmark has two regions at most.                                    *)
LEMMA CreateNone ==
  ASSUME NEW s, DOMAIN s = {}
  PROVE  FoldLeft(CreateFile, files, s) = files
<1> DEFINE g == [A \in SUBSET {} |-> files]
<1>1. \A h : Iterates(h, s) <=> h = g
  <2>1. \A A \in SUBSET {} : A = {}
    OBVIOUS
  <2> QED  BY <2>1 DEF Iterates
<1>2. g[{}] = files
  OBVIOUS
<1> HIDE DEF g
<1> QED  BY <1>1, <1>2, FoldLeftIterates

(* A benchmark creates the file of its one region, ...                     *)
LEMMA CreateOne ==
  ASSUME NEW s, DOMAIN s = {1}
  PROVE  FoldLeft(CreateFile, files, s) = CreateFile(files, s[1])
<1> DEFINE g == [A \in SUBSET {1} |-> IF A = {} THEN files ELSE CreateFile(files, s[1])]
<1>1. \A A \in SUBSET {1} : A = {} \/ A = {1}
  OBVIOUS
<1>2. {1} \ {1} = {} /\ {} \in SUBSET {1} /\ {1} \in SUBSET {1} /\ {1} # {}
  OBVIOUS
<1>3. ASSUME NEW h, Iterates(h, s) PROVE h = g
  <2>1. h = [A \in SUBSET {1} |-> IF A = {} THEN files ELSE CreateFile(h[A \ {Max(A)}], s[Max(A)])]
    BY <1>3 DEF Iterates
  <2>2. h[{}] = files
    BY <1>2, <2>1
  <2>3. h[{1}] = CreateFile(files, s[1])
    BY <1>2, <2>1, <2>2, MaxOfPositions
  <2>4. g[{}] = files /\ g[{1}] = CreateFile(files, s[1])
    BY <1>2
  <2>5. h = [A \in SUBSET {1} |-> h[A]] /\ g = [A \in SUBSET {1} |-> g[A]]
    BY <2>1
  <2> HIDE DEF g
  <2>6. \A A \in SUBSET {1} : h[A] = g[A]
    <3> SUFFICES ASSUME NEW A \in SUBSET {1} PROVE h[A] = g[A]
      OBVIOUS
    <3>1. CASE A = {}
      BY <2>2, <2>4, <3>1
    <3>2. CASE A = {1}
      BY <2>3, <2>4, <3>2
    <3> QED  BY <1>1, <3>1, <3>2
  <2> QED  BY <2>5, <2>6
<1>4. Iterates(g, s)
  <2>1. g[{}] = files
    BY <1>2
  <2>2. \A A \in SUBSET {1} :
          g[A] = IF A = {} THEN files ELSE CreateFile(g[A \ {Max(A)}], s[Max(A)])
    <3>1. g[{1}] = CreateFile(g[{1} \ {Max({1})}], s[Max({1})])
      BY <1>2, <2>1, MaxOfPositions
    <3> HIDE DEF g
    <3> QED  BY <1>1, <1>2, <2>1, <3>1
  <2> QED  BY <2>2 DEF Iterates
<1>5. g[{1}] = CreateFile(files, s[1])
  BY <1>2
<1> HIDE DEF g
<1> QED  BY <1>3, <1>4, <1>5, FoldLeftIterates

(* ... or those of its two regions, one after the other.                   *)
LEMMA CreateTwo ==
  ASSUME NEW s, DOMAIN s = {1, 2}
  PROVE  FoldLeft(CreateFile, files, s) = CreateFile(CreateFile(files, s[1]), s[2])
<1> DEFINE first == CreateFile(files, s[1])
           both == CreateFile(first, s[2])
           g == [A \in SUBSET {1, 2} |-> IF A = {} THEN files
                                         ELSE IF A = {1} THEN first
                                         ELSE IF A = {2} THEN CreateFile(files, s[2])
                                         ELSE both]
<1>1. \A A \in SUBSET {1, 2} : A = {} \/ A = {1} \/ A = {2} \/ A = {1, 2}
  OBVIOUS
<1>2. /\ {1} \ {1} = {} /\ {2} \ {2} = {} /\ {1, 2} \ {2} = {1}
      /\ {} \in SUBSET {1, 2} /\ {1} \in SUBSET {1, 2} /\ {2} \in SUBSET {1, 2}
      /\ {1, 2} \in SUBSET {1, 2}
      /\ {1} # {} /\ {2} # {} /\ {1, 2} # {} /\ {1} # {2} /\ {1, 2} # {1} /\ {1, 2} # {2}
  OBVIOUS
<1>3. g[{}] = files /\ g[{1}] = first /\ g[{2}] = CreateFile(files, s[2]) /\ g[{1, 2}] = both
  BY <1>2
<1>4. ASSUME NEW h, Iterates(h, s) PROVE h = g
  <2> HIDE DEF g, first, both
  <2>1. h = [A \in SUBSET {1, 2} |->
               IF A = {} THEN files ELSE CreateFile(h[A \ {Max(A)}], s[Max(A)])]
    BY <1>4 DEF Iterates
  <2>2. h[{}] = files
    BY <1>2, <2>1
  <2>3. h[{1}] = first
    BY <1>2, <2>1, <2>2, MaxOfPositions DEF first
  <2>4. h[{2}] = CreateFile(files, s[2])
    BY <1>2, <2>1, <2>2, MaxOfPositions
  <2>5. h[{1, 2}] = both
    BY <1>2, <2>1, <2>3, MaxOfPositions DEF both
  <2>6. \A A \in SUBSET {1, 2} : h[A] = g[A]
    <3> SUFFICES ASSUME NEW A \in SUBSET {1, 2} PROVE h[A] = g[A]
      OBVIOUS
    <3>1. CASE A = {}
      BY <1>3, <2>2, <3>1
    <3>2. CASE A = {1}
      BY <1>3, <2>3, <3>2
    <3>3. CASE A = {2}
      BY <1>3, <2>4, <3>3
    <3>4. CASE A = {1, 2}
      BY <1>3, <2>5, <3>4
    <3> QED  BY <1>1, <3>1, <3>2, <3>3, <3>4
  <2>7. h = [A \in SUBSET {1, 2} |-> h[A]] /\ g = [A \in SUBSET {1, 2} |-> g[A]]
    BY <2>1 DEF g
  <2> QED  BY <2>6, <2>7
<1>5. Iterates(g, s)
  <2>1. \A A \in SUBSET {1, 2} :
          g[A] = IF A = {} THEN files ELSE CreateFile(g[A \ {Max(A)}], s[Max(A)])
    <3>1. /\ g[{1}] = CreateFile(g[{1} \ {Max({1})}], s[Max({1})])
          /\ g[{2}] = CreateFile(g[{2} \ {Max({2})}], s[Max({2})])
          /\ g[{1, 2}] = CreateFile(g[{1, 2} \ {Max({1, 2})}], s[Max({1, 2})])
      <4> HIDE DEF g
      <4> QED  BY <1>2, <1>3, MaxOfPositions
    <3> HIDE DEF g, first, both
    <3> QED  BY <1>1, <1>2, <1>3, <3>1
  <2> QED  BY <2>1 DEF Iterates
<1> HIDE DEF g
<1> QED  BY <1>3, <1>4, <1>5, FoldLeftIterates

Adds(created, fs, x) ==
  /\ DOMAIN created = DOMAIN fs \cup {x.file}
  /\ \A f \in DOMAIN fs : created[f] = fs[f]
  /\ x.file \notin DOMAIN fs =>
       created[x.file] = [length |-> x.config.range, read_data |-> x.config.read]

(* A file that exists is not created again.                                *)
LEMMA CreateFileAdds ==
  ASSUME NEW fs, NEW x
  PROVE  Adds(CreateFile(fs, x), fs, x)
BY DEF CreateFile, Adds

(* After all regions were created, every one has its file, and the others  *)
(* are as before.                                                          *)
LEMMA CreatesFiles ==
  ASSUME NEW s, DOMAIN s = {} \/ DOMAIN s = {1} \/ DOMAIN s = {1, 2}
  PROVE  Creates(FoldLeft(CreateFile, files, s), s)
<1>2. CASE DOMAIN s = {}
  BY <1>2, CreateNone DEF Creates
<1>3. CASE DOMAIN s = {1}
  <2>1. {s[k].file : k \in DOMAIN s} = {s[1].file}
    BY <1>3
  <2>2. Adds(CreateFile(files, s[1]), files, s[1])
    BY CreateFileAdds
  <2> DEFINE one == CreateFile(files, s[1])
  <2>3. Adds(one, files, s[1]) /\ FoldLeft(CreateFile, files, s) = one
    BY <1>3, <2>2, CreateOne
  <2> HIDE DEF one
  <2> QED  BY <1>3, <2>1, <2>3 DEF Creates, Adds
<1>4. CASE DOMAIN s = {1, 2}
  <2>1. {s[k].file : k \in DOMAIN s} = {s[1].file, s[2].file}
    BY <1>4
  <2> DEFINE one == CreateFile(files, s[1])
             two == CreateFile(one, s[2])
  <2>2. Adds(one, files, s[1])
    BY CreateFileAdds
  <2>3. Adds(two, one, s[2])
    BY CreateFileAdds
  <2> HIDE DEF one, two
  <2>4. DOMAIN two = DOMAIN files \cup {s[k].file : k \in DOMAIN s}
    BY <2>1, <2>2, <2>3 DEF Adds
  <2>5. \A f \in DOMAIN files : two[f] = files[f]
    BY <2>2, <2>3 DEF Adds
  <2>6. \A f \in DOMAIN two \ DOMAIN files : \E k \in DOMAIN s :
          /\ s[k].file = f
          /\ two[f] = [length |-> s[k].config.range, read_data |-> s[k].config.read]
    BY <1>4, <2>2, <2>3 DEF Adds
  <2>7. FoldLeft(CreateFile, files, s) = two
    BY <1>4, CreateTwo DEF one, two
  <2> QED  BY <2>4, <2>5, <2>6, <2>7 DEF Creates
<1> QED  BY <1>2, <1>3, <1>4

(* Tear down leaves the other files as they are.                           *)
LEMMA TearDownFiles ==
  ASSUME NEW b, NEW force, tear_down(b, force)
  PROVE  /\ DOMAIN files' = DOMAIN files \ Removed(b, force)
         /\ \A f \in DOMAIN files' : f \in DOMAIN files /\ files'[f] = files[f]
BY DEF tear_down

(* A file stays created for a region while it is left as it is.            *)
LEMMA StaysCreated ==
  ASSUME benchmarks' = benchmarks, i' \in Nat, i \in Nat, i <= i', Suited,
         NEW f, files'[f] = files[f],
         \E b \in Benchmarks : b <= i /\ \E r \in DOMAIN Regions(b) : CreatedFor(f, b, r)
  PROVE  \E b \in Benchmarks' : b <= i' /\ \E r \in DOMAIN Regions(b)' : CreatedFor(f, b, r)'
<1>1. PICK b \in Benchmarks : b <= i /\ \E r \in DOMAIN Regions(b) : CreatedFor(f, b, r)
  OBVIOUS
<1>2. PICK r \in DOMAIN Regions(b) : CreatedFor(f, b, r)
  BY <1>1
<1>3. b \in Benchmarks' /\ r \in DOMAIN Regions(b)' /\ CreatedFor(f, b, r)'
  BY <1>2 DEF Benchmarks, Regions, CreatedFor
<1>4. b \in Nat /\ b <= i'
  BY <1>1, BenchmarksType
<1> QED  BY <1>3, <1>4

(* Whether a file is left behind depends on the benchmarks only.           *)
LEMMA LeftBehindStays ==
  ASSUME benchmarks' = benchmarks, NEW f, LeftBehind(f)
  PROVE  LeftBehind(f)'
BY DEF LeftBehind, LastOfName, Benchmarks, Regions

(* After a forced tear down of the last benchmark of a name, a file that   *)
(* is still there was shared by others of the name and not used by it.     *)
LEMMA ForcedTearDown ==
  ASSUME Suited, FilesInv, pc = "next", previous_bm \in Benchmarks, LastOfName(previous_bm),
         NEW f \in DOMAIN files, f \notin Removed(previous_bm, TRUE)
  PROVE  LeftBehind(f)
<1>1. CASE LeftBehind(f)
  BY <1>1
<1>2. CASE InUse(f, previous_bm)
  <2>1. PICK c \in 1 .. previous_bm : \E r \in DOMAIN Regions(c) :
             /\ benchmarks[c].name = benchmarks[previous_bm].name
             /\ Regions(c)[r].file = f /\ ~Regions(c)[r].owns_pmem_file
    BY <1>2 DEF InUse
  <2>2. is_pmem
    BY DEF FilesInv
  <2>3. \A q \in DOMAIN Regions(previous_bm) : Regions(previous_bm)[q].file # f
    BY <2>2 DEF Removed
  <2>4. previous_bm \in Nat /\ c # previous_bm
    BY <2>1, <2>3, BenchmarksType
  <2>5. c \in 1 .. previous_bm - 1
    BY <2>4
  <2> QED  BY <2>1, <2>3, <2>5 DEF LeftBehind
<1> QED  BY <1>1, <1>2 DEF FilesInv

(* The steps of the loop and the files: the tear down of the previous name *)
(* deletes its own, ...                                                    *)
LEMMA FlushPreviousFiles ==
  ASSUME Suited, IndInv, FilesInv, FlushPrevious
  PROVE  FilesInv'
<1>1. /\ pc = "next" /\ pc' = "create" /\ previous_bm # 0 /\ i <= Len(benchmarks)
      /\ benchmarks[previous_bm].name # benchmarks[i].name /\ tear_down(previous_bm, TRUE)
      /\ benchmarks' = benchmarks /\ i' = i /\ is_pmem' = is_pmem
  BY DEF FlushPrevious, Goto, StartsMatrix
<1>2. i \in Nat /\ previous_bm = i - 1 /\ previous_bm \in Benchmarks
  BY <1>1, BenchmarksType DEF IndInv, LoopInv
<1>3. LastOfName(previous_bm)
  BY <1>1, <1>2 DEF LastOfName
<1>4. ASSUME NEW f \in DOMAIN files'
      PROVE  /\ \E b \in Benchmarks' : b <= i' /\ \E r \in DOMAIN Regions(b)' : CreatedFor(f, b, r)'
             /\ LeftBehind(f)'
  <2>1. f \in DOMAIN files /\ files'[f] = files[f] /\ f \notin Removed(previous_bm, TRUE)
    BY <1>1, TearDownFiles
  <2>2. LeftBehind(f)'
    BY <1>1, <1>2, <1>3, <2>1, ForcedTearDown, LeftBehindStays
  <2>3. \E b \in Benchmarks : b <= i /\ \E r \in DOMAIN Regions(b) : CreatedFor(f, b, r)
    BY <1>1, <2>1 DEF FilesInv
  <2>4. i' \in Nat /\ i <= i'
    BY <1>1, <1>2
  <2>5. \E b \in Benchmarks' : b <= i' /\ \E r \in DOMAIN Regions(b)' : CreatedFor(f, b, r)'
    BY <1>1, <1>2, <2>1, <2>3, <2>4, StaysCreated
  <2> QED  BY <2>2, <2>5
<1>5. ~is_pmem' => DOMAIN files' = {}
  BY <1>1, TearDownFiles DEF FilesInv
<1> QED  BY <1>1, <1>4, <1>5 DEF FilesInv, CleanUpUnlessMixed

(* ... within a matrix those still in use stay, ...                        *)
LEMMA ContinueFiles ==
  ASSUME Suited, IndInv, FilesInv, Continue
  PROVE  FilesInv'
<1>1. /\ pc = "next" /\ pc' = "create" /\ i <= Len(benchmarks)
      /\ previous_bm = 0 \/ benchmarks[previous_bm].name = benchmarks[i].name
      /\ UNCHANGED <<benchmarks, is_pmem, i, files>>
  BY DEF Continue, Goto, StartsMatrix
<1>2. i \in Nat /\ previous_bm = i - 1
  BY <1>1, BenchmarksType DEF IndInv, LoopInv
<1>3. ASSUME NEW f \in DOMAIN files
      PROVE  /\ \E b \in Benchmarks' : b <= i' /\ \E r \in DOMAIN Regions(b)' : CreatedFor(f, b, r)'
             /\ LeftBehind(f)' \/ InUse(f, i)'
  <2>1. /\ \E b \in Benchmarks : b <= i /\ \E r \in DOMAIN Regions(b) : CreatedFor(f, b, r)
        /\ LeftBehind(f) \/ InUse(f, previous_bm)
    BY <1>1 DEF FilesInv
  <2>2. ASSUME InUse(f, previous_bm) PROVE InUse(f, i)'
    <3>1. PICK c \in 1 .. previous_bm : \E r \in DOMAIN Regions(c) :
               /\ benchmarks[c].name = benchmarks[previous_bm].name
               /\ Regions(c)[r].file = f /\ ~Regions(c)[r].owns_pmem_file
      BY <1>1, <2>2 DEF InUse
    <3>2. c \in 1 .. i /\ benchmarks[c].name = benchmarks[i].name
      BY <1>1, <1>2, <3>1
    <3> QED  BY <1>1, <3>1, <3>2 DEF InUse, Regions
  <2>3. LeftBehind(f) => LeftBehind(f)'
    BY <1>1, LeftBehindStays
  <2>4. files'[f] = files[f] /\ i' = i
    BY <1>1
  <2> QED  BY <1>1, <1>2, <2>1, <2>2, <2>3, <2>4, StaysCreated
<1> QED  BY <1>1, <1>3 DEF FilesInv, CleanUpUnlessMixed

(* ... missing ones are created, ...                                       *)
LEMMA CreateDataFilesFiles ==
  ASSUME Suited, IndInv, FilesInv, CreateDataFiles
  PROVE  FilesInv'
<1> DEFINE s == Regions(i)
<1>1. /\ pc = "create" /\ pc' = "run" /\ files' = CreateFiles(i, Len(s))
      /\ UNCHANGED <<benchmarks, is_pmem, i>>
  BY DEF CreateDataFiles, Goto
<1>2. i \in Nat /\ i \in Benchmarks
  BY <1>1, BenchmarksType DEF IndInv, LoopInv
<1>3. CASE ~is_pmem
  <2>1. DOMAIN files' = {}
    BY <1>1, <1>3 DEF CreateFiles, FilesInv
  <2> QED  BY <1>1, <1>3, <2>1 DEF FilesInv, CleanUpUnlessMixed
<1>4. CASE is_pmem
  <2>1. Creates(files', s)
    <3>1. DOMAIN s = 1 .. Len(s) /\ Len(s) \in {1, 2}
      BY <1>2, RegionsType
    <3>2. SubSeq(s, 1, Len(s)) = s
      <4>1. s \in Seq({s[k] : k \in DOMAIN s})
        <5> PICK suite \in Suites :
               \E place : benchmarks \in Seq(AllBenchmarks(suite)) /\ PlacedAt(place, suite, benchmarks)
          BY DEF Suited
        <5>1. PICK place :
                   benchmarks \in Seq(AllBenchmarks(suite)) /\ PlacedAt(place, suite, benchmarks)
          OBVIOUS
        <5>2. \E e, c, d : FromEntry(suite, benchmarks[i], e, c, d)
          BY <1>2, <5>1, BenchmarksType DEF PlacedAt
        <5>3. \E x : s = <<x>> \/ \E y : s = <<x, y>>
          BY <5>2 DEF FromEntry, SingleBenchmark, ParallelBenchmark, Regions
        <5> QED  BY <5>3
      <4> QED  BY <4>1, SubSeqFull
    <3>3. files' = FoldLeft(CreateFile, files, s)
      BY <1>1, <1>4, <3>2 DEF CreateFiles
    <3>4. DOMAIN s = {1} \/ DOMAIN s = {1, 2}
      BY <3>1
    <3> HIDE DEF s
    <3> QED  BY <3>3, <3>4, CreatesFiles
  <2>2. \A r \in DOMAIN Regions(i)' : Regions(i)'[r].file \in DOMAIN files'
    BY <1>1, <2>1 DEF Creates, Regions
  <2>3. ASSUME NEW f \in DOMAIN files'
        PROVE  /\ \E b \in Benchmarks' : b <= i' /\ \E r \in DOMAIN Regions(b)' : CreatedFor(f, b, r)'
               /\ LeftBehind(f)' \/ InUse(f, i)'
    <3>1. CASE f \in DOMAIN files
      <4>1. /\ \E b \in Benchmarks : b <= i /\ \E r \in DOMAIN Regions(b) : CreatedFor(f, b, r)
            /\ LeftBehind(f) \/ InUse(f, i)
        BY <1>1, <3>1 DEF FilesInv
      <4>2. files'[f] = files[f]
        BY <2>1, <3>1 DEF Creates
      <4>3. LeftBehind(f) => LeftBehind(f)'
        BY <1>1, LeftBehindStays
      <4>4. InUse(f, i) => InUse(f, i)'
        BY <1>1 DEF InUse, Regions
      <4>5. i' \in Nat /\ i <= i'
        BY <1>1, <1>2
      <4>6. \E b \in Benchmarks' : b <= i' /\ \E r \in DOMAIN Regions(b)' : CreatedFor(f, b, r)'
        BY <1>1, <1>2, <4>1, <4>2, <4>5, StaysCreated
      <4> QED  BY <4>1, <4>3, <4>4, <4>6
    <3>2. CASE f \notin DOMAIN files
      <4>1. PICK k \in DOMAIN s :
                 /\ s[k].file = f
                 /\ files'[f] = [length |-> s[k].config.range, read_data |-> s[k].config.read]
        BY <2>1, <3>2 DEF Creates
      <4>2. PICK b \in Benchmarks : b = i
        BY <1>2
      <4>3. b \in Benchmarks' /\ b <= i' /\ k \in DOMAIN Regions(b)' /\ CreatedFor(f, b, k)'
        BY <1>1, <1>2, <4>1, <4>2 DEF CreatedFor, Regions, Benchmarks
      <4>4. InUse(f, i)'
        <5>1. i \in 1 .. i /\ i' = i
          BY <1>1, <1>2, BenchmarksType
        <5> QED  BY <1>1, <4>1, <5>1 DEF InUse, Regions
      <4> QED  BY <4>3, <4>4
    <3> QED  BY <3>1, <3>2
  <2>4. is_pmem' /\ pc' = "run"
    BY <1>1, <1>4
  <2> QED  BY <1>1, <2>2, <2>3, <2>4 DEF FilesInv, CleanUpUnlessMixed
<1> QED  BY <1>3, <1>4

(* ... a run leaves them alone, ...                                        *)
LEMMA RunSucceedsFiles ==
  ASSUME Suited, IndInv, FilesInv, RunSucceeds
  PROVE  FilesInv'
<1>1. /\ pc = "run" /\ pc' = "next" /\ previous_bm' = i /\ i' = i + 1 /\ tear_down(i, FALSE)
      /\ benchmarks' = benchmarks /\ is_pmem' = is_pmem
  BY DEF RunSucceeds, Goto
<1>2. i \in Nat /\ i \in Benchmarks
  BY <1>1, BenchmarksType DEF IndInv, LoopInv
<1>3. ASSUME NEW f \in DOMAIN files'
      PROVE  /\ \E b \in Benchmarks' : b <= i' /\ \E r \in DOMAIN Regions(b)' : CreatedFor(f, b, r)'
             /\ LeftBehind(f)' \/ InUse(f, previous_bm)'
  <2>1. f \in DOMAIN files /\ files'[f] = files[f] /\ f \notin Removed(i, FALSE)
    BY <1>1, TearDownFiles
  <2>2. /\ \E b \in Benchmarks : b <= i /\ \E r \in DOMAIN Regions(b) : CreatedFor(f, b, r)
        /\ LeftBehind(f) \/ InUse(f, i)
    BY <1>1, <2>1 DEF FilesInv
  <2>3. i' \in Nat /\ i <= i'
    BY <1>1, <1>2
  <2>4. \E b \in Benchmarks' : b <= i' /\ \E r \in DOMAIN Regions(b)' : CreatedFor(f, b, r)'
    BY <1>1, <1>2, <2>1, <2>2, <2>3, StaysCreated
  <2>5. ASSUME InUse(f, i) PROVE InUse(f, previous_bm)'
    <3>1. PICK c \in 1 .. i : \E r \in DOMAIN Regions(c) :
               /\ benchmarks[c].name = benchmarks[i].name /\ Regions(c)[r].file = f
               /\ ~Regions(c)[r].owns_pmem_file \/ c = i
      BY <2>5 DEF InUse
    <3>2. PICK r \in DOMAIN Regions(c) :
               /\ benchmarks[c].name = benchmarks[i].name /\ Regions(c)[r].file = f
               /\ ~Regions(c)[r].owns_pmem_file \/ c = i
      BY <3>1
    <3>3. is_pmem
      BY <2>1 DEF FilesInv
    <3>4. ~Regions(c)[r].owns_pmem_file
      BY <2>1, <3>2, <3>3 DEF Removed
    <3> QED  BY <1>1, <3>2, <3>4 DEF InUse, Regions
  <2>6. LeftBehind(f) => LeftBehind(f)'
    BY <1>1, LeftBehindStays
  <2> QED  BY <2>2, <2>4, <2>5, <2>6
<1>4. ~is_pmem' => DOMAIN files' = {}
  BY <1>1, TearDownFiles DEF FilesInv
<1> QED  BY <1>1, <1>3, <1>4 DEF FilesInv, CleanUpUnlessMixed

(* ... also one that fails, ...                                            *)
LEMMA RunFailsFiles ==
  ASSUME Suited, IndInv, FilesInv, RunFails
  PROVE  FilesInv'
<1>1. /\ pc = "run" /\ pc' = "had_error" /\ previous_bm' = i
      /\ UNCHANGED <<benchmarks, is_pmem, i, files>>
  BY DEF RunFails, Goto
<1>2. i \in Nat
  BY <1>1, BenchmarksType DEF IndInv, LoopInv
<1>3. ASSUME NEW f \in DOMAIN files
      PROVE  /\ \E b \in Benchmarks' : b <= i' /\ \E r \in DOMAIN Regions(b)' : CreatedFor(f, b, r)'
             /\ LeftBehind(f)' \/ InUse(f, previous_bm)'
  <2>1. /\ \E b \in Benchmarks : b <= i /\ \E r \in DOMAIN Regions(b) : CreatedFor(f, b, r)
        /\ LeftBehind(f) \/ InUse(f, i)
    BY <1>1 DEF FilesInv
  <2>2. i' \in Nat /\ i <= i' /\ files'[f] = files[f]
    BY <1>1, <1>2
  <2>3. \E b \in Benchmarks' : b <= i' /\ \E r \in DOMAIN Regions(b)' : CreatedFor(f, b, r)'
    BY <1>1, <1>2, <2>1, <2>2, StaysCreated
  <2>4. InUse(f, i) => InUse(f, previous_bm)'
    BY <1>1 DEF InUse, Regions
  <2>5. LeftBehind(f) => LeftBehind(f)'
    BY <1>1, LeftBehindStays
  <2> QED  BY <2>1, <2>3, <2>4, <2>5
<1>4. is_pmem' => \A r \in DOMAIN Regions(i)' : Regions(i)'[r].file \in DOMAIN files'
  BY <1>1 DEF FilesInv, Regions
<1> QED  BY <1>1, <1>3, <1>4 DEF FilesInv, CleanUpUnlessMixed

(* ... and at the end those of the last benchmark are deleted, ...         *)
LEMMA FinishFiles ==
  ASSUME Suited, IndInv, FilesInv, Finish
  PROVE  FilesInv'
<1>1. /\ pc = "next" /\ pc' = "finished" /\ i > Len(benchmarks)
      /\ UNCHANGED <<benchmarks, is_pmem, i, previous_bm>>
  BY DEF Finish, Goto
<1>2. /\ Len(benchmarks) \in Nat /\ Benchmarks = 1 .. Len(benchmarks)
      /\ previous_bm = Len(benchmarks)
  BY <1>1, BenchmarksType DEF IndInv, LoopInv
<1>3. CASE benchmarks = <<>>
  <2>1. files' = files /\ Benchmarks = {}
    BY <1>3 DEF Finish, Benchmarks
  <2>2. DOMAIN files = {}
    BY <1>1, <2>1 DEF FilesInv
  <2> QED  BY <1>1, <2>1, <2>2 DEF FilesInv, CleanUpUnlessMixed
<1>4. CASE benchmarks # <<>>
  <2>1. tear_down(previous_bm, TRUE)
    BY <1>4 DEF Finish
  <2>2. previous_bm \in Benchmarks /\ LastOfName(previous_bm)
    BY <1>2, <1>4, EmptySeq DEF LastOfName, Suited
  <2>3. ASSUME NEW f \in DOMAIN files'
        PROVE  LeftBehind(f)'
    <3>1. f \in DOMAIN files /\ f \notin Removed(previous_bm, TRUE)
      BY <2>1, TearDownFiles
    <3> QED  BY <1>1, <2>2, <3>1, ForcedTearDown, LeftBehindStays
  <2>4. ~is_pmem' => DOMAIN files' = {}
    BY <1>1, <2>1, TearDownFiles DEF FilesInv
  <2> QED  BY <1>1, <2>3, <2>4 DEF FilesInv, CleanUpUnlessMixed
<1> QED  BY <1>3, <1>4

(* ... unless the process has ended in an error.                           *)
LEMMA TerminatesFiles ==
  ASSUME FilesInv, CreateThrows \/ RunKilled \/ FinishWithError
  PROVE  FilesInv'
<1>1. pc' = "terminated" /\ is_pmem' = is_pmem
  BY DEF CreateThrows, RunKilled, FinishWithError, Goto
<1>2. ~is_pmem => DOMAIN files' = {}
  BY TearDownFiles DEF CreateThrows, CreateFiles, RunKilled, FinishWithError, FilesInv
<1> QED  BY <1>1, <1>2 DEF FilesInv, CleanUpUnlessMixed

(* The invariant of the data files holds in every reachable state.         *)
LEMMA FilesInvariance == Spec => []FilesInv
<1>1. Init => FilesInv
  BY DEF Init, FilesInv, CleanUpUnlessMixed
<1>2. Suited /\ IndInv /\ FilesInv /\ [Next]_vars => FilesInv'
  <2> SUFFICES ASSUME Suited, IndInv, FilesInv, [Next]_vars PROVE FilesInv'
    OBVIOUS
  <2>1. CASE UNCHANGED vars
    <3>1. UNCHANGED <<benchmarks, is_pmem, pc, i, previous_bm, files>>
      BY <2>1 DEF vars
    <3> QED  BY <3>1 DEF FilesInv, CleanUpUnlessMixed, LeftBehind, LastOfName, InUse,
                         CreatedFor, Benchmarks, Regions
  <2> QED  BY <2>1, FlushPreviousFiles, ContinueFiles, CreateDataFilesFiles, RunSucceedsFiles,
              RunFailsFiles, FinishFiles, TerminatesFiles DEF Next
<1> QED  BY <1>1, <1>2, SuitedInvariance, LoopInvariance, PTL DEF Spec

(* A reader never finds a file without generated data, whoever created it, *)
(* nor one that is too small unless a smaller config came first.           *)
THEOREM ReadersServed == Spec => []ReadsFindData
<1>1. Suited /\ IndInv /\ FilesInv => ReadsFindData
  <2> SUFFICES ASSUME Suited, IndInv, FilesInv, pc = "run", is_pmem, NEW r \in DOMAIN Regions(i)
               PROVE  /\ Regions(i)[r].config.read => files[Regions(i)[r].file].read_data
                      /\ FirstUserIsLargest(i, r) => ~BeyondFile(i, r)
    BY DEF ReadsFindData
  <2> DEFINE f == Regions(i)[r].file
  <2>1. i \in Benchmarks /\ i \in Nat
    BY BenchmarksType DEF IndInv, LoopInv
  <2>2. f \in DOMAIN files
    BY DEF FilesInv
  <2>3. PICK b \in Benchmarks : b <= i /\ \E q \in DOMAIN Regions(b) : CreatedFor(f, b, q)
    BY <2>2 DEF FilesInv
  <2>4. PICK q \in DOMAIN Regions(b) : CreatedFor(f, b, q)
    BY <2>3
  <2>5. /\ Regions(b)[q].file = f
        /\ files[f].length = Regions(b)[q].config.range
        /\ files[f].read_data = Regions(b)[q].config.read
    BY <2>4 DEF CreatedFor
  <2>6. /\ Regions(b)[q].owns_pmem_file = Regions(i)[r].owns_pmem_file
        /\ Regions(b)[q].owns_pmem_file => b = i
        /\ b = i => q = r
    BY <2>1, <2>5, SameFile
  <2>7. RegionType(Regions(b)[q]) /\ RegionType(Regions(i)[r])
    BY <2>1, RegionsType
  <2>8. Regions(i)[r].config.read => files[f].read_data
    BY <2>5, <2>6, <2>7 DEF RegionType
  <2>9. ASSUME FirstUserIsLargest(i, r) PROVE ~BeyondFile(i, r)
    <3>1. b \in 1 .. i
      BY <2>1, <2>3, BenchmarksType
    <3>2. Regions(b)[q].config.range >= Regions(i)[r].config.range
      BY <2>5, <2>9, <3>1 DEF FirstUserIsLargest
    <3> QED  BY <2>5, <2>7, <3>2 DEF BeyondFile, RegionType
  <2> QED  BY <2>8, <2>9
<1> QED  BY <1>1, SuitedInvariance, LoopInvariance, FilesInvariance, PTL

(* At the end the directory is clean, but for the files of matrices whose  *)
(* last benchmark does not share them.                                     *)
THEOREM CleanedUp == Spec => []CleanUpUnlessMixed
<1>1. FilesInv => CleanUpUnlessMixed
  BY DEF FilesInv
<1> QED  BY <1>1, FilesInvariance, PTL
=============================================================================

--------------------------- MODULE MCBenchmarkSuite ---------------------------
(* Bounded suites for BenchmarkSuite.                                       *)
EXTENDS BenchmarkSuite

(* Read-only, write-only and custom read-write configs over one or two     *)
(* units of memory                                                         *)
Config(read, write, range) == [read |-> read, write |-> write, range |-> range]
ReadSmall == Config(TRUE, FALSE, 1)
ReadLarge == Config(TRUE, FALSE, 2)
Write == Config(FALSE, TRUE, 1)
ReadWrite == Config(TRUE, TRUE, 1)
Configs == {ReadSmall, ReadLarge, Write, ReadWrite}

Single(name, c) == Entry(name, FALSE, FALSE, <<c>>, <<>>)
Matrix(name, cs) == Entry(name, FALSE, TRUE, cs, <<>>)
Parallel(name, cs, ds) == Entry(name, TRUE, TRUE, cs, ds)

Pairs(S) == {<<c, d>> : c \in S, d \in S}

Names == {"a", "b"}

SingleEntries == {Single(n, c) : n \in Names, c \in {ReadLarge, Write}}
                   \cup {Matrix(n, cs) : n \in Names, cs \in Pairs(Configs)}
ParallelEntries ==
  {Parallel(n, <<c>>, ds) : n \in Names, c \in Configs,
                            ds \in Pairs({ReadLarge, ReadSmall, Write})}

(* No entry, one, or two with the same or with different names             *)
SmallSuites == {<<>>} \cup {<<e, f>> : e \in SingleEntries,
                                       f \in SingleEntries \cup ParallelEntries}
=============================================================================

------------------------------- MODULE MCStartup -------------------------------
(* Machines, command lines and YAML documents for Startup.                   *)
EXTENDS Startup

TwoSockets(pmem_node) == Machine({0, 1}, {0, 1}, {{0, 1}}, pmem_node, TRUE, TRUE)

SmallMachines ==
  {Machine({0}, {0}, {}, 0, TRUE, TRUE),
   TwoSockets(0), TwoSockets(1), TwoSockets(-1),
   Machine({0, 1}, {0, 1}, {}, 1, TRUE, TRUE),            \* unknown distances
   Machine({0, 1}, {0}, {{0, 1}}, 1, TRUE, TRUE),         \* memory-only node
   Machine({0, 1, 2}, {0, 1}, {{0, 1}, {0, 2}}, 2, TRUE, TRUE),  \* PMem next to node 1
   Machine({0, 2}, {0, 2}, {{0, 2}}, 2, TRUE, TRUE),      \* a gap
   Machine({0, 1, 3}, {0, 1, 3}, {{0, 1}, {0, 3}}, 3, TRUE, TRUE),
   Machine({0, 1, 4}, {0, 1, 4}, {{0, 1}, {0, 4}}, 4, TRUE, TRUE),
   Machine({0, 1, 2}, {0, 1, 2}, {{0, 2}}, 0, TRUE, TRUE),
   Machine({0, 1, 2, 3}, {0, 1, 2, 3},                    \* two clusters
           {{0, 2}, {0, 3}, {1, 2}, {1, 3}}, 3, TRUE, TRUE),
   Machine({0}, {0}, {}, 0, FALSE, TRUE),
   Machine({0, 1}, {0, 1}, {{0, 1}}, 0, TRUE, FALSE)}

Pinned(dram, numa) == Options(IF dram THEN "none" ELSE "empty", dram, numa, FALSE)

SmallCommandLines ==
  {Pinned(FALSE, numa) : numa \in {<<>>, <<0>>, <<1>>, <<0, 1>>, <<2>>, <<0, 0, 0>>}} \cup
  {Pinned(TRUE, numa) : numa \in {<<>>, <<1>>}} \cup
  {Options("empty", FALSE, <<>>, TRUE), Options("empty", FALSE, <<0>>, TRUE),
   Options("none", FALSE, <<>>, FALSE), Options("empty", TRUE, <<>>, FALSE),
   Options("not_empty", FALSE, <<>>, FALSE)}

SmallKeys == {"access_size", "number_threads", "numa_pattern"}
Defaults == [key \in SmallKeys |->
  CASE key = "access_size" -> "256" [] key = "number_threads" -> "1"
    [] key = "numa_pattern" -> "near"]

Size(id) == Pair("access_size", Node(id, "64"))
Threads(id) == Pair("number_threads", Node(id, "2"))
Pattern(id, value) == Pair("numa_pattern", Node(id, value))

Sizes == MatrixArg("access_size", "sequence", <<Node(21, "64"), Node(22, "128")>>)
ManyThreads == MatrixArg("number_threads", "sequence",
                         <<Node(23, "4"), Node(24, "8"), Node(25, "16")>>)
FewThreads == MatrixArg("number_threads", "sequence", <<Node(23, "4"), Node(24, "8")>>)
Patterns == MatrixArg("numa_pattern", "sequence", <<Node(26, "far"), Node(27, "near")>>)
OtherSizes == MatrixArg("access_size", "sequence", <<Node(28, "256"), Node(29, "512")>>)
TypoArg == MatrixArg("typo", "sequence", <<Node(30, "1")>>)
SharedSizes == MatrixArg("access_size", "sequence", <<Node(1, "64")>>)
SharedThreads == MatrixArg("number_threads", "sequence", <<Node(1, "64")>>)
Not(kind) == MatrixArg("number_threads", kind, <<>>)

Plain(args) == Arguments(TRUE, TRUE, args, "none", <<>>)
Matrix(args, matrix) == Arguments(TRUE, TRUE, args, "map", matrix)
Side(arg) == [arg EXCEPT !.single = FALSE]

SmallArguments == <<Size(1), Threads(2)>>
TypoNode(id) == Pair("typo", Node(id, "64"))

SmallDocuments ==
  {<<>>,
   <<Plain(SmallArguments), Plain(<<Pattern(3, "far")>>), Plain(<<>>)>>,
   <<Side(Plain(<<Pattern(1, "far")>>)), Side(Plain(<<Size(2)>>))>>,
   <<Plain(<<>>), Side(Matrix(<<>>, <<Patterns>>)), Side(Matrix(SmallArguments, <<Sizes>>))>>,
   <<Matrix(SmallArguments, <<Sizes, ManyThreads>>)>>,
   <<Matrix(<<Threads(1)>>, <<Sizes, FewThreads, OtherSizes>>)>>,
   <<Matrix(<<Pattern(1, "near")>>, <<Patterns>>), Plain(<<>>)>>,
   \* unknown and repeated keys
   <<Plain(<<Size(1), TypoNode(2)>>)>>,
   <<Plain(<<Size(1), Pair("access_size", Node(2, "128"))>>)>>,
   <<Matrix(<<Size(1), Size(2)>>, <<Sizes>>)>>,
   <<Matrix(<<>>, <<Sizes, TypoArg>>)>>,
   \* aliases
   <<Plain(<<Size(1), TypoNode(1)>>)>>,
   <<Plain(<<Size(1), Size(1)>>)>>,
   <<Plain(<<Size(1), Pair("number_threads", Node(1, "64"))>>)>>,
   <<Matrix(<<Size(1), Pair("number_threads", Node(1, "64"))>>, <<Sizes>>)>>,
   <<Plain(SmallArguments), Plain(SmallArguments)>>,
   <<Plain(SmallArguments), Matrix(SmallArguments, <<Sizes>>)>>,
   <<Plain(SmallArguments), Matrix(SmallArguments, <<ManyThreads, Sizes>>)>>,
   <<Matrix(SmallArguments, <<Sizes>>), Plain(SmallArguments)>>,
   <<Matrix(<<Size(1), TypoNode(1)>>, <<TypoArg>>)>>,
   <<Matrix(<<Size(1)>>, <<SharedThreads>>)>>,
   <<Matrix(<<>>, <<SharedSizes, SharedThreads>>)>>,
   <<Plain(<<Size(1)>>), Matrix(<<>>, <<SharedSizes>>)>>,
   <<Side(Matrix(SmallArguments, <<Sizes>>)), Side(Matrix(SmallArguments, <<ManyThreads>>))>>,
   \* the shape of the matrix
   <<Matrix(<<TypoNode(1)>>, <<>>)>>,
   <<Matrix(<<>>, <<Sizes, Not("null"), OtherSizes>>)>>,
   <<Matrix(<<TypoNode(1)>>, <<Sizes, Not("sequence")>>)>>,
   <<Matrix(<<>>, <<Sizes, Not("other")>>)>>,
   <<Arguments(TRUE, TRUE, <<>>, "other", <<>>)>>,
   <<Arguments(TRUE, FALSE, <<>>, "map", <<>>)>>,
   <<Plain(<<Pair("number_threads", Node(1, "0"))>>)>>,
   <<Plain(<<>>), Matrix(<<>>, <<MatrixArg("number_threads", "sequence",
                                           <<Node(31, "1"), Node(32, "0")>>)>>)>>}
=============================================================================

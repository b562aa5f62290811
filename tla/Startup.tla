-------------------------------- MODULE Startup --------------------------------
(***************************************************************************)
(* From the command line to the threads (main in perma.cpp): the options,  *)
(* the binding of the main thread, the configurations, and where the       *)
(* threads of each benchmark run.  A placement is the set of nodes whose   *)
(* CPUs a thread may use.                                                  *)
(***************************************************************************)
EXTENDS BenchmarkFactory

CONSTANTS CommandLines  \* see Options

ASSUME CommandLinesAssumption ==
  \A line \in CommandLines :
    line.dram \in BOOLEAN /\ line.no_numa \in BOOLEAN /\ line.numa \in Seq(Nat)

(* What follows --path (none, empty: a directory without files, or         *)
(* not_empty), --dram, --numa and --no-numa                                *)
Options(path, dram, numa, no_numa) ==
  [path |-> path, dram |-> dram, numa |-> numa, no_numa |-> no_numa]

VARIABLES options,
          inherited,  \* the binding that the process was started with
          phase,      \* of main
          bm,         \* the benchmark of the suite to run next
          running,    \* the configurations of the last one
          placed      \* for each that has threads: where these run

vars == <<numa_vars, factory_vars, options, inherited, phase, bm, running, placed>>
main_vars == <<options, inherited>>

Init ==
  /\ NumaInit /\ FactoryInit
  /\ options \in CommandLines
  /\ inherited = run_mask
  /\ phase = "options" /\ bm = 1 /\ running = <<>> /\ placed = <<>>

Goto(from, to) == phase = from /\ phase' = to

-----------------------------------------------------------------------------
(* main.                                                                   *)

(* --path or --dram but not both, and not --no-numa with --numa            *)
Accepted ==
  /\ options.path # "not_empty"
  /\ options.dram <=> options.path = "none"
  /\ ~(options.no_numa /\ options.numa # <<>>)

RejectOptions ==
  /\ ~Accepted
  /\ Goto("options", "failed")
  /\ UNCHANGED <<numa_vars, factory_vars, main_vars, bm, running, placed>>

InitNuma ==
  /\ Accepted
  /\ Goto("options", "factory")
  /\ init_numa(options.numa, options.dram, options.no_numa)
  /\ UNCHANGED <<factory_vars, main_vars, bm, running, placed>>

InitNumaThrows ==
  /\ Accepted
  /\ Goto("options", "failed")
  /\ init_numa_throws(options.numa, options.dram, options.no_numa)
  /\ UNCHANGED <<factory_vars, main_vars, bm, running, placed>>

Create ==
  /\ phase = "factory"
  /\ FactoryNext
  /\ UNCHANGED <<numa_vars, main_vars, phase, bm, running, placed>>

CreateFails ==
  /\ error # "none"
  /\ Goto("factory", "failed")
  /\ UNCHANGED <<numa_vars, factory_vars, main_vars, bm, running, placed>>

Created ==
  /\ current > Len(document)
  /\ Goto("factory", "suite")
  /\ UNCHANGED <<numa_vars, factory_vars, main_vars, bm, running, placed>>

(* The benchmarks that arguments j give, with arguments j + 1 in a         *)
(* parallel one, whose two follow all single ones                          *)
Singles == Cardinality({j \in DOMAIN document : document[j].single})
BenchmarksOf(j) ==
  IF document[j].single
  THEN [i \in DOMAIN configs[j] |-> <<configs[j][i]>>]
  ELSE IF (j - Singles) % 2 = 0 THEN <<>>
  ELSE FlattenSeq([i \in DOMAIN configs[j] |->
         [k \in DOMAIN configs[j + 1] |-> <<configs[j][i], configs[j + 1][k]>>]])

Benchmarks == FlattenSeq([j \in DOMAIN document |-> BenchmarksOf(j)])

(* The threads of the last benchmark have been spawned and have finished   *)
(* their set_to_far_cpus.                                                  *)
AllPlaced == Len(placed) = Len(running) /\ \A i \in DOMAIN placed : placed[i].ready

RunBenchmark ==
  /\ phase = "suite" /\ bm <= Len(Benchmarks)
  /\ AllPlaced
  /\ running' = Benchmarks[bm]
  /\ placed' = <<>>
  /\ bm' = bm + 1
  /\ UNCHANGED <<numa_vars, factory_vars, main_vars, phase>>

(* The threads of the next configuration, which all do the same, inherit   *)
(* the binding of main.  In a far benchmark they are not yet ready.        *)
SpawnThreads ==
  /\ phase = "suite" /\ Len(placed) < Len(running)
  /\ LET config == running[Len(placed) + 1]
     IN placed' = Append(placed, [nodes |-> run_mask, ready |-> config["numa_pattern"] # "far"])
  /\ UNCHANGED <<numa_vars, factory_vars, main_vars, phase, bm, running>>

(* Defect: the binding is that of the process                              *)
BindProcess(i) ==
  /\ ~placed[i].ready
  /\ placed' = [placed EXCEPT ![i] = [nodes |-> set_to_far_cpus(@.nodes), ready |-> TRUE]]
  /\ run_mask' = set_to_far_cpus(run_mask)
  /\ UNCHANGED <<machine, IGNORE_NUMA, factory_vars, main_vars, phase, bm, running>>

(* A thread of a far benchmark changes its own binding, while main may be  *)
(* spawning others.                                                        *)
BindFar(i) ==
  /\ ~placed[i].ready
  /\ placed' = [placed EXCEPT ![i] = [nodes |-> set_to_far_cpus(@.nodes), ready |-> TRUE]]
  /\ UNCHANGED <<numa_vars, factory_vars, main_vars, phase, bm, running>>

Finish ==
  /\ bm > Len(Benchmarks) /\ AllPlaced
  /\ Goto("suite", "done")
  /\ UNCHANGED <<numa_vars, factory_vars, main_vars, bm, running, placed>>

Terminating == phase \in {"done", "failed"} /\ UNCHANGED vars

Next ==
  \/ RejectOptions \/ InitNuma \/ InitNumaThrows
  \/ Create \/ CreateFails \/ Created
  \/ RunBenchmark \/ SpawnThreads \/ (\E i \in DOMAIN placed : BindFar(i))
  \/ Finish \/ Terminating

Spec == Init /\ [][Next]_vars

-----------------------------------------------------------------------------
(* Properties of the configurations.                                       *)

Completed == {j \in DOMAIN document : j < current}

(* A null entry ends the recursion: it and those behind it are ignored.    *)
Used(arg) ==
  IF arg.kind # "map" THEN <<>>
  ELSE LET nulls == {i \in DOMAIN arg.matrix : arg.matrix[i].kind = "null"}
       IN IF nulls = {} THEN arg.matrix
          ELSE SubSeq(arg.matrix, 1, (CHOOSE i \in nulls : \A k \in nulls : i <= k) - 1)

(* One value of each matrix argument, the last one varying fastest         *)
MatrixChoices(matrix) ==
  {choice \in [DOMAIN matrix -> UNION {DOMAIN matrix[l].values : l \in DOMAIN matrix}] :
     \A l \in DOMAIN matrix : choice[l] \in DOMAIN matrix[l].values}

Before(c, d) == \E l \in DOMAIN d : c[l] < d[l] /\ \A k \in 1 .. l - 1 : c[k] = d[k]

Earlier(matrix, c) == {d \in MatrixChoices(matrix) : Before(d, c)}

Combinations(matrix) ==
  [i \in 1 .. Cardinality(MatrixChoices(matrix)) |->
     CHOOSE c \in MatrixChoices(matrix) : Cardinality(Earlier(matrix, c)) = i - 1]

(* Of a repeated matrix argument the last entry counts.                    *)
Override(arg, choice) ==
  [key \in Keys |->
     LET levels == {l \in DOMAIN Used(arg) : Used(arg)[l].key = key}
         level == CHOOSE l \in levels : \A k \in levels : k <= l
     IN IF levels = {} THEN Config(arg.args)[key]
        ELSE Used(arg)[level].values[choice[level]].value]

KnownMatrix(arg) == \A l \in DOMAIN Used(arg) : Used(arg)[l].key \in Keys

(* benchmark_factory.cpp:165: although all combinations are written into   *)
(* one and the same YAML node, a matrix gives its cross product over the   *)
(* other arguments, each combination once and in the order of the file.    *)
(* Only an unknown key of the matrix, which an alias can hide, may         *)
(* overwrite another argument.                                             *)
MatrixIsProduct ==
  \A j \in Completed :
    KnownMatrix(document[j]) =>
      LET combinations == Combinations(Used(document[j]))
      IN configs[j] = [i \in DOMAIN combinations |-> Override(document[j], combinations[i])]

(* The nodes of arguments j: 0 and an entry of args, or a level of the     *)
(* matrix and one of its values                                            *)
Places(j) ==
  ({0} \X DOMAIN document[j].args) \cup
  UNION {{l} \X DOMAIN Used(document[j])[l].values : l \in DOMAIN Used(document[j])}
NodeAt(j, p) ==
  IF p[1] = 0 THEN document[j].args[p[2]].node ELSE Used(document[j])[p[1]].values[p[2]]
KeyAt(j, p) ==
  IF p[1] = 0 THEN document[j].args[p[2]].key ELSE Used(document[j])[p[1]].key

(* Another place has the same node, in these arguments or in others        *)
Aliased(j, p) ==
  \E k \in DOMAIN document : \E q \in Places(k) :
    <<k, q>> # <<j, p>> /\ NodeAt(k, q).id = NodeAt(j, p).id

(* Of the entries of args                                                  *)
FirstOfItsKey(j, p) ==
  p[1] = 0 => \A i \in 1 .. p[2] - 1 : document[j].args[i].key # KeyAt(j, p)

Accounted(j) ==
  \A p \in Places(j) :
    \/ KeyAt(j, p) \in Keys /\ FirstOfItsKey(j, p)
    \/ \E q \in Places(j) : KeyAt(j, q) = KeyAt(j, p) /\ Aliased(j, q)

(* benchmark_config.cpp:135: no entry is silently ignored.  What is        *)
(* accepted has known keys only, each once; what is rejected as unknown    *)
(* has an unknown key or a repeated one; and a matrix, whose arguments are *)
(* decoded for every combination, is never taken for a duplicate.  Aliases *)
(* escape all of this.                                                     *)
KeysAccounted ==
  /\ \A j \in Completed : configs[j] # <<>> => Accounted(j)
  /\ error = "unknown" =>
       \E p \in Places(current) : KeyAt(current, p) \notin Keys \/ ~FirstOfItsKey(current, p)
  /\ error = "duplicate" => \E p \in Places(current) : Aliased(current, p)

-----------------------------------------------------------------------------
(* Properties of the placement.                                            *)

Placed(numa_pattern) ==
  {placed[i].nodes : i \in {i \in DOMAIN placed :
                              placed[i].ready /\ running[i]["numa_pattern"] = numa_pattern}}

CpuNodes(nodes) == nodes \cap machine.cpu_nodes
FarFromAll(f) == \A near \in run_mask : IsFar(f, near)
Detects == machine.has_numa /\ ~options.no_numa /\ options.numa = <<>> /\ ~options.dram

(* The nodes near the PMem, if the machine tells where it is               *)
NearNodes ==
  IF machine.pmem_node \in 0 .. num_numa_nodes
  THEN CpuNodes({node \in Visited : ~IsFar(node, machine.pmem_node)}) ELSE {}

(* perma.cpp:99: "Setting this in the main thread will inherit to all      *)
(* child threads."  The threads of every near benchmark, also of one that  *)
(* follows or accompanies a far one, use the nodes of --numa, or else the  *)
(* nodes that are near the PMem; --no-numa and --dram leave the binding    *)
(* that the process was started with.  So do nodes without CPUs, with      *)
(* which the binding fails unnoticed (PMem with a node of its own may have *)
(* near ones with CPUs), an undetected node, and near nodes whose ids are  *)
(* not below the number of nodes: they are not visited (numa.cpp:54).      *)
NearRunsNear ==
  \A nodes \in Placed("near") :
    /\ options.numa # <<>> =>
         nodes = IF CpuNodes(Range(options.numa)) # {} THEN CpuNodes(Range(options.numa))
                                                       ELSE inherited
    /\ options.no_numa \/ (options.dram /\ options.numa = <<>>) => nodes = inherited
    /\ Detects /\ num_numa_nodes > 1 =>
         nodes = IF NearNodes # {} THEN NearNodes ELSE inherited

(* benchmark.cpp:244: the threads of a far benchmark use nodes that are    *)
(* far from all nodes of the near ones; they run near if no such node has  *)
(* CPUs (the binding fails unnoticed).  This takes node ids without gaps.  *)
FarRunsFar ==
  \A nodes \in Placed("far") :
    /\ machine.has_numa /\ ~options.no_numa
    /\ run_mask \subseteq Visited =>
         IF CpuNodes({f \in Visited : FarFromAll(f)}) # {}
         THEN nodes # {} /\ \A f \in nodes : FarFromAll(f)
         ELSE nodes = run_mask

-----------------------------------------------------------------------------
(* The inductive invariant of the placement.                               *)

(* What init_numa has left to all threads                                  *)
BoundMain ==
  /\ Accepted
  /\ IGNORE_NUMA = options.no_numa
  /\ options.no_numa \/ (options.dram /\ options.numa = <<>>) => run_mask = inherited
  /\ options.numa # <<>> =>
       run_mask = numa_run_on_node_mask(inherited, Range(options.numa))
  /\ Detects /\ num_numa_nodes > 1 =>
       run_mask = numa_run_on_node_mask(inherited, auto_detect_numa(num_numa_nodes))

(* validate has asked for far nodes.                                       *)
Allowed(config) == config["numa_pattern"] = "near" \/ has_far_numa_nodes

(* Where the threads of a configuration end up                             *)
Placement(config) ==
  IF config["numa_pattern"] = "far" THEN set_to_far_cpus(run_mask) ELSE run_mask

PlacedInv ==
  /\ running \in Seq(Range(running)) /\ placed \in Seq(Range(placed))
  /\ Len(placed) <= Len(running)
  /\ \A i \in DOMAIN running : Allowed(running[i])
  /\ \A i \in DOMAIN placed :
       IF placed[i].ready THEN placed[i].nodes = Placement(running[i])
       ELSE placed[i].nodes = run_mask /\ running[i]["numa_pattern"] = "far"

ConfigsInv ==
  /\ DOMAIN configs = DOMAIN document
  /\ \A j \in DOMAIN configs :
       /\ configs[j] \in Seq(Range(configs[j]))
       /\ phase = "options" => configs[j] = <<>>
       /\ \A i \in DOMAIN configs[j] : Allowed(configs[j][i])

PlacementInv ==
  /\ machine \in Machines /\ options \in CommandLines /\ document \in Documents
  /\ inherited \subseteq machine.cpu_nodes /\ run_mask \subseteq machine.cpu_nodes
  /\ phase \in {"options", "factory", "suite", "done", "failed"}
  /\ phase = "options" => run_mask = inherited
  /\ phase \in {"factory", "suite", "done"} => BoundMain
  /\ ConfigsInv
  /\ bm \in Nat \ {0}
  /\ phase \notin {"suite", "done"} => running = <<>>
  /\ PlacedInv

-----------------------------------------------------------------------------
(* The inductive invariant of the recursion over a matrix.                 *)

(* The choices that come before indices have been decoded, and so have     *)
(* those below indices when the recursion returns from there.              *)
Below(c, choice) == \A l \in DOMAIN choice : c[l] = choice[l]
Decoded(matrix, chosen, returning) ==
  {c \in MatrixChoices(matrix) : Before(c, chosen) \/ (returning /\ Below(c, chosen))}

DecodedChoices == Decoded(Used(Arg), indices, mode = "return")

IndicesInv ==
  /\ indices \in Seq(Nat) /\ Len(indices) <= Len(Used(Arg))
  /\ \A l \in DOMAIN indices : indices[l] \in DOMAIN Used(Arg)[l].values

(* No two options are read from one node.                                  *)
Unaliased(map) ==
  \A key, other \in Found(map) :
    NodeOf(map, key).id = NodeOf(map, other).id => key = other

(* Entry e of a map that decode is given has the data of place p.  Those   *)
(* of a level are in the entry of its key, and in aliases of it.           *)
Origin(map, cloned, e, p) ==
  IF p[1] = 0
  THEN p[2] = e /\ map[e].node.data = IF cloned THEN -NodeAt(current, p).data
                                                ELSE NodeAt(current, p).data
  ELSE /\ map[e].node.data = NodeAt(current, p).data
       /\ Occurs(map, KeyAt(current, p)) /\ NodeOf(map, KeyAt(current, p)).id = map[e].node.id

(* The entries of args keep key and identity; the matrix adds new ones for *)
(* keys that are missing.                                                  *)
EntriesInv(map, cloned) ==
  LET n == Len(Arg.args)
  IN /\ map \in Seq(Range(map)) /\ n <= Len(map)
     /\ \A e \in 1 .. n : map[e].key = Arg.args[e].key /\ map[e].node.id = Arg.args[e].node.id
     /\ \A e \in n + 1 .. Len(map) :
          /\ map[e].node.id = -e
          /\ \A f \in 1 .. e - 1 : map[f].key # map[e].key
     /\ \A e \in DOMAIN map : \E p \in Places(current) : Origin(map, cloned, e, p)
     /\ \A e, f \in DOMAIN map :
          map[e].node.id = map[f].node.id => map[e].node.data = map[f].node.data

(* An option has the value chosen at its last level, unless this level is  *)
(* deeper than indices: then it still has that of an earlier combination.  *)
ValuesInv ==
  KnownMatrix(Arg) /\ Unaliased(current_config) =>
    \A key \in Keys :
      LET levels == {l \in DOMAIN Used(Arg) : Used(Arg)[l].key = key}
      IN /\ levels = {} => Config(current_config)[key] = Config(Arg.args)[key]
         /\ \A l \in levels \cap DOMAIN indices : (\A k \in levels : k <= l) =>
              Config(current_config)[key] = Used(Arg)[l].values[indices[l]].value

EnumerationInv ==
  /\ IsFiniteSet(DecodedChoices)
  /\ Len(configs[current]) = Cardinality(DecodedChoices)
  /\ KnownMatrix(Arg) =>
       \A i \in DOMAIN configs[current] : \E c \in DecodedChoices :
         /\ Cardinality(Earlier(Used(Arg), c)) = i - 1
         /\ configs[current][i] = Override(Arg, c)

RecursionInv ==
  /\ document \in Documents /\ current \in 1 .. Len(document) + 1
  /\ DOMAIN configs = DOMAIN document
  /\ \A j \in DOMAIN document : configs[j] \in Seq(Range(configs[j]))
  /\ \A j \in DOMAIN document : j >= current /\ (j = current => mode = "none") =>
       configs[j] = <<>>
  /\ mode \in {"none", "enter", "return"}
  /\ mode # "none" => /\ current \in DOMAIN document /\ Arg.kind = "map"
                      /\ IndicesInv /\ EntriesInv(current_config, TRUE)
                      /\ ValuesInv /\ EnumerationInv
  /\ MatrixIsProduct

-----------------------------------------------------------------------------
(* The inductive invariant of what is accepted.                            *)

(* What is tagged was decoded with earlier arguments.                      *)
VisitedInv ==
  \A data \in visited : \E j \in Completed : \E i \in DOMAIN document[j].args :
    data \in {document[j].args[i].node.id, -document[j].args[i].node.id}

KeysInv ==
  /\ RecursionInv /\ VisitedInv
  /\ mode # "none" =>
       /\ \A l \in DOMAIN indices : Occurs(current_config, Used(Arg)[l].key)
       /\ configs[current] # <<>> => Accounted(current)
  /\ KeysAccounted
=============================================================================

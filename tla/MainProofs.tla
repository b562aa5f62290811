------------------------------- MODULE MainProofs -------------------------------
(***************************************************************************)
(* Proofs about the main thread: which configurations it creates and       *)
(* where it lets their threads run (Startup), for all documents, machines  *)
(* and command lines, and what it knows when it has joined the threads of  *)
(* a benchmark (BenchmarkRun), for any number of them.                     *)
(***************************************************************************)
EXTENDS Startup, BenchmarkRun, OperatorProofs

-----------------------------------------------------------------------------
(* The steps of the factory.                                               *)

(* A sequence is one over its elements, whatever is appended to it.        *)
LEMMA AppendedRange ==
  ASSUME NEW s, s \in Seq(Range(s)), NEW x
  PROVE  /\ Append(s, x) \in Seq(Range(Append(s, x)))
         /\ \A i \in DOMAIN Append(s, x) : Append(s, x)[i] = x \/ \E k \in DOMAIN s : Append(s, x)[i] = s[k]
<1> DEFINE S == Range(s) \cup {x}
           t == Append(s, x)
<1>1. s \in Seq(S) /\ x \in S
  OBVIOUS
<1>2. t \in Seq(S) /\ Len(t) = Len(s) + 1 /\ Len(s) \in Nat
  BY <1>1, AppendProperties, LenProperties
<1>3. DOMAIN t = 1 .. Len(s) + 1 /\ DOMAIN s = 1 .. Len(s)
  BY <1>1, <1>2, LenProperties
<1>4. \A i \in DOMAIN t : t[i] = IF i = Len(s) + 1 THEN x ELSE s[i]
  BY <1>1, <1>2, <1>3, AppendProperties
<1> HIDE DEF t, S
<1>5. t \in Seq(Range(t))
  <2>1. t = [i \in 1 .. Len(t) |-> t[i]]
    BY <1>2, LenProperties
  <2>2. \A i \in 1 .. Len(t) : t[i] \in Range(t)
    BY <1>2, <1>3 DEF Range
  <2>3. Len(t) \in Nat
    BY <1>2
  <2> QED  BY <2>1, <2>2, <2>3
<1>6. \A i \in DOMAIN t : t[i] = x \/ \E k \in DOMAIN s : t[i] = s[k]
  BY <1>2, <1>3, <1>4
<1> QED  BY <1>5, <1>6 DEF t

(* A configuration that is added is valid.                                 *)
LEMMA FactoryConfigs ==
  ASSUME ConfigsInv, Create
  PROVE  ConfigsInv' /\ document' = document
<1> USE DEF ConfigsInv, Create
<1>1. has_far_numa_nodes' = has_far_numa_nodes
  BY DEF numa_vars, has_far_numa_nodes, get_far_nodes, Visited, num_numa_nodes, IsFar
<1>2. \A config : Allowed(config)' <=> Allowed(config)
  BY <1>1 DEF Allowed
<1>3. CASE DecodeArgs
  <2> DEFINE new == <<Config(Arg.args)>>
  <2>1. /\ Allowed(Config(Arg.args)) /\ document' = document /\ phase' = phase
        /\ configs' = [configs EXCEPT ![current] = new]
    BY <1>3 DEF DecodeArgs, Valid, Allowed
  <2>2. new \in Seq(Range(new)) /\ DOMAIN new = {1} /\ new[1] = Config(Arg.args)
    BY DEF Range
  <2> HIDE DEF new
  <2>3. \A j \in DOMAIN configs : configs'[j] = IF j = current THEN new ELSE configs[j]
    BY <2>1
  <2> QED  BY <1>2, <2>1, <2>2, <2>3
<1>4. CASE Leaf
  <2> DEFINE new == Append(configs[current], Config(current_config))
  <2>1. /\ Allowed(Config(current_config)) /\ document' = document /\ phase' = phase
        /\ configs' = [configs EXCEPT ![current] = new]
    BY <1>4 DEF Leaf, Valid, Allowed
  <2>2. current \in DOMAIN configs =>
          /\ new \in Seq(Range(new))
          /\ \A i \in DOMAIN new : Allowed(new[i])
    BY <2>1, AppendedRange
  <2> HIDE DEF new
  <2>3. \A j \in DOMAIN configs : configs'[j] = IF j = current THEN new ELSE configs[j]
    BY <2>1
  <2> QED  BY <1>2, <2>1, <2>2, <2>3
<1>5. CASE UNCHANGED <<document, configs>>
  BY <1>2, <1>5
<1>6. UNCHANGED <<document, configs>> \/ DecodeArgs \/ Leaf
  BY DEF FactoryNext, Malformed, StartMatrix, DecodeThrows, ValidateFails, NotASequence,
         Descend, NextValue, Return, Throw, NextArguments
<1> QED  BY <1>3, <1>4, <1>5, <1>6

-----------------------------------------------------------------------------
(* The configurations of a benchmark are among those that were created.    *)

(* Benchmarks are sequences of configurations that were created.           *)
LEMMA BenchmarksType ==
  ASSUME ConfigsInv, document \in Documents
  PROVE  Benchmarks \in Seq(Seq(UNION {Range(configs[j]) : j \in DOMAIN configs}))
<1> DEFINE C == UNION {Range(configs[j]) : j \in DOMAIN configs}
<1>1. ASSUME NEW j \in DOMAIN configs
      PROVE  /\ configs[j] \in Seq(C) /\ Len(configs[j]) \in Nat
             /\ DOMAIN configs[j] = 1 .. Len(configs[j])
             /\ \A i \in DOMAIN configs[j] : configs[j][i] \in C
  <2>1. configs[j] \in Seq(Range(configs[j])) /\ Range(configs[j]) \subseteq C
    BY DEF ConfigsInv
  <2> HIDE DEF C
  <2>2. configs[j] \in Seq(C)
    BY <2>1
  <2> QED  BY <2>2, LenProperties
<1> HIDE DEF C
<1>2. Len(document) \in Nat /\ DOMAIN document = 1 .. Len(document)
  BY DocumentsAssumption, LenProperties
<1>3. ASSUME NEW j \in DOMAIN document
      PROVE  BenchmarksOf(j) \in Seq(Seq(C))
  <2>1. CASE document[j].single
    <3>1. BenchmarksOf(j) = [i \in 1 .. Len(configs[j]) |-> <<configs[j][i]>>]
      BY <1>1, <2>1 DEF BenchmarksOf, ConfigsInv
    <3>2. \A i \in 1 .. Len(configs[j]) : <<configs[j][i]>> \in Seq(C)
      BY <1>1 DEF ConfigsInv
    <3> QED  BY <1>1, <3>1, <3>2 DEF ConfigsInv
  <2>2. CASE ~document[j].single /\ (j - Singles) % 2 = 0
    BY <2>2 DEF BenchmarksOf
  <2>3. CASE ~document[j].single /\ (j - Singles) % 2 # 0
    <3> DEFINE pairs(i) == [k \in DOMAIN configs[j + 1] |-> <<configs[j][i], configs[j + 1][k]>>]
               ss == [i \in DOMAIN configs[j] |-> pairs(i)]
    <3>1. j \in DOMAIN configs /\ j + 1 \in DOMAIN configs
      <4>1. Singles \in Nat /\ (Len(document) - Singles) % 2 = 0
        <5> DEFINE singles == {i \in DOMAIN document : document[i].single}
        <5>1. singles \subseteq 1 .. Len(document) /\ IsFiniteSet(1 .. Len(document))
          BY <1>2, FS_Interval
        <5>2. IsFiniteSet(singles)
          BY <5>1, FS_Subset
        <5>3. Cardinality(singles) \in Nat
          BY <5>2, FS_CardinalityType
        <5>4. (Len(document) - Cardinality(singles)) % 2 = 0
          BY DocumentsAssumption
        <5> QED  BY <5>3, <5>4 DEF Singles
      <4>2. j # Len(document)
        BY <2>3, <4>1
      <4> QED  BY <1>2, <4>2 DEF ConfigsInv
    <3>2. \A i \in DOMAIN configs[j] : pairs(i) \in Seq(Seq(C))
      <4> TAKE i \in DOMAIN configs[j]
      <4>1. \A k \in DOMAIN configs[j + 1] : <<configs[j][i], configs[j + 1][k]>> \in Seq(C)
        BY <1>1, <3>1
      <4>2. pairs(i) = [k \in 1 .. Len(configs[j + 1]) |-> <<configs[j][i], configs[j + 1][k]>>]
        BY <1>1, <3>1
      <4> HIDE DEF pairs
      <4>3. \A k \in 1 .. Len(configs[j + 1]) : <<configs[j][i], configs[j + 1][k]>> \in Seq(C)
        BY <1>1, <3>1, <4>1
      <4> QED  BY <1>1, <3>1, <4>2, <4>3
    <3> HIDE DEF pairs
    <3>3. ss \in Seq(Seq(Seq(C)))
      BY <1>1, <3>1, <3>2
    <3>4. FlattenSeq(ss) \in Seq(Seq(C))
      BY <3>3, FlattenSeqComesFrom
    <3> QED  BY <2>3, <3>4 DEF BenchmarksOf, pairs
  <2> QED  BY <2>1, <2>2, <2>3
<1>4. [j \in DOMAIN document |-> BenchmarksOf(j)] \in Seq(Seq(Seq(C)))
  BY <1>2, <1>3
<1>5. Benchmarks \in Seq(Seq(C))
  BY <1>4, FlattenSeqComesFrom DEF Benchmarks
<1> QED  BY <1>5 DEF C

(* Hence a far one is created only if there are far nodes.                 *)
LEMMA BenchmarksAllowed ==
  ASSUME ConfigsInv, document \in Documents, NEW b \in Nat \ {0}, b <= Len(Benchmarks)
  PROVE  /\ Benchmarks[b] \in Seq(Range(Benchmarks[b]))
         /\ \A i \in DOMAIN Benchmarks[b] : Allowed(Benchmarks[b][i])
<1> DEFINE C == UNION {Range(configs[j]) : j \in DOMAIN configs}
<1>1. ASSUME NEW c \in C
      PROVE  Allowed(c)
  <2>1. PICK j \in DOMAIN configs : c \in Range(configs[j])
    OBVIOUS
  <2>2. PICK i \in DOMAIN configs[j] : c = configs[j][i]
    BY <2>1 DEF Range
  <2> QED  BY <2>2 DEF ConfigsInv
<1> HIDE DEF C
<1>2. Benchmarks \in Seq(Seq(C))
  BY BenchmarksType DEF C
<1>3. b \in 1 .. Len(Benchmarks)
  BY <1>2, LenProperties
<1>4. Benchmarks[b] \in Seq(C)
  BY <1>2, <1>3, ElementOfSeq
<1>5. \A i \in DOMAIN Benchmarks[b] : Benchmarks[b][i] \in C
  BY <1>4, LenProperties, ElementOfSeq
<1>6. Benchmarks[b] \in Seq(Range(Benchmarks[b]))
  <2> DEFINE benchmark == Benchmarks[b]
  <2> HIDE DEF benchmark
  <2>1. benchmark \in Seq(C) => benchmark \in Seq(Range(benchmark))
    <3> SUFFICES ASSUME benchmark \in Seq(C) PROVE benchmark \in Seq(Range(benchmark))
      OBVIOUS
    <3>1. /\ Len(benchmark) \in Nat /\ DOMAIN benchmark = 1 .. Len(benchmark)
          /\ benchmark = [i \in 1 .. Len(benchmark) |-> benchmark[i]]
      BY LenProperties
    <3>2. \A i \in 1 .. Len(benchmark) : benchmark[i] \in Range(benchmark)
      BY <3>1 DEF Range
    <3> QED  BY <3>1, <3>2
  <2> QED  BY <1>4, <2>1 DEF benchmark
<1> QED  BY <1>1, <1>5, <1>6

-----------------------------------------------------------------------------
(* The inductive invariant.                                                *)

(* At first main has the binding it was started with.                      *)
LEMMA InitPlacement == Init => PlacementInv
<1> SUFFICES ASSUME Init PROVE PlacementInv
  OBVIOUS
<1> USE DEF Init, NumaInit, FactoryInit
<1>1. run_mask \subseteq machine.cpu_nodes
  OBVIOUS
<1>2. ConfigsInv
  BY DEF ConfigsInv
<1>3. PlacedInv
  BY LenProperties DEF PlacedInv
<1> QED  BY <1>1, <1>2, <1>3 DEF PlacementInv

(* A binding only uses nodes with CPUs.                                    *)
LEMMA InitNumaBinds ==
  ASSUME PlacementInv, InitNuma
  PROVE  PlacementInv'
<1> USE DEF PlacementInv, InitNuma, Goto, init_numa
<1>1. machine' = machine /\ options' = options /\ inherited' = inherited /\ phase' = "factory"
      /\ configs' = configs /\ document' = document
  BY DEF main_vars, factory_vars
<1>2. run_mask' \subseteq machine.cpu_nodes
  BY DEF set_numa_nodes, numa_run_on_node_mask
<1>3. BoundMain'
  <2>1. options.numa # <<>> => run_mask' = numa_run_on_node_mask(inherited, Range(options.numa))
    BY DEF set_numa_nodes, Accepted
  <2>2. Detects /\ num_numa_nodes > 1 =>
          run_mask' = numa_run_on_node_mask(inherited, auto_detect_numa(num_numa_nodes))
    <3>1. num_numa_nodes \in Nat
      BY MachinesAssumption, FS_CardinalityType DEF num_numa_nodes
    <3> QED  BY <3>1 DEF set_numa_nodes, Detects
  <2>3. options.no_numa \/ (options.dram /\ options.numa = <<>>) => run_mask' = inherited
    BY DEF Accepted
  <2>4. num_numa_nodes' = num_numa_nodes /\ Detects' = Detects /\ Accepted' = Accepted
    BY <1>1 DEF num_numa_nodes, Detects, Accepted
  <2>5. auto_detect_numa(num_numa_nodes)' = auto_detect_numa(num_numa_nodes)
    BY <1>1, <2>4 DEF auto_detect_numa, Visited, IsFar
  <2>6. \A mask, nodes : numa_run_on_node_mask(mask, nodes)' = numa_run_on_node_mask(mask, nodes)
    BY <1>1 DEF numa_run_on_node_mask
  <2>7. IGNORE_NUMA' = options'.no_numa /\ Accepted'
    BY <1>1, <2>4
  <2>8. /\ options'.no_numa \/ (options'.dram /\ options'.numa = <<>>) => run_mask' = inherited'
        /\ options'.numa # <<>> =>
             run_mask' = numa_run_on_node_mask(inherited, Range(options.numa))'
    BY <1>1, <2>1, <2>3, <2>6
  <2>9. (Detects /\ num_numa_nodes > 1)' =>
          run_mask' = numa_run_on_node_mask(inherited, auto_detect_numa(num_numa_nodes))'
    BY <1>1, <2>2, <2>4, <2>5, <2>6
  <2> QED  BY <2>7, <2>8, <2>9 DEF BoundMain
<1>4. ConfigsInv'
  BY <1>1 DEF ConfigsInv
<1>5. PlacedInv'
  <2>1. running' = <<>> /\ placed' = placed /\ running = <<>>
    OBVIOUS
  <2>2. placed = <<>>
    BY <2>1, LenProperties DEF PlacedInv
  <2> QED  BY <2>1, <2>2, LenProperties DEF PlacedInv
<1> QED  BY <1>1, <1>2, <1>3, <1>4, <1>5

(* No other step changes the binding of main.                              *)
LEMMA SameBinding ==
  ASSUME UNCHANGED <<numa_vars, main_vars>>
  PROVE  /\ has_far_numa_nodes' = has_far_numa_nodes
         /\ BoundMain' = BoundMain
         /\ set_to_far_cpus(run_mask)' = set_to_far_cpus(run_mask)
         /\ \A config : Placement(config)' = Placement(config)
         /\ \A config : Allowed(config)' = Allowed(config)
<1> USE DEF numa_vars, main_vars
<1>1. /\ Visited' = Visited /\ get_far_nodes(run_mask)' = get_far_nodes(run_mask)
      /\ num_numa_nodes' = num_numa_nodes
  BY DEF get_far_nodes, Visited, num_numa_nodes, IsFar
<1>2. /\ has_far_numa_nodes' = has_far_numa_nodes
      /\ set_to_far_cpus(run_mask)' = set_to_far_cpus(run_mask)
  BY <1>1 DEF has_far_numa_nodes, set_to_far_cpus, numa_run_on_node_mask
<1>3. BoundMain' = BoundMain
  <2>1. Detects' = Detects /\ Accepted' = Accepted
    BY DEF Detects, Accepted
  <2>2. auto_detect_numa(num_numa_nodes)' = auto_detect_numa(num_numa_nodes)
    BY <1>1 DEF auto_detect_numa, Visited, IsFar
  <2>3. \A mask, nodes : numa_run_on_node_mask(mask, nodes)' = numa_run_on_node_mask(mask, nodes)
    BY DEF numa_run_on_node_mask
  <2> QED  BY <1>1, <2>1, <2>2, <2>3 DEF BoundMain
<1> QED  BY <1>2, <1>3 DEF Placement, Allowed

(* A step that leaves the bindings and the threads alone                   *)
LEMMA SamePlaced ==
  ASSUME PlacedInv, UNCHANGED <<numa_vars, main_vars, running, placed>>
  PROVE  PlacedInv'
BY SameBinding DEF PlacedInv, numa_vars

(* A new thread has the binding of main, a far one until it binds itself.  *)
LEMMA SpawnPlaces ==
  ASSUME PlacedInv, SpawnThreads
  PROVE  PlacedInv'
<1> DEFINE n == Len(placed) + 1
           thread == [nodes |-> run_mask, ready |-> running[n]["numa_pattern"] # "far"]
<1>1. /\ placed' = Append(placed, thread) /\ running' = running /\ Len(placed) < Len(running)
      /\ UNCHANGED <<numa_vars, main_vars>>
  BY DEF SpawnThreads
<1>2. /\ running \in Seq(Range(running)) /\ placed \in Seq(Range(placed))
      /\ Len(placed) \in Nat /\ Len(running) \in Nat
  BY LenProperties DEF PlacedInv
<1> DEFINE S == Range(placed) \cup {thread}
<1>3. placed \in Seq(S) /\ thread \in S
  BY <1>2
<1> HIDE DEF thread, S
<1>4. /\ Len(placed') = n /\ DOMAIN placed' = 1 .. n /\ DOMAIN placed = 1 .. Len(placed)
      /\ \A i \in 1 .. n : placed'[i] = IF i = n THEN thread ELSE placed[i]
  <2>1. placed' \in Seq(S) /\ Len(placed') = n
    BY <1>1, <1>3, AppendProperties
  <2> QED  BY <1>1, <1>2, <1>3, <2>1, AppendProperties, LenProperties
<1>5. placed' \in Seq(Range(placed'))
  BY <1>1, <1>2, AppendedRange
<1>6. ASSUME NEW i \in DOMAIN placed'
      PROVE  IF placed'[i].ready THEN placed'[i].nodes = Placement(running[i])
             ELSE placed'[i].nodes = run_mask /\ running[i]["numa_pattern"] = "far"
  <2>1. CASE i = n
    <3>1. placed'[i] = thread /\ i = n
      BY <1>4, <1>6, <2>1
    <3>2. thread.nodes = run_mask /\ (thread.ready <=> running[n]["numa_pattern"] # "far")
      BY DEF thread
    <3> HIDE DEF n
    <3> QED  BY <3>1, <3>2 DEF Placement
  <2>2. CASE i # n
    <3>1. i \in DOMAIN placed /\ placed'[i] = placed[i]
      BY <1>2, <1>4, <1>6, <2>2
    <3> QED  BY <3>1 DEF PlacedInv
  <2> QED  BY <2>1, <2>2
<1>7. \A i \in DOMAIN running : Allowed(running[i])
  BY DEF PlacedInv
<1>8. Len(placed') <= Len(running)
  BY <1>1, <1>2, <1>4
<1>9. run_mask' = run_mask
  BY <1>1 DEF numa_vars
<1>10. (\A i \in DOMAIN placed :
         IF placed[i].ready THEN placed[i].nodes = Placement(running[i])
         ELSE placed[i].nodes = run_mask /\ running[i]["numa_pattern"] = "far")'
  BY <1>1, <1>6, <1>9, SameBinding
<1>11. (\A i \in DOMAIN running : Allowed(running[i]))'
  BY <1>1, <1>7, SameBinding
<1> QED  BY <1>1, <1>2, <1>5, <1>8, <1>10, <1>11 DEF PlacedInv

(* A far thread's own binding is computed from the one that it inherited;  *)
(* that of main is not changed.                                            *)
LEMMA BindPlaces ==
  ASSUME PlacedInv, NEW i \in DOMAIN placed, BindFar(i)
  PROVE  PlacedInv'
<1> DEFINE bound == [nodes |-> set_to_far_cpus(placed[i].nodes), ready |-> TRUE]
<1>1. /\ ~placed[i].ready /\ placed' = [placed EXCEPT ![i] = bound] /\ running' = running
      /\ UNCHANGED <<numa_vars, main_vars>>
  BY DEF BindFar
<1>2. placed[i].nodes = run_mask /\ running[i]["numa_pattern"] = "far"
  BY <1>1 DEF PlacedInv
<1>3. bound.nodes = Placement(running[i]) /\ bound.ready
  BY <1>2 DEF Placement
<1> HIDE DEF bound
<1>4. placed \in Seq(Range(placed)) /\ DOMAIN placed = 1 .. Len(placed) /\ Len(placed) \in Nat
  BY LenProperties DEF PlacedInv
<1>5. /\ DOMAIN placed' = DOMAIN placed
      /\ \A k \in DOMAIN placed : placed'[k] = IF k = i THEN bound ELSE placed[k]
  BY <1>1, <1>4
<1>6. placed' \in Seq(Range(placed')) /\ Len(placed') = Len(placed)
  <2>1. placed' = [k \in 1 .. Len(placed) |-> placed'[k]]
    BY <1>1, <1>4
  <2>2. \A k \in 1 .. Len(placed) : placed'[k] \in Range(placed')
    BY <1>4, <1>5 DEF Range
  <2> QED  BY <1>4, <2>1, <2>2, LenProperties
<1>7. run_mask' = run_mask
  BY <1>1 DEF numa_vars
<1>8. ASSUME NEW k \in DOMAIN placed'
      PROVE  IF placed'[k].ready THEN placed'[k].nodes = Placement(running[k])
             ELSE placed'[k].nodes = run_mask /\ running[k]["numa_pattern"] = "far"
  BY <1>3, <1>5 DEF PlacedInv
<1>9. (\A k \in DOMAIN placed :
        IF placed[k].ready THEN placed[k].nodes = Placement(running[k])
        ELSE placed[k].nodes = run_mask /\ running[k]["numa_pattern"] = "far")'
  BY <1>1, <1>7, <1>8, SameBinding
<1>10. (\A k \in DOMAIN running : Allowed(running[k]))'
  BY <1>1, SameBinding DEF PlacedInv
<1> QED  BY <1>1, <1>6, <1>9, <1>10 DEF PlacedInv

(* Every step preserves the invariant of the placement.                    *)
LEMMA NextPlacement ==
  ASSUME PlacementInv, [Next]_vars
  PROVE  PlacementInv'
<1> USE DEF PlacementInv
<1>1. ASSUME UNCHANGED <<numa_vars, main_vars, document, configs>>, phase' # "options"
      PROVE  ConfigsInv'
  BY <1>1, SameBinding DEF ConfigsInv
<1>2. CASE RejectOptions \/ InitNumaThrows
  <2>1. /\ UNCHANGED <<numa_vars, main_vars, document, configs, bm, running, placed>>
        /\ phase = "options" /\ phase' = "failed"
    BY <1>2 DEF RejectOptions, InitNumaThrows, init_numa_throws, Goto, factory_vars
  <2> QED  BY <1>1, <2>1, SameBinding, SamePlaced DEF numa_vars, main_vars
<1>3. CASE InitNuma
  BY <1>3, InitNumaBinds
<1>4. CASE Create
  <2>1. UNCHANGED <<numa_vars, main_vars, phase, bm, running, placed>>
    BY <1>4 DEF Create
  <2>2. ConfigsInv' /\ document' = document
    BY <1>4, FactoryConfigs
  <2> QED  BY <2>1, <2>2, SameBinding, SamePlaced DEF numa_vars, main_vars
<1>5. CASE CreateFails \/ Created \/ Finish
  <2>1. /\ UNCHANGED <<numa_vars, main_vars, document, configs, bm, running, placed>>
        /\ \/ phase = "factory" /\ phase' \in {"suite", "failed"}
           \/ phase = "suite" /\ phase' = "done"
    BY <1>5 DEF CreateFails, Created, Finish, Goto, factory_vars
  <2> QED  BY <1>1, <2>1, SameBinding, SamePlaced DEF numa_vars, main_vars
<1>6. CASE RunBenchmark
  <2>1. /\ UNCHANGED <<numa_vars, main_vars, document, configs, phase>>
        /\ phase = "suite" /\ bm' = bm + 1
        /\ running' = Benchmarks[bm] /\ placed' = <<>>
        /\ bm <= Len(Benchmarks)
    BY <1>6 DEF RunBenchmark, factory_vars
  <2>2. running' \in Seq(Range(running')) /\ \A i \in DOMAIN running' : Allowed(running'[i])
    BY <2>1, BenchmarksAllowed
  <2>3. ConfigsInv'
    BY <1>1, <2>1
  <2>4. PlacedInv'
    BY <2>1, <2>2, SameBinding, LenProperties DEF PlacedInv
  <2> QED  BY <2>1, <2>3, <2>4, SameBinding DEF numa_vars, main_vars
<1>7. CASE SpawnThreads \/ \E i \in DOMAIN placed : BindFar(i)
  <2>1. /\ UNCHANGED <<numa_vars, main_vars, document, configs, phase, bm, running>>
        /\ phase \in {"suite", "done"} \/ running = <<>>
    BY <1>7 DEF SpawnThreads, BindFar, factory_vars
  <2>2. ConfigsInv'
    BY <2>1, SameBinding DEF ConfigsInv
  <2>3. PlacedInv'
    BY <1>7, SpawnPlaces, BindPlaces
  <2> QED  BY <2>1, <2>2, <2>3, SameBinding DEF numa_vars, main_vars
<1>8. CASE UNCHANGED vars
  <2>1. UNCHANGED <<numa_vars, main_vars, document, configs, phase, bm, running, placed>>
    BY <1>8 DEF vars, factory_vars, main_vars
  <2>2. ConfigsInv'
    BY <2>1, SameBinding DEF ConfigsInv
  <2> QED  BY <2>1, <2>2, SameBinding, SamePlaced DEF numa_vars, main_vars
<1> QED
  BY <1>2, <1>3, <1>4, <1>5, <1>6, <1>7, <1>8 DEF Next, Terminating

(* Once init_numa has returned, main keeps its binding, and every thread   *)
(* that runs got its place from it, a far one after far nodes were found.  *)
THEOREM PlacementInvariance == Spec => []PlacementInv
BY InitPlacement, NextPlacement, PTL DEF Spec

-----------------------------------------------------------------------------
(* Near and far.                                                           *)

(* A thread that is ready is where its configuration belongs.              *)
LEMMA ReadyPlaced ==
  ASSUME PlacementInv, NEW numa_pattern, NEW nodes \in Placed(numa_pattern)
  PROVE  /\ nodes = IF numa_pattern = "far" THEN set_to_far_cpus(run_mask) ELSE run_mask
         /\ BoundMain /\ (numa_pattern = "far" => has_far_numa_nodes)
<1>1. PICK i \in DOMAIN placed :
        placed[i].ready /\ running[i]["numa_pattern"] = numa_pattern /\ nodes = placed[i].nodes
  BY DEF Placed
<1>2. /\ DOMAIN placed = 1 .. Len(placed) /\ Len(placed) <= Len(running)
      /\ DOMAIN running = 1 .. Len(running) /\ Len(placed) \in Nat /\ Len(running) \in Nat
  BY LenProperties DEF PlacementInv, PlacedInv
<1>3. i \in DOMAIN running
  BY <1>2
<1>4. running # <<>>
  BY <1>3
<1>5. BoundMain
  BY <1>4 DEF PlacementInv
<1>6. nodes = Placement(running[i]) /\ Allowed(running[i])
  BY <1>1, <1>3 DEF PlacementInv, PlacedInv
<1>7. numa_pattern = "far" => has_far_numa_nodes
  BY <1>1, <1>6 DEF Allowed
<1> QED  BY <1>1, <1>5, <1>6, <1>7 DEF Placement

(* A node that is detected is near itself, or is not visited and leaves a  *)
(* gap below the number of nodes: distances to a gap are unknown.          *)
LEMMA NearNodeExists ==
  ASSUME machine \in Machines, machine.pmem_node \in 0 .. num_numa_nodes, num_numa_nodes > 1
  PROVE  {o \in Visited : ~IsFar(machine.pmem_node, o)} # {}
<1> DEFINE n == num_numa_nodes
           pm == machine.pmem_node
<1>1. /\ IsFiniteSet(machine.nodes) /\ n = Cardinality(machine.nodes) /\ n \in Nat
      /\ machine.far_apart \subseteq SUBSET machine.nodes
      /\ \A node \in machine.nodes : {node} \notin machine.far_apart
  BY MachinesAssumption, FS_CardinalityType DEF num_numa_nodes
<1>2. \A o : o \notin machine.nodes => ~IsFar(pm, o)
  BY <1>1 DEF IsFar
<1>3. ~IsFar(pm, pm)
  BY <1>1, <1>2 DEF IsFar
<1>4. CASE pm \in Visited
  BY <1>3, <1>4
<1>5. CASE pm \notin Visited
  <2>1. pm = n
    BY <1>1, <1>5 DEF Visited
  <2>2. CASE \E o \in Visited : o \notin machine.nodes
    BY <1>2, <2>2
  <2>3. CASE Visited \subseteq machine.nodes
    <3>1. Visited = machine.nodes
      <4>1. Cardinality(0 .. n - 1) = n /\ IsFiniteSet(0 .. n - 1)
        <5> HIDE DEF n
        <5>1. 0 \in Int /\ n - 1 \in Int
          BY <1>1
        <5>2. IsFiniteSet(0 .. n - 1) /\ Cardinality(0 .. n - 1) = IF 0 > n - 1 THEN 0 ELSE (n - 1) - 0 + 1
          BY <5>1, FS_Interval
        <5> QED  BY <1>1, <5>2
      <4>2. Visited = 0 .. n - 1
        BY DEF Visited
      <4> QED  BY <1>1, <2>3, <4>1, <4>2, FS_Subset
    <3>2. pm \notin machine.nodes
      BY <1>5, <3>1
    <3>3. ~IsFar(pm, 0) /\ 0 \in Visited
      BY <1>1, <3>2 DEF IsFar, Visited
    <3> QED  BY <3>3
  <2> QED  BY <2>2, <2>3
<1> QED  BY <1>4, <1>5

(* The threads of near benchmarks use the nodes of --numa, or those that   *)
(* are near the PMem, or the binding that the process was started with.    *)
THEOREM NearPlaced == Spec => []NearRunsNear
<1>1. ASSUME PlacementInv
      PROVE  NearRunsNear
  <2> SUFFICES ASSUME NEW nodes \in Placed("near")
               PROVE  /\ options.numa # <<>> =>
                           nodes = IF CpuNodes(Range(options.numa)) # {}
                                   THEN CpuNodes(Range(options.numa)) ELSE inherited
                      /\ options.no_numa \/ (options.dram /\ options.numa = <<>>) =>
                           nodes = inherited
                      /\ Detects /\ num_numa_nodes > 1 =>
                           nodes = IF NearNodes # {} THEN NearNodes ELSE inherited
    BY DEF NearRunsNear
  <2>1. nodes = run_mask /\ BoundMain
    BY <1>1, ReadyPlaced
  <2>2. \A bound : numa_run_on_node_mask(inherited, bound)
                     = IF CpuNodes(bound) # {} THEN CpuNodes(bound) ELSE inherited
    BY DEF numa_run_on_node_mask, CpuNodes
  <2>3. ASSUME Detects, num_numa_nodes > 1
        PROVE  nodes = IF NearNodes # {} THEN NearNodes ELSE inherited
    <3> DEFINE pm == machine.pmem_node
               near == {o \in Visited : ~IsFar(pm, o)}
               bound == auto_detect_numa(num_numa_nodes)
    <3>1. nodes = IF CpuNodes(bound) # {} THEN CpuNodes(bound) ELSE inherited
      BY <2>1, <2>2, <2>3 DEF BoundMain
    <3>2. pm \in Int /\ num_numa_nodes \in Nat
      BY <1>1, MachinesAssumption, FS_CardinalityType DEF PlacementInv, num_numa_nodes
    <3>3. near = {node \in Visited : ~IsFar(node, pm)}
      BY DEF IsFar
    <3>4. CASE pm < 0 \/ pm > num_numa_nodes
      <4>1. bound = {}
        BY <3>4 DEF auto_detect_numa
      <4>2. NearNodes = {}
        BY <3>2, <3>4 DEF NearNodes
      <4> QED  BY <3>1, <4>1, <4>2 DEF CpuNodes
    <3>5. CASE ~(pm < 0 \/ pm > num_numa_nodes)
      <4>1. NearNodes = CpuNodes(near)
        BY <3>2, <3>3, <3>5 DEF NearNodes
      <4>2. near # {}
        <5>1. machine \in Machines /\ pm \in 0 .. num_numa_nodes
          BY <1>1, <3>2, <3>5 DEF PlacementInv
        <5> QED  BY <2>3, <5>1, NearNodeExists
      <4>3. bound = near
        BY <3>5, <4>2, Zenon DEF auto_detect_numa
      <4> QED  BY <3>1, <4>1, <4>3
    <3> QED  BY <3>4, <3>5
  <2> QED  BY <2>1, <2>2, <2>3 DEF BoundMain
<1> QED  BY <1>1, PlacementInvariance, PTL

(* The threads of far benchmarks use nodes that are far from all near      *)
(* ones, if such a node has CPUs and the ids have no gaps.                 *)
THEOREM FarPlaced == Spec => []FarRunsFar
<1>1. ASSUME PlacementInv
      PROVE  FarRunsFar
  <2> SUFFICES ASSUME NEW nodes \in Placed("far")
               PROVE  /\ machine.has_numa /\ ~options.no_numa
                      /\ run_mask \subseteq Visited =>
                           IF CpuNodes({f \in Visited : FarFromAll(f)}) # {}
                           THEN nodes # {} /\ \A f \in nodes : FarFromAll(f)
                           ELSE nodes = run_mask
    BY DEF FarRunsFar
  <2>1. nodes = set_to_far_cpus(run_mask) /\ has_far_numa_nodes /\ BoundMain
    BY <1>1, ReadyPlaced
  <2>2. ASSUME run_mask \subseteq Visited
        PROVE  IF CpuNodes({f \in Visited : FarFromAll(f)}) # {}
               THEN nodes # {} /\ \A f \in nodes : FarFromAll(f)
               ELSE nodes = run_mask
    <3> DEFINE far == {f \in Visited : FarFromAll(f)}
    <3>1. \A f \in Visited : FarFromAll(f) => f \notin run_mask
      BY <1>1, MachinesAssumption DEF PlacementInv, FarFromAll, IsFar
    <3>2. get_far_nodes(run_mask) = far
      BY <2>2, <3>1 DEF get_far_nodes, FarFromAll
    <3>3. nodes = IF CpuNodes(far) # {} THEN CpuNodes(far) ELSE run_mask
      BY <2>1, <3>2 DEF set_to_far_cpus, numa_run_on_node_mask, CpuNodes
    <3> QED  BY <3>3 DEF CpuNodes
  <2> QED  BY <2>1, <2>2 DEF has_far_numa_nodes, BoundMain
<1> QED  BY <1>1, PlacementInvariance, PTL

-----------------------------------------------------------------------------
(* Joining the threads of a benchmark (BenchmarkRun), for single and       *)
(* parallel benchmarks with any number of threads and any choice of custom *)
(* pools.                                                                  *)

(* Before the first thread is spawned nothing has finished or faulted.     *)
LEMMA RunInitially == RunInit => RunInv
<1> SUFFICES ASSUME RunInit PROVE RunInv
  OBVIOUS
<1>1. TypeOK
  <2>1. next \in Threads
    BY RunAssumption DEF RunInit, Threads, NumAllThreads
  <2> QED  BY <2>1 DEF RunInit, TypeOK
<1> QED  BY <1>1 DEF RunInit, RunInv, Faulting

(* The main thread joins in order, and a joined thread stays finished.     *)
LEMMA RunMainStep ==
  ASSUME RunInv, Main
  PROVE  RunInv'
<1> USE RunAssumption DEF RunInv, TypeOK, Threads, NumAllThreads, Faulting
<1>1. CASE Spawn
  BY <1>1 DEF Spawn
<1>2. CASE CheckError
  BY <1>2 DEF CheckError
<1>3. CASE Join
  <2>1. CASE next = NumAllThreads
    BY <1>3, <2>1 DEF Join
  <2>2. CASE next # NumAllThreads
    BY <1>3, <2>2 DEF Join
  <2> QED  BY <2>1, <2>2
<1>4. CASE Complete
  BY <1>4 DEF Complete
<1>5. CASE TearDownFailed
  BY <1>5 DEF TearDownFailed
<1>6. CASE CrashExit
  BY <1>6 DEF CrashExit
<1> QED
  BY <1>1, <1>2, <1>3, <1>4, <1>5, <1>6 DEF Main

(* A thread that faults stays faulting and leaves thread_error set.        *)
LEMMA RunThreadStep ==
  ASSUME RunInv, NEW t \in Threads,
         Proceed(t) \/ Fault(t) \/ Refault(t)
  PROVE  RunInv'
<1> USE DEF RunInv, TypeOK, ThreadGoes, Faulting
<1>1. CASE Generate(t)
  BY <1>1 DEF Generate
<1>2. CASE PassBarrier(t)
  BY <1>2 DEF PassBarrier
<1>3. CASE StartCustom(t)
  BY <1>3 DEF StartCustom
<1>4. CASE FinishThread(t)
  BY <1>4 DEF FinishThread
<1>5. CASE Fault(t)
  BY <1>5 DEF Fault
<1>6. CASE Refault(t)
  BY <1>6 DEF Refault
<1> QED
  BY <1>1, <1>2, <1>3, <1>4, <1>5, <1>6 DEF Proceed

(* The inductive invariant of a run holds in every reachable state.        *)
THEOREM RunInvariance == RunSpec => []RunInv
<1>1. RunInv /\ [RunNext]_run_vars => RunInv'
  <2> SUFFICES ASSUME RunInv, [RunNext]_run_vars PROVE RunInv'
    OBVIOUS
  <2>1. CASE Main
    BY <2>1, RunMainStep
  <2>2. ASSUME NEW t \in Threads, Proceed(t) \/ Fault(t) \/ Refault(t)
        PROVE  RunInv'
    BY <2>2, RunThreadStep
  <2>3. CASE UNCHANGED run_vars
    BY <2>3 DEF RunInv, TypeOK, run_vars
  <2> QED  BY <2>1, <2>2, <2>3 DEF RunNext, Ended
<1> QED  BY <1>1, RunInitially, PTL DEF RunSpec

(* run() returns true, and results are read and data is unmapped, only     *)
(* when all threads of all pools have finished without a fault.            *)
THEOREM RunSuccessSound == RunSpec => []SuccessMeansFinished
<1>1. RunInv => SuccessMeansFinished
  BY DEF RunInv, TypeOK, SuccessMeansFinished, Faulting
<1> QED  BY <1>1, RunInvariance, PTL

-----------------------------------------------------------------------------
(* The entries of a matrix that are used, and the order of the choices.    *)

(* The recursion ends behind the used entries.                             *)
LEMMA UsedEntries ==
  ASSUME NEW arg, arg.kind = "map", arg.matrix \in Seq(Range(arg.matrix))
  PROVE  /\ Len(Used(arg)) \in Nat /\ DOMAIN Used(arg) = 1 .. Len(Used(arg))
         /\ Len(Used(arg)) <= Len(arg.matrix) /\ Len(arg.matrix) \in Nat
         /\ DOMAIN arg.matrix = 1 .. Len(arg.matrix)
         /\ \A l \in DOMAIN Used(arg) :
              Used(arg)[l] = arg.matrix[l] /\ arg.matrix[l].kind # "null"
         /\ Len(Used(arg)) < Len(arg.matrix) => arg.matrix[Len(Used(arg)) + 1].kind = "null"
<1> DEFINE nulls == {i \in DOMAIN arg.matrix : arg.matrix[i].kind = "null"}
           first == CHOOSE i \in nulls : \A k \in nulls : i <= k
<1>1. DOMAIN arg.matrix = 1 .. Len(arg.matrix) /\ Len(arg.matrix) \in Nat
  BY LenProperties
<1>2. CASE nulls = {}
  BY <1>1, <1>2 DEF Used
<1>3. CASE nulls # {}
  <2>1. first \in nulls /\ first \in 1 .. Len(arg.matrix) /\ \A k \in nulls : first <= k
    <3>1. nulls \in SUBSET Nat /\ nulls \subseteq 1 .. Len(arg.matrix)
      BY <1>1
    <3> HIDE DEF nulls
    <3>2. \E i \in nulls : \A k \in nulls : i <= k
      BY <1>3, <3>1, LeastNat
    <3> QED  BY <3>1, <3>2
  <2>2. Used(arg) = SubSeq(arg.matrix, 1, first - 1)
    BY <1>3 DEF Used
  <2> HIDE DEF first
  <2>3. /\ Len(Used(arg)) = first - 1 /\ DOMAIN Used(arg) = 1 .. first - 1
        /\ \A l \in 1 .. first - 1 : Used(arg)[l] = arg.matrix[l]
    BY <1>1, <2>1, <2>2
  <2>4. \A l \in 1 .. first - 1 : l \notin nulls
    BY <2>1
  <2> QED  BY <1>1, <2>1, <2>3, <2>4
<1> QED  BY <1>2, <1>3

(* A choice has an index for each level.                                   *)
LEMMA ChoiceType ==
  ASSUME NEW matrix, NEW n \in Nat, DOMAIN matrix = 1 .. n,
         \A l \in 1 .. n : matrix[l].values \in Seq(Range(matrix[l].values)),
         NEW c \in MatrixChoices(matrix)
  PROVE  /\ DOMAIN c = 1 .. n /\ c = [l \in 1 .. n |-> c[l]]
         /\ \A l \in 1 .. n : /\ Len(matrix[l].values) \in Nat
                              /\ DOMAIN matrix[l].values = 1 .. Len(matrix[l].values)
                              /\ c[l] \in 1 .. Len(matrix[l].values)
<1>1. \A l \in 1 .. n : /\ Len(matrix[l].values) \in Nat
                        /\ DOMAIN matrix[l].values = 1 .. Len(matrix[l].values)
  BY LenProperties
<1> QED  BY <1>1 DEF MatrixChoices

(* The choices are ordered.                                                *)
LEMMA ChoicesOrdered ==
  ASSUME NEW n \in Nat, NEW c \in [1 .. n -> Nat], NEW d \in [1 .. n -> Nat]
  PROVE  /\ c # d => Before(c, d) \/ Before(d, c)
         /\ ~Before(c, c)
         /\ \A e \in [1 .. n -> Nat] : Before(e, c) /\ Before(c, d) => Before(e, d)
<1>1. ASSUME c # d
      PROVE  Before(c, d) \/ Before(d, c)
  <2> DEFINE T == {l \in 1 .. n : c[l] # d[l]}
  <2>1. T \in SUBSET Nat /\ T # {}
    BY <1>1
  <2>2. PICK l \in T : \A k \in T : l <= k
    BY <2>1, LeastNat
  <2>3. \A k \in 1 .. l - 1 : c[k] = d[k]
    BY <2>2
  <2>4. c[l] < d[l] \/ d[l] < c[l]
    BY <2>2
  <2> QED  BY <2>2, <2>3, <2>4 DEF Before
<1>2. ~Before(c, c)
  BY DEF Before
<1>3. ASSUME NEW e \in [1 .. n -> Nat], Before(e, c), Before(c, d)
      PROVE  Before(e, d)
  <2>1. PICK l \in 1 .. n : e[l] < c[l] /\ \A k \in 1 .. l - 1 : e[k] = c[k]
    BY <1>3 DEF Before
  <2>2. PICK m \in 1 .. n : c[m] < d[m] /\ \A k \in 1 .. m - 1 : c[k] = d[k]
    BY <1>3 DEF Before
  <2>3. CASE l < m
    <3>1. e[l] < d[l] /\ \A k \in 1 .. l - 1 : e[k] = d[k]
      BY <2>1, <2>2, <2>3
    <3> QED  BY <3>1 DEF Before
  <2>4. CASE l >= m
    <3>1. e[m] < d[m] /\ \A k \in 1 .. m - 1 : e[k] = d[k]
      <4>1. m = l \/ m \in 1 .. l - 1
        BY <2>4
      <4>2. e[m] < d[m]
        BY <2>1, <2>2, <4>1
      <4> QED  BY <2>1, <2>2, <2>4, <4>2
    <3> QED  BY <3>1 DEF Before
  <2> QED  BY <2>3, <2>4
<1> QED  BY <1>1, <1>2, <1>3

(* A choice is determined by how many come before it.                      *)
LEMMA RankInjective ==
  ASSUME NEW matrix, NEW n \in Nat, DOMAIN matrix = 1 .. n,
         \A l \in 1 .. n : matrix[l].values \in Seq(Range(matrix[l].values)),
         IsFiniteSet(MatrixChoices(matrix)),
         NEW c \in MatrixChoices(matrix), NEW d \in MatrixChoices(matrix),
         Cardinality(Earlier(matrix, c)) = Cardinality(Earlier(matrix, d))
  PROVE  c = d
<1>1. MatrixChoices(matrix) \subseteq [1 .. n -> Nat]
  <2> SUFFICES ASSUME NEW e \in MatrixChoices(matrix)
               PROVE  e \in [1 .. n -> Nat]
    OBVIOUS
  <2>1. e = [l \in 1 .. n |-> e[l]] /\ \A l \in 1 .. n : e[l] \in 1 .. Len(matrix[l].values)
    BY ChoiceType
  <2> QED  BY <2>1
<1>2. ASSUME NEW e \in MatrixChoices(matrix), NEW f \in MatrixChoices(matrix), Before(e, f)
      PROVE  Cardinality(Earlier(matrix, e)) < Cardinality(Earlier(matrix, f))
  <2>1. Earlier(matrix, e) \subseteq Earlier(matrix, f)
    BY <1>1, <1>2, ChoicesOrdered DEF Earlier
  <2>2. e \in Earlier(matrix, f) /\ e \notin Earlier(matrix, e)
    BY <1>1, <1>2, ChoicesOrdered DEF Earlier
  <2>3. IsFiniteSet(Earlier(matrix, f)) /\ Earlier(matrix, e) # Earlier(matrix, f)
    BY <2>2, FS_Subset DEF Earlier
  <2> QED  BY <2>1, <2>3, FS_Subset, FS_CardinalityType
<1>3. \A e \in MatrixChoices(matrix) : Cardinality(Earlier(matrix, e)) \in Nat
  BY FS_Subset, FS_CardinalityType DEF Earlier
<1>4. ~Before(c, d) /\ ~Before(d, c)
  BY <1>2, <1>3
<1> QED  BY <1>1, <1>4, ChoicesOrdered

-----------------------------------------------------------------------------
(* Lookups and assignments in the shared configuration.                    *)

(* A key that occurs has a first entry, ...                                *)
LEMMA FirstExists ==
  ASSUME NEW map, map \in Seq(Range(map)), NEW key, Occurs(map, key)
  PROVE  \E i \in DOMAIN map : map[i].key = key /\ \A j \in 1 .. i - 1 : map[j].key # key
<1> DEFINE T == {i \in DOMAIN map : map[i].key = key}
<1>1. DOMAIN map = 1 .. Len(map) /\ Len(map) \in Nat
  BY LenProperties
<1>2. T \in SUBSET Nat /\ T # {}
  BY <1>1 DEF Occurs
<1>3. PICK i \in T : \A j \in T : i <= j
  BY <1>2, LeastNat
<1>4. \A j \in 1 .. i - 1 : j \notin T
  BY <1>1, <1>3
<1> QED  BY <1>1, <1>3, <1>4

(* ... whose node a lookup finds.                                          *)
LEMMA NodeIsFirst ==
  ASSUME NEW map, map \in Seq(Range(map)), NEW key, NEW i \in DOMAIN map,
         map[i].key = key, \A j \in 1 .. i - 1 : map[j].key # key
  PROVE  NodeOf(map, key) = map[i].node
<1> DEFINE First(k) == map[k].key = key /\ \A j \in 1 .. k - 1 : map[j].key # key
<1>1. DOMAIN map = 1 .. Len(map) /\ Len(map) \in Nat
  BY LenProperties
<1>2. \A k \in DOMAIN map : First(k) => k = i
  BY <1>1
<1>3. (CHOOSE k \in DOMAIN map : First(k)) = i
  BY <1>2
<1> QED  BY <1>3 DEF NodeOf

(* An assignment keeps the entries, their keys and their identities, and   *)
(* may add one.                                                            *)
LEMMA AssignShape ==
  ASSUME NEW map, map \in Seq(Range(map)), NEW key, NEW node
  PROVE  LET new == Assign(map, key, node)
         IN /\ new \in Seq(Range(new)) /\ Len(map) \in Nat
            /\ DOMAIN map = 1 .. Len(map) /\ DOMAIN new = 1 .. Len(new)
            /\ Len(new) = IF Occurs(map, key) THEN Len(map) ELSE Len(map) + 1
            /\ \A i \in DOMAIN map :
                 /\ new[i].key = map[i].key /\ new[i].node.id = map[i].node.id
                 /\ new[i].node = IF Occurs(map, key) /\ map[i].node.id = NodeOf(map, key).id
                                  THEN Copy(node, NodeOf(map, key).id) ELSE map[i].node
            /\ ~Occurs(map, key) => new[Len(new)] = Pair(key, Copy(node, -Len(map) - 1))
<1> DEFINE new == Assign(map, key, node)
           added == Pair(key, Copy(node, -Len(map) - 1))
<1>1. DOMAIN map = 1 .. Len(map) /\ Len(map) \in Nat
  BY LenProperties
<1>2. CASE Occurs(map, key)
  <2> DEFINE old == NodeOf(map, key)
             entry(i) == IF map[i].node.id = old.id
                         THEN Pair(map[i].key, Copy(node, old.id)) ELSE map[i]
  <2>1. new = [i \in 1 .. Len(map) |-> entry(i)]
    BY <1>1, <1>2 DEF Assign
  <2>2. \A i \in 1 .. Len(map) : new[i] = entry(i)
    BY <2>1
  <2>3. \A i \in 1 .. Len(map) :
          /\ entry(i).key = map[i].key /\ entry(i).node.id = map[i].node.id
          /\ entry(i).node = IF map[i].node.id = old.id THEN Copy(node, old.id)
                                                        ELSE map[i].node
    BY DEF Pair, Copy
  <2> HIDE DEF entry
  <2>4. new \in Seq({entry(i) : i \in 1 .. Len(map)})
    BY <1>1, <2>1
  <2>5. Len(new) = Len(map) /\ DOMAIN new = 1 .. Len(map)
    BY <1>1, <2>1
  <2>6. new \in Seq(Range(new))
    <3>1. Range(new) = {entry(i) : i \in 1 .. Len(map)}
      BY <2>1 DEF Range
    <3> QED  BY <2>4, <3>1
  <2> QED  BY <1>1, <1>2, <2>2, <2>3, <2>5, <2>6
<1>3. CASE ~Occurs(map, key)
  <2>1. new = Append(map, added)
    BY <1>3 DEF Assign
  <2> HIDE DEF new, added
  <2>2. new \in Seq(Range(new))
    BY <2>1, AppendedRange
  <2>3. Len(new) = Len(map) + 1 /\ new[Len(map) + 1] = added
        /\ \A i \in 1 .. Len(map) : new[i] = map[i]
    BY <1>1, <2>1, AppendProperties
  <2>4. DOMAIN new = 1 .. Len(new)
    BY <2>2, LenProperties
  <2> QED  BY <1>1, <1>3, <2>2, <2>3, <2>4 DEF new, added
<1> QED  BY <1>2, <1>3

(* ... so that it keeps the nodes of all keys but for what it assigns.     *)
LEMMA AssignNodes ==
  ASSUME NEW map, map \in Seq(Range(map)), NEW key, NEW node
  PROVE  LET new == Assign(map, key, node)
         IN /\ \A other : Occurs(map, other) =>
                 /\ Occurs(new, other) /\ NodeOf(new, other).id = NodeOf(map, other).id
                 /\ NodeOf(new, other) =
                      IF Occurs(map, key) /\ NodeOf(map, other).id = NodeOf(map, key).id
                      THEN Copy(node, NodeOf(map, key).id) ELSE NodeOf(map, other)
            /\ \A other : ~Occurs(map, other) /\ other # key => ~Occurs(new, other)
            /\ Occurs(new, key)
            /\ ~Occurs(map, key) => NodeOf(new, key) = Copy(node, -Len(map) - 1)
<1> DEFINE new == Assign(map, key, node)
<1> HIDE DEF new
<1>1. /\ new \in Seq(Range(new)) /\ Len(map) \in Nat
      /\ DOMAIN map = 1 .. Len(map) /\ DOMAIN new = 1 .. Len(new)
      /\ Len(new) = IF Occurs(map, key) THEN Len(map) ELSE Len(map) + 1
      /\ \A i \in DOMAIN map :
           /\ new[i].key = map[i].key /\ new[i].node.id = map[i].node.id
           /\ new[i].node = IF Occurs(map, key) /\ map[i].node.id = NodeOf(map, key).id
                            THEN Copy(node, NodeOf(map, key).id) ELSE map[i].node
      /\ ~Occurs(map, key) => new[Len(new)] = Pair(key, Copy(node, -Len(map) - 1))
  BY AssignShape DEF new
<1>2. DOMAIN map \subseteq DOMAIN new
  BY <1>1
<1>3. ASSUME NEW other, Occurs(map, other)
      PROVE  /\ Occurs(new, other) /\ NodeOf(new, other).id = NodeOf(map, other).id
             /\ NodeOf(new, other) =
                  IF Occurs(map, key) /\ NodeOf(map, other).id = NodeOf(map, key).id
                  THEN Copy(node, NodeOf(map, key).id) ELSE NodeOf(map, other)
  <2>1. PICK i \in DOMAIN map :
          map[i].key = other /\ \A j \in 1 .. i - 1 : map[j].key # other
    BY <1>3, FirstExists
  <2>2. NodeOf(map, other) = map[i].node
    BY <2>1, NodeIsFirst
  <2>3. new[i].key = other /\ i \in DOMAIN new /\ \A j \in 1 .. i - 1 : new[j].key # other
    <3>1. \A j \in 1 .. i - 1 : j \in DOMAIN map
      BY <1>1
    <3> QED  BY <1>1, <1>2, <2>1, <3>1
  <2>4. NodeOf(new, other) = new[i].node
    BY <1>1, <2>3, NodeIsFirst
  <2>5. Occurs(new, other)
    BY <2>3 DEF Occurs
  <2> QED  BY <1>1, <2>2, <2>4, <2>5
<1>4. ASSUME ~Occurs(map, key)
      PROVE  Occurs(new, key) /\ NodeOf(new, key) = Copy(node, -Len(map) - 1)
  <2>1. Len(new) \in DOMAIN new /\ Len(new) = Len(map) + 1
    BY <1>1, <1>4
  <2>2. new[Len(new)].key = key /\ new[Len(new)].node = Copy(node, -Len(map) - 1)
    BY <1>1, <1>4 DEF Pair
  <2>3. \A j \in 1 .. Len(new) - 1 : new[j].key # key
    BY <1>1, <1>4, <2>1 DEF Occurs
  <2>4. NodeOf(new, key) = new[Len(new)].node
    BY <1>1, <2>1, <2>2, <2>3, NodeIsFirst
  <2> QED  BY <2>1, <2>2, <2>4 DEF Occurs
<1>5. ASSUME NEW other, ~Occurs(map, other), other # key
      PROVE  ~Occurs(new, other)
  <2> SUFFICES ASSUME NEW i \in DOMAIN new, new[i].key = other PROVE FALSE
    BY DEF Occurs
  <2>1. i \in DOMAIN map \/ (i = Len(new) /\ ~Occurs(map, key))
    BY <1>1
  <2>2. CASE i \in DOMAIN map
    BY <1>1, <1>5, <2>2 DEF Occurs
  <2>3. CASE i = Len(new) /\ ~Occurs(map, key)
    BY <1>1, <1>5, <2>3 DEF Pair
  <2> QED  BY <2>1, <2>2, <2>3
<1> QED  BY <1>3, <1>4, <1>5 DEF new

(* An assignment changes the value of its option only, unless two options  *)
(* are aliases.                                                            *)
LEMMA AssignConfig ==
  ASSUME NEW map, map \in Seq(Range(map)), NEW key \in Keys, NEW node,
         Unaliased(Assign(map, key, node))
  PROVE  /\ Unaliased(map)
         /\ \A option \in Keys :
              Config(Assign(map, key, node))[option] =
                IF option = key THEN node.value ELSE Config(map)[option]
<1> DEFINE new == Assign(map, key, node)
<1>1. /\ \A other : Occurs(map, other) =>
            /\ Occurs(new, other) /\ NodeOf(new, other).id = NodeOf(map, other).id
            /\ NodeOf(new, other) =
                 IF Occurs(map, key) /\ NodeOf(map, other).id = NodeOf(map, key).id
                 THEN Copy(node, NodeOf(map, key).id) ELSE NodeOf(map, other)
      /\ \A other : ~Occurs(map, other) /\ other # key => ~Occurs(new, other)
      /\ Occurs(new, key)
      /\ ~Occurs(map, key) => NodeOf(new, key) = Copy(node, -Len(map) - 1)
  BY AssignNodes
<1> HIDE DEF new
<1>2. Unaliased(map)
  BY <1>1 DEF Unaliased, Found, new
<1>3. Config(new)[key] = node.value
  <2>1. NodeOf(new, key).value = node.value
    BY <1>1 DEF Copy
  <2> QED  BY <1>1, <2>1 DEF Config
<1>4. ASSUME NEW option \in Keys, option # key
      PROVE  Config(new)[option] = Config(map)[option]
  <2>1. Occurs(map, option) /\ Occurs(map, key) =>
          NodeOf(map, option).id # NodeOf(map, key).id
    BY <1>2, <1>4 DEF Unaliased, Found
  <2> QED  BY <1>1, <1>4, <2>1 DEF Config
<1> QED  BY <1>2, <1>3, <1>4 DEF new

(* What is decoded has no aliased options.                                 *)
LEMMA DecodedUnaliased ==
  ASSUME NEW map, NEW tags, Decodes(map, tags), map \in Seq(Range(map)),
         \A e, f \in DOMAIN map :
           map[e].node.id = map[f].node.id => map[e].node.data = map[f].node.data
  PROVE  Unaliased(map)
<1> SUFFICES ASSUME NEW key \in Found(map), NEW other \in Found(map),
                    NodeOf(map, key).id = NodeOf(map, other).id, key # other
             PROVE  FALSE
  BY DEF Unaliased
<1>1. PICK e \in DOMAIN map : map[e].key = key /\ \A j \in 1 .. e - 1 : map[j].key # key
  BY FirstExists DEF Found
<1>2. PICK f \in DOMAIN map : map[f].key = other /\ \A j \in 1 .. f - 1 : map[j].key # other
  BY FirstExists DEF Found
<1>3. NodeOf(map, key) = map[e].node /\ NodeOf(map, other) = map[f].node
  BY <1>1, <1>2, NodeIsFirst
<1>4. NodeOf(map, key).data = NodeOf(map, other).data
  BY <1>3
<1> QED  BY <1>4 DEF Decodes, DuplicateEntry

-----------------------------------------------------------------------------
(* The recursion enumerates the choices in their order.                    *)

(* The choices that have been decoded stay the same when the recursion     *)
(* descends, ...                                                           *)
LEMMA DescendSame ==
  ASSUME NEW matrix, NEW n \in Nat, DOMAIN matrix = 1 .. n,
         \A l \in 1 .. n : matrix[l].values \in Seq(Range(matrix[l].values)),
         NEW chosen \in Seq(Nat), Len(chosen) < n
  PROVE  Decoded(matrix, Append(chosen, 1), FALSE) = Decoded(matrix, chosen, FALSE)
<1> DEFINE k == Len(chosen)
           new == Append(chosen, 1)
<1>1. k \in Nat /\ DOMAIN chosen = 1 .. k /\ DOMAIN new = 1 .. k + 1 /\ new[k + 1] = 1
      /\ \A l \in 1 .. k : new[l] = chosen[l] /\ chosen[l] \in Nat
  OBVIOUS
<1> HIDE DEF k, new
<1> SUFFICES ASSUME NEW c \in MatrixChoices(matrix)
             PROVE  Before(c, new) <=> Before(c, chosen)
  BY DEF Decoded, new
<1>2. \A l \in 1 .. n : c[l] \in 1 .. Len(matrix[l].values) /\ Len(matrix[l].values) \in Nat
  BY ChoiceType
<1>3. ASSUME Before(c, new)
      PROVE  Before(c, chosen)
  <2>1. PICK l \in 1 .. k + 1 : c[l] < new[l] /\ \A m \in 1 .. l - 1 : c[m] = new[m]
    BY <1>1, <1>3 DEF Before
  <2>2. l # k + 1
    BY <1>1, <1>2, <2>1 DEF k
  <2>3. l \in 1 .. k /\ c[l] < chosen[l] /\ \A m \in 1 .. l - 1 : c[m] = chosen[m]
    BY <1>1, <2>1, <2>2
  <2> QED  BY <1>1, <2>3 DEF Before
<1>4. ASSUME Before(c, chosen)
      PROVE  Before(c, new)
  <2>1. PICK l \in 1 .. k : c[l] < chosen[l] /\ \A m \in 1 .. l - 1 : c[m] = chosen[m]
    BY <1>1, <1>4 DEF Before
  <2>2. l \in 1 .. k + 1 /\ c[l] < new[l] /\ \A m \in 1 .. l - 1 : c[m] = new[m]
    BY <1>1, <2>1
  <2> QED  BY <1>1, <2>2 DEF Before
<1> QED  BY <1>3, <1>4

(* ... when it goes to the next value, ...                                 *)
LEMMA NextValueSame ==
  ASSUME NEW matrix, NEW n \in Nat, DOMAIN matrix = 1 .. n,
         \A l \in 1 .. n : matrix[l].values \in Seq(Range(matrix[l].values)),
         NEW chosen \in Seq(Nat), Len(chosen) \in 1 .. n
  PROVE  Decoded(matrix, [chosen EXCEPT ![Len(chosen)] = @ + 1], FALSE) =
           Decoded(matrix, chosen, TRUE)
<1> DEFINE k == Len(chosen)
           new == [chosen EXCEPT ![k] = @ + 1]
<1>1. /\ k \in 1 .. n /\ DOMAIN chosen = 1 .. k /\ DOMAIN new = 1 .. k /\ new[k] = chosen[k] + 1
      /\ \A l \in 1 .. k - 1 : new[l] = chosen[l]
      /\ \A i \in 1 .. k : chosen[i] \in Nat
  OBVIOUS
<1> HIDE DEF k, new
<1> SUFFICES ASSUME NEW c \in MatrixChoices(matrix)
             PROVE  Before(c, new) <=> Before(c, chosen) \/ Below(c, chosen)
  BY DEF Decoded, new, k
<1>2. \A l \in 1 .. n : c[l] \in Nat
  BY ChoiceType
<1>3. ASSUME Before(c, new)
      PROVE  Before(c, chosen) \/ Below(c, chosen)
  <2>1. PICK l \in 1 .. k : c[l] < new[l] /\ \A m \in 1 .. l - 1 : c[m] = new[m]
    BY <1>1, <1>3 DEF Before
  <2>2. \A m \in 1 .. l - 1 : c[m] = chosen[m]
    BY <1>1, <2>1
  <2>3. c[l] < chosen[l] \/ (l = k /\ c[l] = chosen[l])
    BY <1>1, <1>2, <2>1
  <2>4. CASE c[l] < chosen[l]
    BY <1>1, <2>1, <2>2, <2>4 DEF Before
  <2>5. CASE l = k /\ c[l] = chosen[l]
    <3>1. \A m \in 1 .. k : m \in 1 .. k - 1 \/ m = k
      BY <1>1
    <3>2. \A m \in 1 .. k : c[m] = chosen[m]
      BY <2>2, <2>5, <3>1
    <3> QED  BY <1>1, <3>2 DEF Below
  <2> QED  BY <2>3, <2>4, <2>5
<1>4. ASSUME Before(c, chosen)
      PROVE  Before(c, new)
  <2>1. PICK l \in 1 .. k : c[l] < chosen[l] /\ \A m \in 1 .. l - 1 : c[m] = chosen[m]
    BY <1>1, <1>4 DEF Before
  <2>2. \A m \in 1 .. l - 1 : c[m] = new[m]
    BY <1>1, <2>1
  <2>3. new[l] = chosen[l] \/ new[l] = chosen[l] + 1
    BY <1>1, <2>1
  <2>4. c[l] < new[l]
    BY <1>1, <1>2, <2>1, <2>3
  <2> QED  BY <1>1, <2>1, <2>2, <2>4 DEF Before
<1>5. ASSUME Below(c, chosen)
      PROVE  Before(c, new)
  <2>1. \A m \in 1 .. k : c[m] = chosen[m]
    BY <1>1, <1>5 DEF Below
  <2>2. \A m \in 1 .. k - 1 : c[m] = new[m]
    BY <1>1, <2>1
  <2>3. k \in DOMAIN new /\ c[k] < new[k]
    BY <1>1, <1>2, <2>1
  <2> QED  BY <2>2, <2>3 DEF Before
<1> QED  BY <1>3, <1>4, <1>5

(* ... and when it returns after the last.                                 *)
LEMMA ReturnSame ==
  ASSUME NEW matrix, NEW n \in Nat, DOMAIN matrix = 1 .. n,
         \A l \in 1 .. n : matrix[l].values \in Seq(Range(matrix[l].values)),
         NEW chosen \in Seq(Nat), Len(chosen) \in 1 .. n,
         chosen[Len(chosen)] = Len(matrix[Len(chosen)].values)
  PROVE  Decoded(matrix, SubSeq(chosen, 1, Len(chosen) - 1), TRUE) =
           Decoded(matrix, chosen, TRUE)
<1> DEFINE k == Len(chosen)
           new == SubSeq(chosen, 1, k - 1)
<1>1. /\ k \in 1 .. n /\ DOMAIN chosen = 1 .. k /\ DOMAIN new = 1 .. k - 1
      /\ \A l \in 1 .. k - 1 : new[l] = chosen[l]
      /\ \A i \in 1 .. k : chosen[i] \in Nat
  OBVIOUS
<1> HIDE DEF k, new
<1> SUFFICES ASSUME NEW c \in MatrixChoices(matrix)
             PROVE  Before(c, new) \/ Below(c, new) <=> Before(c, chosen) \/ Below(c, chosen)
  BY DEF Decoded, new, k
<1>2. \A l \in 1 .. n : c[l] \in Nat
  BY ChoiceType
<1>3. c[k] < chosen[k] \/ c[k] = chosen[k]
  <2>1. c[k] \in 1 .. Len(matrix[k].values)
    BY <1>1, ChoiceType
  <2>2. chosen[k] = Len(matrix[k].values)
    BY DEF k
  <2>3. chosen[k] \in Nat /\ c[k] \in Nat
    BY <1>1, <1>2
  <2> QED  BY <2>1, <2>2, <2>3
<1>4. ASSUME Before(c, new)
      PROVE  Before(c, chosen)
  <2>1. PICK l \in 1 .. k - 1 : c[l] < new[l] /\ \A m \in 1 .. l - 1 : c[m] = new[m]
    BY <1>1, <1>4 DEF Before
  <2>2. l \in 1 .. k /\ c[l] < chosen[l] /\ \A m \in 1 .. l - 1 : c[m] = chosen[m]
    BY <1>1, <2>1
  <2> QED  BY <1>1, <2>2 DEF Before
<1>5. ASSUME Below(c, new)
      PROVE  Before(c, chosen) \/ Below(c, chosen)
  <2>1. \A m \in 1 .. k - 1 : c[m] = chosen[m]
    BY <1>1, <1>5 DEF Below
  <2>2. CASE c[k] < chosen[k]
    <3>1. k \in DOMAIN chosen
      BY <1>1
    <3> QED  BY <2>1, <2>2, <3>1, Zenon DEF Before
  <2>3. CASE c[k] = chosen[k]
    <3>1. \A m \in 1 .. k : m = k \/ m \in 1 .. k - 1
      BY <1>1
    <3>2. \A m \in 1 .. k : c[m] = chosen[m]
      BY <2>1, <2>3, <3>1, Zenon
    <3> QED  BY <1>1, <3>2 DEF Below
  <2> QED  BY <1>3, <2>2, <2>3
<1>6. ASSUME Before(c, chosen)
      PROVE  Before(c, new) \/ Below(c, new)
  <2>1. PICK l \in 1 .. k : c[l] < chosen[l] /\ \A m \in 1 .. l - 1 : c[m] = chosen[m]
    BY <1>1, <1>6 DEF Before
  <2>2. CASE l = k
    <3>1. \A m \in 1 .. k - 1 : c[m] = new[m]
      BY <1>1, <2>1, <2>2
    <3> QED  BY <1>1, <3>1 DEF Below
  <2>3. CASE l # k
    <3>1. l \in 1 .. k - 1 /\ c[l] < new[l] /\ \A m \in 1 .. l - 1 : c[m] = new[m]
      BY <1>1, <2>1, <2>3
    <3> QED  BY <1>1, <3>1 DEF Before
  <2> QED  BY <2>2, <2>3
<1>7. ASSUME Below(c, chosen)
      PROVE  Below(c, new)
  BY <1>1, <1>7 DEF Below
<1> QED  BY <1>4, <1>5, <1>6, <1>7

(* A leaf adds its choice to those that come before it.                    *)
LEMMA LeafAdds ==
  ASSUME NEW matrix, NEW n \in Nat, DOMAIN matrix = 1 .. n,
         \A l \in 1 .. n : matrix[l].values \in Seq(Range(matrix[l].values)),
         NEW chosen \in Seq(Nat), Len(chosen) = n,
         \A l \in 1 .. n : chosen[l] \in DOMAIN matrix[l].values
  PROVE  /\ chosen \in MatrixChoices(matrix)
         /\ Earlier(matrix, chosen) = Decoded(matrix, chosen, FALSE)
         /\ chosen \notin Decoded(matrix, chosen, FALSE)
         /\ Decoded(matrix, chosen, TRUE) = Decoded(matrix, chosen, FALSE) \cup {chosen}
<1>1. DOMAIN chosen = 1 .. n /\ chosen = [l \in 1 .. n |-> chosen[l]]
      /\ \A l \in 1 .. n : chosen[l] \in Nat
  OBVIOUS
<1>2. chosen \in MatrixChoices(matrix)
  BY <1>1 DEF MatrixChoices
<1>3. ~Before(chosen, chosen)
  BY <1>1 DEF Before
<1>4. ASSUME NEW c \in MatrixChoices(matrix)
      PROVE  Below(c, chosen) <=> c = chosen
  <2>1. c = [l \in 1 .. n |-> c[l]]
    BY ChoiceType
  <2>2. Below(c, chosen) => \A l \in 1 .. n : c[l] = chosen[l]
    BY <1>1 DEF Below
  <2>3. Below(chosen, chosen)
    BY DEF Below
  <2> QED  BY <1>1, <2>1, <2>2, <2>3
<1> QED  BY <1>2, <1>3, <1>4 DEF Earlier, Decoded

(* In the end all choices have been decoded; at the start none has.        *)
LEMMA AllDecoded ==
  ASSUME NEW matrix
  PROVE  /\ Decoded(matrix, <<>>, TRUE) = MatrixChoices(matrix)
         /\ Decoded(matrix, <<>>, FALSE) = {}
BY DEF Decoded, Before, Below

-----------------------------------------------------------------------------
(* The steps of the recursion.                                             *)

(* What the invariant says of the document                                 *)
LEMMA MatrixShape ==
  ASSUME document \in Documents, current \in DOMAIN document, Arg.kind = "map"
  PROVE  /\ Len(Used(Arg)) \in Nat /\ DOMAIN Used(Arg) = 1 .. Len(Used(Arg))
         /\ Len(Used(Arg)) <= Len(Arg.matrix) /\ Len(Arg.matrix) \in Nat
         /\ DOMAIN Arg.matrix = 1 .. Len(Arg.matrix)
         /\ \A l \in 1 .. Len(Used(Arg)) :
              /\ Used(Arg)[l] = Arg.matrix[l] /\ Arg.matrix[l].kind # "null"
              /\ Used(Arg)[l].values \in Seq(Range(Used(Arg)[l].values))
              /\ Len(Arg.matrix[l].values) \in Nat
              /\ DOMAIN Arg.matrix[l].values = 1 .. Len(Arg.matrix[l].values)
         /\ Len(Used(Arg)) < Len(Arg.matrix) => Arg.matrix[Len(Used(Arg)) + 1].kind = "null"
<1>1. /\ Arg.matrix \in Seq(Range(Arg.matrix))
      /\ \A l \in DOMAIN Arg.matrix :
           Arg.matrix[l].values \in Seq(Range(Arg.matrix[l].values))
  BY DocumentsAssumption DEF Arg
<1>2. \A l \in DOMAIN Arg.matrix :
        /\ Len(Arg.matrix[l].values) \in Nat
        /\ DOMAIN Arg.matrix[l].values = 1 .. Len(Arg.matrix[l].values)
  BY <1>1, LenProperties
<1>3. /\ Len(Used(Arg)) \in Nat /\ DOMAIN Used(Arg) = 1 .. Len(Used(Arg))
      /\ Len(Used(Arg)) <= Len(Arg.matrix) /\ Len(Arg.matrix) \in Nat
      /\ DOMAIN Arg.matrix = 1 .. Len(Arg.matrix)
      /\ \A l \in DOMAIN Used(Arg) :
           Used(Arg)[l] = Arg.matrix[l] /\ Arg.matrix[l].kind # "null"
      /\ Len(Used(Arg)) < Len(Arg.matrix) => Arg.matrix[Len(Used(Arg)) + 1].kind = "null"
  BY <1>1, UsedEntries
<1>4. \A l \in 1 .. Len(Used(Arg)) : l \in DOMAIN Arg.matrix
  BY <1>3
<1> QED  BY <1>1, <1>2, <1>3, <1>4

(* The recursion ends when all levels that are used have a value.          *)
LEMMA LeafIsDeepest ==
  ASSUME document \in Documents, current \in DOMAIN document, Arg.kind = "map", IndicesInv
  PROVE  /\ AtLeaf <=> Len(indices) = Len(Used(Arg))
         /\ Len(indices) \in Nat /\ DOMAIN indices = 1 .. Len(indices)
         /\ \A l \in 1 .. Len(indices) :
              l \in DOMAIN Used(Arg) /\ indices[l] \in 1 .. Len(Used(Arg)[l].values)
<1> DEFINE M == Used(Arg)
           n == Len(M)
           k == Len(indices)
<1>1. /\ n \in Nat /\ DOMAIN M = 1 .. n /\ n <= Len(Arg.matrix) /\ Len(Arg.matrix) \in Nat
      /\ \A l \in 1 .. n : /\ M[l] = Arg.matrix[l] /\ Arg.matrix[l].kind # "null"
                            /\ DOMAIN Arg.matrix[l].values = 1 .. Len(Arg.matrix[l].values)
      /\ n < Len(Arg.matrix) => Arg.matrix[n + 1].kind = "null"
  BY MatrixShape
<1>2. /\ k \in Nat /\ DOMAIN indices = 1 .. k /\ k <= n
      /\ \A l \in DOMAIN indices : indices[l] \in DOMAIN M[l].values
  BY LenProperties DEF IndicesInv
<1>3. Level = k + 1
  BY DEF Level
<1> HIDE DEF M, n, k
<1>4. ASSUME k = n
      PROVE  AtLeaf
  BY <1>1, <1>2, <1>3, <1>4 DEF AtLeaf
<1>5. ASSUME k # n
      PROVE  ~AtLeaf
  <2>1. Level \in 1 .. n /\ Level <= Len(Arg.matrix)
    BY <1>1, <1>2, <1>3, <1>5
  <2> QED  BY <1>1, <1>5, <2>1 DEF AtLeaf
<1>6. AtLeaf <=> k = n
  BY <1>4, <1>5
<1>7. \A l \in 1 .. k : l \in DOMAIN M /\ indices[l] \in 1 .. Len(M[l].values)
  <2>1. \A l \in 1 .. k : l \in 1 .. n
    BY <1>1, <1>2
  <2> QED  BY <1>1, <1>2, <2>1
<1> QED  BY <1>2, <1>6, <1>7 DEF M, n, k

(* The entries of the shared configuration, when decoding starts, and      *)
(* after an assignment                                                     *)
LEMMA EntriesCarried ==
  ASSUME UNCHANGED <<document, current>>,
         NEW map, EntriesInv(map, TRUE), current_config' = map
  PROVE  EntriesInv(current_config, TRUE)'
BY DEF EntriesInv, Origin, Places, NodeAt, KeyAt, Arg

(* What DocumentsAssumption says of the entries of args.                   *)
LEMMA ArgsShape ==
  ASSUME document \in Documents, current \in DOMAIN document
  PROVE  /\ Arg.args \in Seq(Range(Arg.args)) /\ Len(Arg.args) \in Nat
         /\ DOMAIN Arg.args = 1 .. Len(Arg.args)
         /\ \A e \in DOMAIN Arg.args :
              /\ <<0, e>> \in Places(current)
              /\ NodeAt(current, <<0, e>>) = Arg.args[e].node
              /\ KeyAt(current, <<0, e>>) = Arg.args[e].key
              /\ Loaded(Arg.args[e].node)
<1>1. Arg.args \in Seq(Range(Arg.args)) /\ \A e \in DOMAIN Arg.args : Loaded(Arg.args[e].node)
  BY DocumentsAssumption DEF Arg
<1>2. Len(Arg.args) \in Nat /\ DOMAIN Arg.args = 1 .. Len(Arg.args)
  BY <1>1, LenProperties
<1>3. \A e \in DOMAIN Arg.args : /\ <<0, e>> \in Places(current)
                                 /\ NodeAt(current, <<0, e>>) = Arg.args[e].node
                                 /\ KeyAt(current, <<0, e>>) = Arg.args[e].key
  BY DEF Places, NodeAt, KeyAt, Arg
<1> QED  BY <1>1, <1>2, <1>3

(* A clone has the same values.                                            *)
LEMMA CloneConfig ==
  ASSUME NEW map, map \in Seq(Range(map))
  PROVE  Config(Clone(map)) = Config(map)
<1> DEFINE new == Clone(map)
<1>1. DOMAIN new = DOMAIN map
      /\ \A i \in DOMAIN map : new[i].key = map[i].key /\ new[i].node.value = map[i].node.value
  BY DEF Clone, Pair
<1> HIDE DEF new
<1>2. \A key : Occurs(new, key) <=> Occurs(map, key)
  BY <1>1 DEF Occurs
<1>3. ASSUME NEW key, Occurs(map, key)
      PROVE  NodeOf(new, key).value = NodeOf(map, key).value
  <2> DEFINE First(m, i) == m[i].key = key /\ \A j \in 1 .. i - 1 : m[j].key # key
  <2>1. PICK i \in DOMAIN map : First(map, i)
    BY <1>3, FirstExists
  <2>2. DOMAIN map = 1 .. Len(map) /\ Len(map) \in Nat
    BY LenProperties
  <2>3. \A k \in DOMAIN map : First(new, k) <=> First(map, k)
    <3>1. \A k \in DOMAIN map : \A j \in 1 .. k - 1 : j \in DOMAIN map
      BY <2>2
    <3> QED  BY <1>1, <3>1
  <2>4. \A k \in DOMAIN map : First(map, k) => k = i
    BY <2>1, <2>2
  <2> HIDE DEF First
  <2>5. (CHOOSE k \in DOMAIN new : First(new, k)) = i
    BY <1>1, <2>1, <2>3, <2>4
  <2>6. (CHOOSE k \in DOMAIN map : First(map, k)) = i
    BY <2>1, <2>4
  <2> QED  BY <1>1, <2>5, <2>6 DEF NodeOf, First
<1> QED  BY <1>2, <1>3 DEF Config, new

(* The arguments satisfy the invariant of the entries, as they are and     *)
(* cloned.                                                                 *)
LEMMA ClonedEntries ==
  ASSUME document \in Documents, current \in DOMAIN document
  PROVE  EntriesInv(Arg.args, FALSE) /\ EntriesInv(Clone(Arg.args), TRUE)
<1> DEFINE n == Len(Arg.args)
           map == Clone(Arg.args)
<1>1. /\ Arg.args \in Seq(Range(Arg.args)) /\ n \in Nat /\ DOMAIN Arg.args = 1 .. n
      /\ \A e \in DOMAIN Arg.args :
           /\ <<0, e>> \in Places(current)
           /\ NodeAt(current, <<0, e>>) = Arg.args[e].node
           /\ Loaded(Arg.args[e].node)
  BY ArgsShape
<1>2. EntriesInv(Arg.args, FALSE)
  <2>1. \A e \in DOMAIN Arg.args : Origin(Arg.args, FALSE, e, <<0, e>>)
    BY <1>1 DEF Origin
  <2>2. \A e \in DOMAIN Arg.args : \E p \in Places(current) : Origin(Arg.args, FALSE, e, p)
    BY <1>1, <2>1
  <2>3. \A e \in DOMAIN Arg.args : Arg.args[e].node.data = Arg.args[e].node.id
    BY <1>1 DEF Loaded
  <2>4. n + 1 .. n = {} /\ n <= n
    BY <1>1
  <2> QED  BY <1>1, <2>2, <2>3, <2>4 DEF EntriesInv
<1>3. /\ DOMAIN map = 1 .. n /\ map \in Seq(Range(map)) /\ Len(map) = n
      /\ \A e \in 1 .. n : /\ map[e].key = Arg.args[e].key
                           /\ map[e].node.id = Arg.args[e].node.id
                           /\ map[e].node.data = -Arg.args[e].node.data
  <2> DEFINE entry(i) == Pair(Arg.args[i].key, [id |-> Arg.args[i].node.id,
                                                data |-> -Arg.args[i].node.data,
                                                value |-> Arg.args[i].node.value])
  <2>1. map = [i \in 1 .. n |-> entry(i)]
    BY <1>1 DEF Clone
  <2>2. \A i \in 1 .. n : /\ entry(i).key = Arg.args[i].key
                         /\ entry(i).node.id = Arg.args[i].node.id
                         /\ entry(i).node.data = -Arg.args[i].node.data
    BY DEF Pair
  <2> HIDE DEF entry
  <2>3. Range(map) = {entry(i) : i \in 1 .. n}
    BY <2>1 DEF Range
  <2> QED  BY <1>1, <2>1, <2>2, <2>3
<1> HIDE DEF map
<1>4. EntriesInv(map, TRUE)
  <2>1. \A e \in DOMAIN map : Origin(map, TRUE, e, <<0, e>>)
    BY <1>1, <1>3 DEF Origin
  <2>2. \A e \in DOMAIN map : \E p \in Places(current) : Origin(map, TRUE, e, p)
    BY <1>1, <1>3, <2>1
  <2>3. \A e, f \in DOMAIN map :
          map[e].node.id = map[f].node.id => map[e].node.data = map[f].node.data
    <3>1. \A e \in 1 .. n : map[e].node.data = -map[e].node.id
      BY <1>1, <1>3 DEF Loaded
    <3> QED  BY <1>3, <3>1
  <2>4. n + 1 .. Len(map) = {} /\ n <= Len(map)
    BY <1>1, <1>3
  <2> QED  BY <1>1, <1>3, <2>2, <2>3, <2>4 DEF EntriesInv
<1> QED  BY <1>2, <1>4 DEF map

(* An assignment of a matrix value keeps the invariant of the entries.     *)
LEMMA AssignedEntries ==
  ASSUME document \in Documents, current \in DOMAIN document, Arg.kind = "map",
         NEW map, EntriesInv(map, TRUE), NEW level \in 1 .. Len(Used(Arg)),
         NEW v \in DOMAIN Used(Arg)[level].values
  PROVE  EntriesInv(Assign(map, Used(Arg)[level].key, Used(Arg)[level].values[v]), TRUE)
<1> DEFINE K == Used(Arg)[level].key
           node == Used(Arg)[level].values[v]
           new == Assign(map, K, node)
           n == Len(Arg.args)
           place == <<level, v>>
           old == NodeOf(map, K)
<1>1. /\ map \in Seq(Range(map)) /\ n <= Len(map) /\ n \in Nat
      /\ \A e \in 1 .. n : /\ map[e].key = Arg.args[e].key
                           /\ map[e].node.id = Arg.args[e].node.id
                           /\ map[e].node.id \in Nat \ {0}
      /\ \A e \in n + 1 .. Len(map) :
           map[e].node.id = -e /\ \A f \in 1 .. e - 1 : map[f].key # map[e].key
      /\ \A e \in DOMAIN map : \E p \in Places(current) : Origin(map, TRUE, e, p)
      /\ \A e, f \in DOMAIN map :
           map[e].node.id = map[f].node.id => map[e].node.data = map[f].node.data
  BY ArgsShape DEF EntriesInv, Loaded
<1>2. place \in Places(current) /\ NodeAt(current, place) = node /\ KeyAt(current, place) = K
  <2>1. level \in DOMAIN Used(document[current]) /\ level # 0
    BY MatrixShape DEF Arg
  <2> QED  BY <2>1 DEF Places, NodeAt, KeyAt, Arg
<1> HIDE DEF K, node, new
<1>3. /\ new \in Seq(Range(new)) /\ Len(map) \in Nat
      /\ DOMAIN map = 1 .. Len(map) /\ DOMAIN new = 1 .. Len(new)
      /\ Len(new) = IF Occurs(map, K) THEN Len(map) ELSE Len(map) + 1
      /\ \A i \in DOMAIN map :
           /\ new[i].key = map[i].key /\ new[i].node.id = map[i].node.id
           /\ new[i].node = IF Occurs(map, K) /\ map[i].node.id = old.id
                            THEN Copy(node, old.id) ELSE map[i].node
      /\ ~Occurs(map, K) => new[Len(new)] = Pair(K, Copy(node, -Len(map) - 1))
  BY <1>1, AssignShape DEF new
<1>4. /\ \A other : Occurs(map, other) =>
           Occurs(new, other) /\ NodeOf(new, other).id = NodeOf(map, other).id
      /\ Occurs(new, K)
      /\ ~Occurs(map, K) => NodeOf(new, K).id = -Len(map) - 1
  BY <1>1, AssignNodes DEF new, Copy
<1>5. ~Occurs(map, K) => /\ Len(new) = Len(map) + 1 /\ new[Len(new)].key = K
                         /\ new[Len(new)].node.id = -Len(new)
                         /\ new[Len(new)].node.data = node.data
  BY <1>3 DEF Pair, Copy
<1>6. \A i \in DOMAIN new : i \in DOMAIN map \/ (i = Len(new) /\ ~Occurs(map, K))
  BY <1>3
<1> HIDE DEF n, place, old
<1>7. \A e \in 1 .. n : new[e].key = Arg.args[e].key /\ new[e].node.id = Arg.args[e].node.id
  <2>1. \A e \in 1 .. n : e \in DOMAIN map
    BY <1>1, <1>3
  <2> QED  BY <1>1, <1>3, <2>1
<1>8. ASSUME NEW e \in n + 1 .. Len(new)
      PROVE  new[e].node.id = -e /\ \A f \in 1 .. e - 1 : new[f].key # new[e].key
  <2>1. CASE e \in DOMAIN map
    <3>1. e \in n + 1 .. Len(map) /\ \A f \in 1 .. e - 1 : f \in DOMAIN map
      BY <1>3, <2>1
    <3>2. new[e].node.id = map[e].node.id /\ map[e].node.id = -e
      BY <1>1, <1>3, <2>1, <3>1
    <3>3. \A f \in 1 .. e - 1 : new[f].key = map[f].key /\ map[f].key # map[e].key
      BY <1>1, <1>3, <3>1
    <3>4. new[e].key = map[e].key
      BY <1>3, <2>1
    <3> QED  BY <3>2, <3>3, <3>4
  <2>2. CASE e = Len(new) /\ ~Occurs(map, K)
    <3>1. \A f \in 1 .. e - 1 : f \in DOMAIN map /\ map[f].key # K
      BY <1>3, <1>5, <2>2 DEF Occurs
    <3> QED  BY <1>3, <1>5, <2>2, <3>1
  <2>3. e \in DOMAIN new
    BY <1>1, <1>3
  <2> QED  BY <1>6, <2>1, <2>2, <2>3
<1>9. ASSUME NEW e \in DOMAIN new
      PROVE  \E p \in Places(current) : Origin(new, TRUE, e, p)
  <2>1. place[1] # 0
    BY DEF place
  <2>2. CASE e \in DOMAIN map /\ Occurs(map, K) /\ map[e].node.id = old.id
    <3>1. new[e].node.data = node.data /\ NodeOf(new, K).id = new[e].node.id
      BY <1>3, <1>4, <2>2 DEF Copy, old
    <3> QED  BY <1>2, <1>4, <2>1, <3>1 DEF Origin
  <2>3. CASE e \in DOMAIN map /\ ~(Occurs(map, K) /\ map[e].node.id = old.id)
    <3>1. new[e].node = map[e].node
      BY <1>3, <2>3
    <3>2. PICK p \in Places(current) : Origin(map, TRUE, e, p)
      BY <1>1, <2>3
    <3>3. Origin(new, TRUE, e, p)
      BY <1>4, <3>1, <3>2 DEF Origin
    <3> QED  BY <3>3
  <2>4. CASE e = Len(new) /\ ~Occurs(map, K)
    <3>1. NodeOf(new, K).id = new[e].node.id
      BY <1>3, <1>4, <1>5, <2>4
    <3> QED  BY <1>2, <1>4, <1>5, <2>1, <2>4, <3>1 DEF Origin
  <2> QED  BY <1>6, <2>2, <2>3, <2>4
<1>10. ASSUME NEW e \in DOMAIN new, NEW f \in DOMAIN new, new[e].node.id = new[f].node.id
       PROVE  new[e].node.data = new[f].node.data
  <2>1. ASSUME NEW g \in DOMAIN map, ~Occurs(map, K)
        PROVE  new[g].node.id # new[Len(new)].node.id
    <3>1. g \in 1 .. n \/ g \in n + 1 .. Len(map)
      BY <1>1, <1>3
    <3>2. map[g].node.id \in Nat \ {0} \/ map[g].node.id = -g
      BY <1>1, <3>1
    <3>3. map[g].node.id # -Len(new)
      BY <1>3, <1>5, <2>1, <3>2
    <3> QED  BY <1>3, <1>5, <2>1, <3>3
  <2>2. CASE e \in DOMAIN map /\ f \in DOMAIN map
    BY <1>1, <1>3, <1>10, <2>2
  <2>3. CASE e = Len(new) /\ f = Len(new)
    BY <2>3
  <2> QED  BY <1>6, <1>10, <2>1, <2>2, <2>3
<1>11. n <= Len(new)
  BY <1>1, <1>3
<1> QED  BY <1>3, <1>7, <1>8, <1>9, <1>10, <1>11 DEF EntriesInv, new, K, node, n

(* At first nothing was decoded.                                           *)
LEMMA InitRecursion == Init => RecursionInv
<1> SUFFICES ASSUME Init PROVE RecursionInv
  OBVIOUS
<1> USE DEF Init, FactoryInit
<1>1. Len(document) \in Nat /\ DOMAIN document = 1 .. Len(document)
  BY DocumentsAssumption, LenProperties
<1>2. Completed = {}
  BY <1>1 DEF Completed
<1>3. MatrixIsProduct
  BY <1>2 DEF MatrixIsProduct
<1>4. \A j \in DOMAIN document : configs[j] = <<>> /\ configs[j] \in Seq(Range(configs[j]))
  OBVIOUS
<1>5. current \in 1 .. Len(document) + 1
  BY <1>1
<1> QED  BY <1>3, <1>4, <1>5 DEF RecursionInv

(* The invariant speaks of these variables only.                           *)
LEMMA RecursionStutters ==
  ASSUME RecursionInv,
         UNCHANGED <<document, current, mode, indices, current_config, configs>>
  PROVE  RecursionInv'
<1>1. mode # "none" => EntriesInv(current_config, TRUE)'
  BY EntriesCarried DEF RecursionInv
<1>2. mode # "none" => IndicesInv' /\ ValuesInv' /\ EnumerationInv' /\ Arg'.kind = "map"
  BY DEF RecursionInv, IndicesInv, ValuesInv, EnumerationInv, DecodedChoices, Arg
<1>3. MatrixIsProduct'
  BY DEF RecursionInv, MatrixIsProduct, Completed
<1> QED  BY <1>1, <1>2, <1>3 DEF RecursionInv

(* The recursion starts without any choice before it.                      *)
LEMMA StartRecursion ==
  ASSUME RecursionInv, StartMatrix
  PROVE  RecursionInv'
<1> USE DEF RecursionInv, StartMatrix
<1>1. /\ UNCHANGED <<document, current, configs>> /\ Arg' = Arg
      /\ mode' = "enter" /\ indices' = <<>> /\ current_config' = Clone(Arg.args)
      /\ Len(document) \in Nat /\ current \in DOMAIN document
  BY DocumentsAssumption, LenProperties DEF Remaining, Arg
<1>2. configs[current] = <<>>
  BY <1>1
<1>3. DecodedChoices' = {}
  BY <1>1, AllDecoded DEF DecodedChoices
<1>4. EnumerationInv'
  BY <1>1, <1>2, <1>3, FS_EmptySet DEF EnumerationInv
<1>5. IndicesInv'
  BY <1>1, MatrixShape DEF IndicesInv
<1>6. ValuesInv'
  <2>1. Config(Clone(Arg.args)) = Config(Arg.args)
    BY <1>1, ArgsShape, CloneConfig
  <2> QED  BY <1>1, <2>1 DEF ValuesInv
<1>7. MatrixIsProduct'
  BY <1>1 DEF MatrixIsProduct, Completed
<1>8. EntriesInv(current_config, TRUE)'
  BY <1>1, ClonedEntries, EntriesCarried
<1> QED  BY <1>1, <1>4, <1>5, <1>6, <1>7, <1>8

(* The option of a level gets the value chosen there; options whose last   *)
(* level is not this one keep theirs.                                      *)
LEMMA ChooseValues ==
  ASSUME document \in Documents, current \in DOMAIN document, Arg.kind = "map",
         EntriesInv(current_config, TRUE), ValuesInv, UNCHANGED <<document, current>>,
         NEW level \in 1 .. Len(Used(Arg)), NEW i, Choose(level, i),
         DOMAIN indices' = 1 .. level, indices'[level] = i,
         \A l \in 1 .. level - 1 : l \in DOMAIN indices /\ indices'[l] = indices[l]
  PROVE  ValuesInv'
<1> DEFINE M == Used(Arg)
           K == M[level].key
           node == M[level].values[i]
           new == Assign(current_config, K, node)
           Levels(key) == {l \in DOMAIN M : M[l].key = key}
<1>1. current_config' = new /\ Arg' = Arg
  BY MatrixShape DEF Choose, Arg
<1>2. current_config \in Seq(Range(current_config))
  BY DEF EntriesInv
<1>4. /\ DOMAIN M = 1 .. Len(M) /\ level \in DOMAIN M /\ Len(M) \in Nat
  BY MatrixShape
<1>5. KnownMatrix(Arg) /\ Unaliased(current_config) =>
        \A key \in Keys :
          /\ Levels(key) = {} => Config(current_config)[key] = Config(Arg.args)[key]
          /\ \A l \in Levels(key) \cap DOMAIN indices : (\A k \in Levels(key) : k <= l) =>
               Config(current_config)[key] = M[l].values[indices[l]].value
  BY DEF ValuesInv
<1> SUFFICES ASSUME KnownMatrix(Arg), Unaliased(new), NEW key \in Keys
             PROVE  /\ Levels(key) = {} => Config(new)[key] = Config(Arg.args)[key]
                    /\ \A l \in Levels(key) \cap DOMAIN indices' :
                         (\A k \in Levels(key) : k <= l) =>
                           Config(new)[key] = M[l].values[indices'[l]].value
  BY <1>1 DEF ValuesInv
<1>6. K \in Keys
  BY <1>4 DEF KnownMatrix
<1>7. Unaliased(current_config)
      /\ Config(new)[key] = IF key = K THEN node.value ELSE Config(current_config)[key]
  BY <1>2, <1>6, AssignConfig
<1>8. key = K => level \in Levels(key)
  BY <1>4
<1> HIDE DEF M, K, node, new
<1>9. ASSUME Levels(key) = {}
      PROVE  Config(new)[key] = Config(Arg.args)[key]
  <2>1. key # K
    BY <1>8, <1>9
  <2> QED  BY <1>5, <1>7, <1>9, <2>1
<1>10. ASSUME NEW l \in Levels(key) \cap DOMAIN indices', \A k \in Levels(key) : k <= l
       PROVE  Config(new)[key] = M[l].values[indices'[l]].value
  <2>1. l \in 1 .. level /\ M[l].key = key
    OBVIOUS
  <2>2. CASE l = level
    BY <1>7, <2>1, <2>2 DEF node, K
  <2>3. CASE l # level
    <3>1. l \in 1 .. level - 1
      BY <2>1, <2>3
    <3>2. key # K
      <4>1. ~(level <= l)
        BY <3>1
      <4> QED  BY <1>8, <1>10, <4>1
    <3>3. l \in Levels(key) \cap DOMAIN indices /\ indices'[l] = indices[l]
      BY <3>1
    <3>4. Config(current_config)[key] = M[l].values[indices[l]].value
      BY <1>5, <1>7, <1>10, <3>3
    <3> QED  BY <1>7, <3>2, <3>3, <3>4
  <2> QED  BY <2>2, <2>3
<1> QED  BY <1>9, <1>10

(* Choosing a value keeps the invariant of the entries.                    *)
LEMMA ChooseEntries ==
  ASSUME document \in Documents, current \in DOMAIN document, Arg.kind = "map",
         EntriesInv(current_config, TRUE), UNCHANGED <<document, current>>,
         NEW level \in 1 .. Len(Used(Arg)), NEW i \in DOMAIN Used(Arg)[level].values,
         Choose(level, i)
  PROVE  EntriesInv(current_config, TRUE)'
<1>1. current_config' = Assign(current_config, Used(Arg)[level].key, Used(Arg)[level].values[i])
  BY MatrixShape DEF Choose
<1> QED  BY <1>1, AssignedEntries, EntriesCarried

(* The enumeration does not change unless a configuration is added.        *)
LEMMA SameEnumeration ==
  ASSUME EnumerationInv, DecodedChoices' = DecodedChoices,
         UNCHANGED <<document, current, configs>>
  PROVE  EnumerationInv' /\ (MatrixIsProduct => MatrixIsProduct')
<1>1. EnumerationInv'
  BY DEF EnumerationInv, Arg
<1>2. MatrixIsProduct => MatrixIsProduct'
  BY DEF MatrixIsProduct, Completed
<1> QED  BY <1>1, <1>2

(* The first value of a level: no choice comes between, ...                *)
LEMMA DescendStep ==
  ASSUME RecursionInv, Descend
  PROVE  RecursionInv'
<1> USE DEF RecursionInv, Descend
<1> DEFINE M == Used(Arg)
           n == Len(M)
           k == Len(indices)
<1>1. /\ UNCHANGED <<document, current, configs>> /\ Arg' = Arg
      /\ mode = "enter" /\ current \in DOMAIN document /\ Arg.kind = "map"
  BY DEF Arg
<1>2. /\ n \in Nat /\ DOMAIN M = 1 .. n
      /\ \A l \in 1 .. n : /\ M[l] = Arg.matrix[l] /\ M[l].values \in Seq(Range(M[l].values))
                           /\ DOMAIN M[l].values = 1 .. Len(M[l].values)
                           /\ Len(M[l].values) \in Nat
  BY <1>1, MatrixShape
<1>3. /\ k \in Nat /\ DOMAIN indices = 1 .. k /\ k + 1 \in 1 .. n /\ Level = k + 1
      /\ indices \in Seq(Nat) /\ k < n
  BY <1>1, LeafIsDeepest, MatrixShape DEF IndicesInv, Level
<1>4. CASE M[k + 1].values = <<>>
  <2>1. mode' = "return" /\ UNCHANGED <<indices, current_config>>
    BY <1>2, <1>3, <1>4
  <2>2. MatrixChoices(M) = {}
    <3> SUFFICES ASSUME NEW c \in MatrixChoices(M) PROVE FALSE
      OBVIOUS
    <3>1. c[k + 1] \in DOMAIN M[k + 1].values
      BY <1>2, <1>3 DEF MatrixChoices
    <3> QED  BY <1>4, <3>1
  <2>3. DecodedChoices = {} /\ DecodedChoices' = {}
    BY <1>1, <2>2 DEF DecodedChoices, Decoded
  <2>4. EnumerationInv' /\ MatrixIsProduct'
    BY <1>1, <2>3, SameEnumeration
  <2>5. IndicesInv' /\ ValuesInv'
    BY <1>1, <2>1 DEF IndicesInv, ValuesInv
  <2>6. EntriesInv(current_config, TRUE)'
    BY <1>1, <2>1, EntriesCarried
  <2> QED  BY <1>1, <2>1, <2>4, <2>5, <2>6
<1>5. CASE M[k + 1].values # <<>>
  <2>1. Choose(k + 1, 1) /\ indices' = Append(indices, 1) /\ mode' = "enter"
    BY <1>1, <1>2, <1>3, <1>5
  <2>2. DecodedChoices' = DecodedChoices
    BY <1>1, <1>2, <1>3, <2>1, DescendSame DEF DecodedChoices
  <2>3. EnumerationInv' /\ MatrixIsProduct'
    BY <1>1, <2>2, SameEnumeration
  <2>4. /\ DOMAIN indices' = 1 .. k + 1 /\ indices'[k + 1] = 1
        /\ Len(indices') = k + 1 /\ indices' \in Seq(Nat)
        /\ \A l \in 1 .. k : l \in DOMAIN indices /\ indices'[l] = indices[l]
    BY <1>3, <2>1
  <2>5. ValuesInv'
    <3>1. \A l \in 1 .. (k + 1) - 1 : l \in DOMAIN indices /\ indices'[l] = indices[l]
      BY <1>3, <2>4
    <3> QED  BY <1>1, <1>3, <2>1, <2>4, <3>1, ChooseValues
  <2>6. IndicesInv'
    <3>1. 1 \in DOMAIN M[k + 1].values
      BY <1>2, <1>3, <1>5
    <3>2. \A l \in 1 .. k + 1 : indices'[l] \in DOMAIN M[l].values
      <4>1. \A l \in 1 .. k + 1 : l = k + 1 \/ l \in 1 .. k
        BY <1>3
      <4>2. \A l \in 1 .. k : indices[l] \in DOMAIN M[l].values
        BY <1>1, <1>3 DEF IndicesInv
      <4> HIDE DEF M, k
      <4> QED  BY <2>4, <3>1, <4>1, <4>2
    <3> QED  BY <1>1, <1>3, <2>4, <3>2 DEF IndicesInv
  <2>7. EntriesInv(current_config, TRUE)'
    <3>1. 1 \in DOMAIN M[k + 1].values
      BY <1>2, <1>3, <1>5
    <3> QED  BY <1>1, <1>3, <2>1, <3>1, ChooseEntries
  <2> QED  BY <1>1, <2>1, <2>3, <2>5, <2>6, <2>7
<1> QED  BY <1>4, <1>5

(* The indices of a recursion that is not at its first level.              *)
LEMMA ChosenIndices ==
  ASSUME IndicesInv, indices # <<>>,
         document \in Documents, current \in DOMAIN document, Arg.kind = "map"
  PROVE  /\ Len(indices) \in 1 .. Len(Used(Arg)) /\ DOMAIN indices = 1 .. Len(indices)
         /\ indices \in Seq(Nat)
         /\ \A l \in 1 .. Len(indices) : indices[l] \in DOMAIN Used(Arg)[l].values
<1>1. indices \in Seq(Nat) /\ Len(indices) <= Len(Used(Arg)) /\ Len(Used(Arg)) \in Nat
      /\ \A l \in DOMAIN indices : indices[l] \in DOMAIN Used(Arg)[l].values
  BY MatrixShape DEF IndicesInv
<1>2. Len(indices) \in Nat \ {0} /\ DOMAIN indices = 1 .. Len(indices)
  BY <1>1
<1>3. Len(indices) \in 1 .. Len(Used(Arg))
  BY <1>1, <1>2
<1> QED  BY <1>1, <1>2, <1>3

(* The indices with the last one incremented.                              *)
LEMMA IncrementedLast ==
  ASSUME NEW chosen \in Seq(Nat), chosen # <<>>
  PROVE  LET k == Len(chosen)
             new == [chosen EXCEPT ![k] = @ + 1]
         IN /\ new \in Seq(Nat) /\ Len(new) = k /\ DOMAIN new = 1 .. k
            /\ new[k] = chosen[k] + 1
            /\ \A l \in 1 .. k - 1 : l \in DOMAIN chosen /\ new[l] = chosen[l]
<1> DEFINE k == Len(chosen)
           new == [chosen EXCEPT ![k] = @ + 1]
<1>1. k \in 1 .. k /\ DOMAIN chosen = 1 .. k /\ chosen \in [1 .. k -> Nat] /\ k \in Nat
  OBVIOUS
<1> HIDE DEF k
<1>2. new \in [1 .. k -> Nat] /\ new[k] = chosen[k] + 1
      /\ \A l \in 1 .. k - 1 : l \in DOMAIN chosen /\ new[l] = chosen[l]
  BY <1>1
<1> HIDE DEF new
<1>3. new \in Seq(Nat) /\ Len(new) = k /\ DOMAIN new = 1 .. k
  BY <1>1, <1>2
<1> QED  BY <1>2, <1>3 DEF k, new

(* ... the next value, ...                                                 *)
LEMMA NextValueStep ==
  ASSUME RecursionInv, NextValue
  PROVE  RecursionInv'
<1> USE DEF RecursionInv, NextValue
<1> DEFINE M == Used(Arg)
           n == Len(M)
           k == Len(indices)
           i == indices[k] + 1
<1>1. /\ UNCHANGED <<document, current, configs>> /\ Arg' = Arg
      /\ mode = "return" /\ mode' = "enter" /\ current \in DOMAIN document /\ Arg.kind = "map"
      /\ indices' = [indices EXCEPT ![k] = @ + 1]
  BY DEF Arg
<1>2. /\ n \in Nat /\ DOMAIN M = 1 .. n
      /\ \A l \in 1 .. n : /\ M[l] = Arg.matrix[l] /\ M[l].values \in Seq(Range(M[l].values))
                           /\ DOMAIN M[l].values = 1 .. Len(M[l].values)
                           /\ Len(M[l].values) \in Nat
  BY <1>1, MatrixShape
<1>3. /\ k \in 1 .. n /\ DOMAIN indices = 1 .. k /\ indices \in Seq(Nat)
      /\ \A l \in 1 .. k : indices[l] \in DOMAIN M[l].values
  BY <1>1, ChosenIndices
<1>4. Last(indices) = indices[k]
  BY DEF Last
<1>5. Choose(k, i) /\ i \in DOMAIN M[k].values
  BY <1>1, <1>2, <1>3, <1>4
<1>6. /\ DOMAIN indices' = 1 .. k /\ indices'[k] = i /\ Len(indices') = k
      /\ \A l \in 1 .. k - 1 : l \in DOMAIN indices /\ indices'[l] = indices[l]
      /\ indices' \in Seq(Nat)
  <2> DEFINE new == [indices EXCEPT ![k] = @ + 1]
  <2>2. /\ new \in Seq(Nat) /\ Len(new) = k /\ DOMAIN new = 1 .. k /\ new[k] = i
        /\ \A l \in 1 .. k - 1 : l \in DOMAIN indices /\ new[l] = indices[l]
    BY <1>3, IncrementedLast
  <2> HIDE DEF new
  <2>3. indices' = new
    BY <1>1 DEF new
  <2> QED  BY <2>2, <2>3
<1>7. EnumerationInv' /\ MatrixIsProduct'
  <2>1. DecodedChoices' = DecodedChoices
    BY <1>1, <1>2, <1>3, NextValueSame DEF DecodedChoices
  <2> QED  BY <1>1, <2>1, SameEnumeration
<1>8. ValuesInv'
  BY <1>1, <1>3, <1>5, <1>6, ChooseValues
<1>9. IndicesInv'
  <2>1. \A l \in 1 .. k : l = k \/ l \in 1 .. k - 1
    <3> HIDE DEF M, n, k
    <3> QED  BY <1>2, <1>3
  <2>2. \A l \in 1 .. k : indices'[l] \in DOMAIN M[l].values
    <3> HIDE DEF M, k, i
    <3> QED  BY <1>3, <1>5, <1>6, <2>1
  <2> QED  BY <1>1, <1>2, <1>3, <1>6, <2>2 DEF IndicesInv
<1>10. EntriesInv(current_config, TRUE)'
  BY <1>1, <1>3, <1>5, ChooseEntries
<1> QED  BY <1>1, <1>7, <1>8, <1>9, <1>10

(* When the recursion ends, all choices were decoded, each where its rank  *)
(* says.                                                                   *)
LEMMA AllEnumerated ==
  ASSUME RecursionInv, mode = "return", indices = <<>>, KnownMatrix(Arg)
  PROVE  LET combinations == Combinations(Used(Arg))
         IN configs[current] = [i \in DOMAIN combinations |-> Override(Arg, combinations[i])]
<1> USE DEF RecursionInv
<1> DEFINE M == Used(Arg)
           n == Len(M)
           C == MatrixChoices(M)
           built == configs[current]
           rank(c) == Cardinality(Earlier(M, c))
<1>1. current \in DOMAIN document /\ Arg.kind = "map"
  OBVIOUS
<1>2. /\ n \in Nat /\ DOMAIN M = 1 .. n
      /\ \A l \in 1 .. n : M[l].values \in Seq(Range(M[l].values))
  BY <1>1, MatrixShape
<1>3. DecodedChoices = C
  BY AllDecoded DEF DecodedChoices
<1>4. /\ IsFiniteSet(C) /\ Len(built) = Cardinality(C) /\ Cardinality(C) \in Nat
      /\ \A i \in DOMAIN built : \E c \in C : rank(c) = i - 1 /\ built[i] = Override(Arg, c)
  BY <1>3, FS_CardinalityType DEF EnumerationInv
<1>5. built \in Seq(Range(built))
  BY <1>1
<1> HIDE DEF M, n, C, built
<1>6. DOMAIN built = 1 .. Cardinality(C) /\ built = [i \in 1 .. Cardinality(C) |-> built[i]]
  <2>1. DOMAIN built = 1 .. Len(built) /\ built = [i \in 1 .. Len(built) |-> built[i]]
    BY <1>5, LenProperties
  <2> QED  BY <1>4, <2>1
<1>7. DOMAIN Combinations(M) = 1 .. Cardinality(C)
  BY DEF Combinations, C
<1>8. ASSUME NEW i \in 1 .. Cardinality(C)
      PROVE  built[i] = Override(Arg, Combinations(M)[i])
  <2>1. PICK c \in C : rank(c) = i - 1 /\ built[i] = Override(Arg, c)
    BY <1>4, <1>6
  <2>2. \A d \in C : rank(d) = i - 1 => d = c
    BY <1>2, <1>4, <2>1, RankInjective DEF C
  <2>3. (CHOOSE d \in C : rank(d) = i - 1) = c
    BY <2>1, <2>2
  <2>4. Combinations(M)[i] = c
    BY <2>3 DEF Combinations, C
  <2> QED  BY <2>1, <2>4
<1> QED  BY <1>6, <1>7, <1>8 DEF M, built

(* ... the return after the last one, where all choices of the level are   *)
(* decoded, ...                                                            *)
LEMMA ReturnStep ==
  ASSUME RecursionInv, Return
  PROVE  RecursionInv'
<1> USE DEF RecursionInv, Return
<1> DEFINE M == Used(Arg)
           n == Len(M)
           k == Len(indices)
<1>1. /\ UNCHANGED <<document, current_config, configs>>
      /\ mode = "return" /\ current \in DOMAIN document /\ Arg.kind = "map"
      /\ Len(document) \in Nat /\ DOMAIN document = 1 .. Len(document)
  BY DocumentsAssumption, LenProperties
<1>2. CASE indices = <<>>
  <2>1. current' = current + 1 /\ mode' = "none"
    BY <1>2 DEF NextArguments
  <2>2. Completed' = Completed \cup {current}
    BY <1>1, <2>1 DEF Completed
  <2>3. MatrixIsProduct'
    BY <1>1, <1>2, <2>2, AllEnumerated DEF MatrixIsProduct, Arg
  <2> QED  BY <1>1, <2>1, <2>3
<1>3. CASE indices # <<>>
  <2>1. /\ UNCHANGED <<current, mode>> /\ Arg' = Arg
        /\ indices' = SubSeq(indices, 1, k - 1)
        /\ Last(indices) = Len(Arg.matrix[k].values)
    BY <1>1, <1>3 DEF Arg
  <2>2. /\ n \in Nat /\ DOMAIN M = 1 .. n
        /\ \A l \in 1 .. n : M[l] = Arg.matrix[l] /\ M[l].values \in Seq(Range(M[l].values))
    BY <1>1, MatrixShape
  <2>3. /\ k \in 1 .. n /\ DOMAIN indices = 1 .. k /\ indices \in Seq(Nat)
        /\ \A l \in 1 .. k : indices[l] \in DOMAIN M[l].values
    BY <1>1, <1>3, ChosenIndices
  <2>4. indices[k] = Len(M[k].values)
    BY <2>1, <2>2, <2>3 DEF Last
  <2>5. EnumerationInv' /\ MatrixIsProduct'
    <3>1. DecodedChoices' = DecodedChoices
      BY <1>1, <2>1, <2>2, <2>3, <2>4, ReturnSame DEF DecodedChoices
    <3> QED  BY <1>1, <2>1, <3>1, SameEnumeration
  <2>6. /\ DOMAIN indices' = 1 .. k - 1 /\ Len(indices') = k - 1 /\ indices' \in Seq(Nat)
        /\ \A l \in 1 .. k - 1 : l \in DOMAIN indices /\ indices'[l] = indices[l]
    BY <2>1, <2>3
  <2>7. IndicesInv'
    <3>1. k - 1 <= n /\ \A l \in 1 .. k - 1 : indices'[l] \in DOMAIN M[l].values
      <4> HIDE DEF M, n, k
      <4>1. \A l \in 1 .. k - 1 : l \in 1 .. k
        BY <2>2, <2>3
      <4>2. k - 1 <= n
        BY <2>2, <2>3
      <4>3. \A l \in 1 .. k - 1 : indices'[l] \in DOMAIN M[l].values
        BY <2>3, <2>6, <4>1, Zenon
      <4> QED  BY <4>2, <4>3
    <3> QED  BY <2>1, <2>6, <3>1 DEF IndicesInv
  <2>8. ValuesInv'
    <3>1. \A l \in DOMAIN indices' : l \in DOMAIN indices /\ indices'[l] = indices[l]
      BY <2>6
    <3>2. ValuesInv
      BY <1>1
    <3> QED  BY <1>1, <2>1, <3>1, <3>2 DEF ValuesInv
  <2>9. EntriesInv(current_config, TRUE)'
    BY <1>1, <2>1, EntriesCarried
  <2> QED  BY <1>1, <2>1, <2>5, <2>7, <2>8, <2>9
<1> QED  BY <1>2, <1>3

(* A set of levels has a last one.                                         *)
LEMMA GreatestUpTo ==
  ASSUME NEW n \in Nat, NEW S \in SUBSET (1 .. n), S # {}
  PROVE  \E l \in S : \A k \in S : k <= l
<1> DEFINE T == {d \in Nat : n - d \in S}
<1>1. \A l \in S : n - l \in T
  OBVIOUS
<1>2. PICK d \in T : \A e \in T : d <= e
  BY <1>1, LeastNat
<1>3. n - d \in S /\ \A k \in S : k <= n - d
  BY <1>1, <1>2
<1> QED  BY <1>3

(* ... and the decoding of one choice, which is the next in the order.     *)
LEMMA LeafStep ==
  ASSUME RecursionInv, Leaf
  PROVE  RecursionInv'
<1> USE DEF RecursionInv, Leaf
<1> DEFINE M == Used(Arg)
           n == Len(M)
           config == Config(current_config)
           built == configs[current]
           rank(c) == Cardinality(Earlier(M, c))
<1>1. /\ UNCHANGED <<document, current, indices, current_config>> /\ Arg' = Arg
      /\ mode = "enter" /\ mode' = "return" /\ current \in DOMAIN document /\ Arg.kind = "map"
      /\ configs' = [configs EXCEPT ![current] = Append(built, config)]
      /\ Unaliased(current_config)
  <2>1. Unaliased(current_config)
    BY DecodedUnaliased DEF EntriesInv
  <2> QED  BY <2>1 DEF Arg
<1>2. /\ n \in Nat /\ DOMAIN M = 1 .. n
      /\ \A l \in 1 .. n : M[l].values \in Seq(Range(M[l].values))
  BY <1>1, MatrixShape
<1>3. /\ Len(indices) = n /\ DOMAIN indices = 1 .. n /\ indices \in Seq(Nat)
      /\ \A l \in 1 .. n : indices[l] \in DOMAIN M[l].values
  BY <1>1, LeafIsDeepest DEF IndicesInv
<1>4. /\ Earlier(M, indices) = DecodedChoices /\ indices \notin DecodedChoices
      /\ DecodedChoices' = DecodedChoices \cup {indices}
  BY <1>1, <1>2, <1>3, LeafAdds DEF DecodedChoices
<1>5. /\ IsFiniteSet(DecodedChoices) /\ Len(built) = Cardinality(DecodedChoices)
      /\ Cardinality(DecodedChoices) \in Nat
      /\ KnownMatrix(Arg) =>
           \A i \in DOMAIN built : \E c \in DecodedChoices :
             rank(c) = i - 1 /\ built[i] = Override(Arg, c)
  BY <1>1, FS_CardinalityType DEF EnumerationInv
<1>6. KnownMatrix(Arg) => config = Override(Arg, indices)
  <2> SUFFICES ASSUME KnownMatrix(Arg), NEW key \in Keys
               PROVE  config[key] = Override(Arg, indices)[key]
    BY DEF Config, Override
  <2> DEFINE levels == {l \in DOMAIN M : M[l].key = key}
             level == CHOOSE l \in levels : \A k \in levels : k <= l
  <2>1. Override(Arg, indices)[key] = IF levels = {} THEN Config(Arg.args)[key]
                                      ELSE M[level].values[indices[level]].value
    BY DEF Override
  <2>2. /\ levels = {} => config[key] = Config(Arg.args)[key]
        /\ \A l \in levels \cap DOMAIN indices : (\A k \in levels : k <= l) =>
             config[key] = M[l].values[indices[l]].value
    BY <1>1 DEF ValuesInv
  <2>3. ASSUME levels # {}
        PROVE  level \in levels /\ \A k \in levels : k <= level
    <3>1. levels \in SUBSET (1 .. n)
      BY <1>2
    <3> HIDE DEF levels
    <3>2. \E l \in levels : \A k \in levels : k <= l
      BY <1>2, <2>3, <3>1, GreatestUpTo
    <3> QED  BY <3>2
  <2>4. levels \subseteq DOMAIN indices
    BY <1>2, <1>3
  <2> HIDE DEF levels, level, config, M
  <2> QED  BY <2>1, <2>2, <2>3, <2>4
<1>7. built \in Seq(Range(built)) /\ DOMAIN configs = DOMAIN document
  BY <1>1
<1>8. /\ configs'[current] = Append(built, config)
      /\ \A j \in DOMAIN document \ {current} : configs'[j] = configs[j]
      /\ DOMAIN configs' = DOMAIN document
  BY <1>1, <1>7
<1>9. /\ Append(built, config) \in Seq(Range(Append(built, config)))
      /\ Len(Append(built, config)) = Len(built) + 1 /\ Len(built) \in Nat
      /\ DOMAIN Append(built, config) = 1 .. Len(built) + 1 /\ DOMAIN built = 1 .. Len(built)
      /\ \A i \in 1 .. Len(built) : Append(built, config)[i] = built[i]
      /\ Append(built, config)[Len(built) + 1] = config
  BY <1>7, AppendedRange, AppendProperties, LenProperties
<1>10. EnumerationInv'
  <2> DEFINE now == Append(built, config)
             D == DecodedChoices
  <2>1. IsFiniteSet(D \cup {indices}) /\ Cardinality(D \cup {indices}) = Cardinality(D) + 1
    BY <1>4, <1>5, FS_AddElement
  <2>2. ASSUME KnownMatrix(Arg), NEW i \in DOMAIN now
        PROVE  \E c \in D \cup {indices} : rank(c) = i - 1 /\ now[i] = Override(Arg, c)
    <3>1. CASE i = Len(built) + 1
      <4>1. rank(indices) = i - 1 /\ now[i] = Override(Arg, indices)
        BY <1>4, <1>5, <1>6, <1>9, <2>2, <3>1
      <4> QED  BY <4>1
    <3>2. CASE i # Len(built) + 1
      <4>1. i \in DOMAIN built /\ now[i] = built[i]
        BY <1>9, <3>2
      <4> QED  BY <1>5, <2>2, <4>1
    <3> QED  BY <3>1, <3>2
  <2>3. Len(now) = Cardinality(D \cup {indices})
    BY <1>5, <1>9, <2>1
  <2> QED  BY <1>1, <1>4, <1>8, <2>1, <2>2, <2>3 DEF EnumerationInv
<1>11. MatrixIsProduct'
  <2>1. \A j \in Completed : j # current /\ j \in DOMAIN document
    BY DocumentsAssumption, LenProperties DEF Completed
  <2> QED  BY <1>1, <1>8, <2>1 DEF MatrixIsProduct, Completed
<1>12. IndicesInv' /\ ValuesInv'
  BY <1>1 DEF IndicesInv, ValuesInv
<1>13. EntriesInv(current_config, TRUE)'
  BY <1>1, EntriesCarried
<1> QED  BY <1>1, <1>8, <1>9, <1>10, <1>11, <1>12, <1>13

(* Without a matrix there is one combination, which chooses nothing.       *)
LEMMA DecodeArgsStep ==
  ASSUME RecursionInv, DecodeArgs
  PROVE  RecursionInv'
<1> USE DEF RecursionInv, DecodeArgs
<1> DEFINE new == <<Config(Arg.args)>>
<1>1. /\ UNCHANGED <<document, mode>> /\ current' = current + 1
      /\ mode = "none" /\ Arg.kind = "none"
      /\ configs' = [configs EXCEPT ![current] = new]
      /\ Len(document) \in Nat /\ DOMAIN document = 1 .. Len(document)
      /\ current \in DOMAIN document
  <2>1. Len(document) \in Nat /\ DOMAIN document = 1 .. Len(document)
    BY DocumentsAssumption, LenProperties
  <2>2. current \in DOMAIN document
    BY <2>1 DEF Remaining
  <2> QED  BY <2>1, <2>2 DEF NextArguments
<1>2. new \in Seq(Range(new))
  <2>1. 1 \in DOMAIN new /\ new[1] = Config(Arg.args)
    OBVIOUS
  <2>2. Config(Arg.args) \in Range(new)
    BY <2>1 DEF Range
  <2> QED  BY <2>2
<1>3. new = [i \in DOMAIN Combinations(Used(Arg)) |->
               Override(Arg, Combinations(Used(Arg))[i])]
  <2>1. Used(Arg) = <<>>
    BY <1>1 DEF Used
  <2>2. MatrixChoices(<<>>) = {<<>>}
    <3>1. <<>> \in MatrixChoices(<<>>)
      BY DEF MatrixChoices
    <3>2. ASSUME NEW c \in MatrixChoices(<<>>)
          PROVE  c = <<>>
      <4>1. DOMAIN <<>> = 1 .. 0 /\ 0 \in Nat
        OBVIOUS
      <4>2. c = [l \in 1 .. 0 |-> c[l]]
        BY <4>1 DEF MatrixChoices
      <4> QED  BY <4>2
    <3> QED  BY <3>1, <3>2
  <2>3. Cardinality(MatrixChoices(<<>>)) = 1
    BY <2>2, FS_Singleton
  <2>4. DOMAIN Combinations(Used(Arg)) = 1 .. 1
    BY <2>1, <2>3 DEF Combinations
  <2>5. \A c : Override(Arg, c) = Config(Arg.args)
    BY <2>1 DEF Override, Config
  <2> QED  BY <2>4, <2>5
<1>4. Completed' = Completed \cup {current}
  BY <1>1 DEF Completed
<1>5. MatrixIsProduct'
  <2>1. \A j \in Completed : j # current /\ j \in DOMAIN document
    BY <1>1 DEF Completed
  <2> HIDE DEF new
  <2>2. configs'[current] = new /\ \A j \in Completed : configs'[j] = configs[j]
    BY <1>1, <2>1
  <2> QED  BY <1>1, <1>3, <1>4, <2>2 DEF MatrixIsProduct, Arg
<1> HIDE DEF new
<1>6. /\ \A j \in DOMAIN document : configs'[j] = IF j = current THEN new ELSE configs[j]
      /\ DOMAIN configs' = DOMAIN document
  BY <1>1
<1>7. /\ current' \in 1 .. Len(document') + 1
      /\ \A j \in DOMAIN document' : configs'[j] \in Seq(Range(configs'[j]))
      /\ \A j \in DOMAIN document' : j >= current' /\ (j = current' => mode' = "none") =>
           configs'[j] = <<>>
  BY <1>1, <1>2, <1>6
<1> QED  BY <1>1, <1>5, <1>6, <1>7

(* Every step preserves the invariant of the recursion.                    *)
LEMMA NextRecursion ==
  ASSUME RecursionInv, [Next]_vars
  PROVE  RecursionInv'
<1>1. CASE UNCHANGED <<document, current, mode, indices, current_config, configs>>
  BY <1>1, RecursionStutters
<1>2. CASE FactoryNext
  <2>1. CASE Malformed \/ DecodeThrows \/ ValidateFails \/ NotASequence
    BY <1>1, <2>1 DEF Malformed, DecodeThrows, ValidateFails, NotASequence, Throw
  <2> QED
    BY <1>2, <2>1, DecodeArgsStep, StartRecursion, LeafStep, DescendStep, NextValueStep,
       ReturnStep DEF FactoryNext
<1>3. CASE UNCHANGED factory_vars
  BY <1>1, <1>3 DEF factory_vars
<1> QED
  BY <1>2, <1>3 DEF Next, RejectOptions, InitNuma, InitNumaThrows, Create, CreateFails,
                    Created, RunBenchmark, SpawnThreads, BindFar, Finish, Terminating, vars

(* Whatever combinations are still to come, the configurations created so  *)
(* far are those of the first choices, in their order.                     *)
THEOREM RecursionInvariance == Spec => []RecursionInv
BY InitRecursion, NextRecursion, PTL DEF Spec

(* The configurations of a matrix are its cross product over the other     *)
(* arguments, each once and in the order of the file.                      *)
THEOREM MatrixExpanded == Spec => []MatrixIsProduct
<1>1. RecursionInv => MatrixIsProduct
  BY DEF RecursionInv
<1> QED  BY <1>1, RecursionInvariance, PTL

-----------------------------------------------------------------------------
(* What is accepted, and why something is rejected.                        *)

(* As many keys are found as there are entries only if every entry is the  *)
(* first of a known key.                                                   *)
LEMMA AllFound ==
  ASSUME NEW map, map \in Seq(Range(map))
  PROVE  Len(map) = Cardinality(Found(map)) <=>
           \A i \in DOMAIN map : map[i].key \in Keys /\ \A f \in 1 .. i - 1 : map[f].key # map[i].key
<1> DEFINE First(i) == map[i].key \in Keys /\ \A f \in 1 .. i - 1 : map[f].key # map[i].key
           firsts == {i \in DOMAIN map : First(i)}
           keyOf == [i \in firsts |-> map[i].key]
<1>1. DOMAIN map = 1 .. Len(map) /\ Len(map) \in Nat
  BY LenProperties
<1>2. IsFiniteSet(1 .. Len(map)) /\ Cardinality(1 .. Len(map)) = Len(map)
  BY <1>1, FS_Interval
<1>3. IsFiniteSet(firsts) /\ firsts \subseteq 1 .. Len(map)
  BY <1>1, <1>2, FS_Subset
<1>4. Cardinality(Found(map)) = Cardinality(firsts)
  <2>1. keyOf \in Bijection(firsts, Found(map))
    <3>1. \A i \in firsts : map[i].key \in Found(map)
      BY DEF Found, Occurs
    <3>2. \A i, j \in firsts : map[i].key = map[j].key => i = j
      <4> SUFFICES ASSUME NEW i \in firsts, NEW j \in firsts, map[i].key = map[j].key, i < j
                   PROVE  FALSE
        BY <1>3
      <4>1. i \in 1 .. j - 1
        BY <1>3
      <4> QED  BY <4>1
    <3>3. \A key \in Found(map) : \E i \in firsts : map[i].key = key
      <4> TAKE key \in Found(map)
      <4>1. PICK i \in DOMAIN map : map[i].key = key /\ \A j \in 1 .. i - 1 : map[j].key # key
        BY FirstExists DEF Found
      <4>2. i \in firsts
        BY <4>1 DEF Found
      <4> QED  BY <4>1, <4>2
    <3> HIDE DEF firsts
    <3> QED  BY <3>1, <3>2, <3>3, Zenon DEF Bijection, Injection, Surjection, IsInjective
  <2> HIDE DEF firsts, keyOf
  <2>2. ExistsBijection(firsts, Found(map))
    BY <2>1 DEF ExistsBijection
  <2> QED  BY <1>3, <2>2, FS_Bijection
<1>5. Cardinality(firsts) = Len(map) <=> firsts = 1 .. Len(map)
  <2> HIDE DEF firsts
  <2>1. firsts # 1 .. Len(map) => Cardinality(firsts) < Cardinality(1 .. Len(map))
    <3> DEFINE all == 1 .. Len(map)
    <3>1. IsFiniteSet(all) /\ firsts \in SUBSET all
      BY <1>2, <1>3
    <3> HIDE DEF all
    <3>2. /\ Cardinality(firsts) \in Nat /\ Cardinality(all) \in Nat
          /\ Cardinality(firsts) <= Cardinality(all)
          /\ Cardinality(all) = Cardinality(firsts) => all = firsts
      BY <1>3, <3>1, FS_Subset, FS_CardinalityType
    <3> QED  BY <3>2 DEF all
  <2>2. Cardinality(firsts) \in Nat
    BY <1>3, FS_CardinalityType
  <2> QED  BY <1>1, <1>2, <2>1, <2>2
<1> QED  BY <1>1, <1>4, <1>5

(* Two entries with one identity are entries of args with an alias.        *)
LEMMA SameIdentity ==
  ASSUME document \in Documents, current \in DOMAIN document,
         NEW map, NEW cloned, EntriesInv(map, cloned),
         NEW e \in DOMAIN map, NEW f \in DOMAIN map, e # f, map[e].node.id = map[f].node.id
  PROVE  /\ <<0, e>> \in Places(current) /\ KeyAt(current, <<0, e>>) = map[e].key
         /\ Aliased(current, <<0, e>>)
<1> DEFINE n == Len(Arg.args)
<1>1. /\ map \in Seq(Range(map)) /\ n <= Len(map)
      /\ \A g \in 1 .. n : map[g].key = Arg.args[g].key /\ map[g].node.id = Arg.args[g].node.id
      /\ \A g \in n + 1 .. Len(map) : map[g].node.id = -g
  BY DEF EntriesInv
<1>2. DOMAIN map = 1 .. Len(map) /\ Len(map) \in Nat
  BY <1>1, LenProperties
<1>3. /\ n \in Nat /\ DOMAIN Arg.args = 1 .. n
      /\ \A g \in 1 .. n : /\ <<0, g>> \in Places(current)
                           /\ NodeAt(current, <<0, g>>) = Arg.args[g].node
                           /\ KeyAt(current, <<0, g>>) = Arg.args[g].key
                           /\ Arg.args[g].node.id \in Nat \ {0}
  BY ArgsShape DEF Loaded
<1> HIDE DEF n
<1>4. \A g \in DOMAIN map : \/ g \in 1 .. n /\ map[g].node.id \in Nat \ {0}
                            \/ g \in n + 1 .. Len(map) /\ map[g].node.id = -g
  <2>1. \A g \in DOMAIN map : g \in 1 .. n \/ g \in n + 1 .. Len(map)
    BY <1>2, <1>3
  <2> QED  BY <1>1, <1>3, <2>1
<1>5. e \in 1 .. n /\ f \in 1 .. n
  BY <1>2, <1>3, <1>4
<1>6. /\ <<0, f>> \in Places(current) /\ <<current, <<0, f>>>> # <<current, <<0, e>>>>
      /\ NodeAt(current, <<0, f>>).id = NodeAt(current, <<0, e>>).id
  BY <1>1, <1>3, <1>5
<1> QED  BY <1>1, <1>3, <1>5, <1>6 DEF Aliased

(* A place is an entry of args or a value of a level of the matrix, and    *)
(* its node was loaded.                                                    *)
LEMMA PlaceShape ==
  ASSUME document \in Documents, NEW j \in DOMAIN document, NEW p \in Places(j)
  PROVE  /\ Loaded(NodeAt(j, p))
         /\ \/ \E i \in DOMAIN document[j].args : p = <<0, i>>
            \/ p[1] \in DOMAIN Used(document[j]) /\ p[1] # 0
<1>1. CASE p \in {0} \X DOMAIN document[j].args
  <2>1. PICK i \in DOMAIN document[j].args : p = <<0, i>>
    BY <1>1
  <2>2. NodeAt(j, p) = document[j].args[i].node
    BY <2>1 DEF NodeAt
  <2> QED  BY <2>1, <2>2, DocumentsAssumption
<1>2. CASE p \notin {0} \X DOMAIN document[j].args
  <2> DEFINE M == Used(document[j])
  <2>1. PICK l \in DOMAIN M : p \in {l} \X DOMAIN M[l].values
    BY <1>2 DEF Places
  <2>2. document[j].kind = "map"
    BY <2>1 DEF Used
  <2>3. document[j].matrix \in Seq(Range(document[j].matrix))
    BY DocumentsAssumption
  <2>4. /\ DOMAIN M = 1 .. Len(M) /\ Len(M) <= Len(document[j].matrix) /\ Len(M) \in Nat
        /\ DOMAIN document[j].matrix = 1 .. Len(document[j].matrix)
        /\ Len(document[j].matrix) \in Nat
        /\ M[l] = document[j].matrix[l]
    BY <2>1, <2>2, <2>3, UsedEntries
  <2>5. l \in DOMAIN document[j].matrix /\ l # 0
    BY <2>1, <2>4
  <2>6. p[1] = l /\ p[2] \in DOMAIN M[l].values
    BY <2>1
  <2>7. NodeAt(j, p) = document[j].matrix[l].values[p[2]]
    BY <2>4, <2>5, <2>6 DEF NodeAt
  <2>8. Loaded(document[j].matrix[l].values[p[2]])
    BY <2>4, <2>5, <2>6, DocumentsAssumption
  <2> QED  BY <2>1, <2>5, <2>6, <2>7, <2>8
<1> QED  BY <1>1, <1>2

(* An entry that was tagged, by earlier arguments or when another entry of *)
(* the same map was read, shares the data of an alias with its key.        *)
LEMMA TaggedAliased ==
  ASSUME document \in Documents, current \in DOMAIN document, VisitedInv,
         NEW map, NEW cloned \in BOOLEAN, EntriesInv(map, cloned), NEW e \in DOMAIN map,
         \/ map[e].node.data \in visited
         \/ \E f \in DOMAIN map \ {e} : map[f].node.data = map[e].node.data
  PROVE  \E q \in Places(current) : KeyAt(current, q) = map[e].key /\ Aliased(current, q)
<1>1. /\ map \in Seq(Range(map))
      /\ \A g \in 1 .. Len(Arg.args) : map[g].key = Arg.args[g].key
      /\ \A g \in DOMAIN map : \E p \in Places(current) : Origin(map, cloned, g, p)
  BY DEF EntriesInv
<1>2. PICK p \in Places(current) : Origin(map, cloned, e, p)
  BY <1>1
<1>3. \A r \in Places(current) :
        /\ NodeAt(current, r).id \in Nat \ {0}
        /\ NodeAt(current, r).data = NodeAt(current, r).id
  BY PlaceShape DEF Loaded
<1>4. \A g \in DOMAIN map : \A r \in Places(current) : Origin(map, cloned, g, r) =>
        map[g].node.data \in {NodeAt(current, r).id, -NodeAt(current, r).id}
  BY <1>3 DEF Origin
<1>5. Aliased(current, p) \/ \E f \in DOMAIN map \ {e} : Origin(map, cloned, f, p)
  <2>1. CASE map[e].node.data \in visited
    <3>1. PICK j \in Completed : \E i \in DOMAIN document[j].args :
            map[e].node.data \in {document[j].args[i].node.id, -document[j].args[i].node.id}
      BY <2>1 DEF VisitedInv
    <3>2. PICK i \in DOMAIN document[j].args :
            map[e].node.data \in {document[j].args[i].node.id, -document[j].args[i].node.id}
      BY <3>1
    <3>3. j \in DOMAIN document /\ j # current
      <4>1. DOMAIN document = 1 .. Len(document) /\ Len(document) \in Nat
        BY DocumentsAssumption, LenProperties
      <4>2. j \in DOMAIN document /\ j < current
        BY DEF Completed
      <4> QED  BY <4>1, <4>2
    <3>4. <<0, i>> \in Places(j) /\ NodeAt(j, <<0, i>>) = document[j].args[i].node
      BY DEF Places, NodeAt
    <3>5. document[j].args[i].node.id \in Nat \ {0}
      BY <3>3, DocumentsAssumption DEF Loaded
    <3>6. NodeAt(j, <<0, i>>).id = NodeAt(current, p).id
      BY <1>2, <1>3, <1>4, <3>2, <3>4, <3>5
    <3>7. <<j, <<0, i>>>> # <<current, p>>
      BY <3>3
    <3> QED  BY <3>3, <3>4, <3>6, <3>7 DEF Aliased
  <2>2. CASE \E f \in DOMAIN map \ {e} : map[f].node.data = map[e].node.data
    <3>1. PICK f \in DOMAIN map \ {e} : map[f].node.data = map[e].node.data
      BY <2>2
    <3>2. PICK q \in Places(current) : Origin(map, cloned, f, q)
      BY <1>1, <3>1
    <3>3. NodeAt(current, q).id = NodeAt(current, p).id
      BY <1>2, <1>3, <1>4, <3>1, <3>2
    <3>4. CASE q = p
      BY <3>1, <3>2, <3>4
    <3>5. CASE q # p
      <4>1. <<current, q>> # <<current, p>>
        BY <3>5
      <4> QED  BY <3>2, <3>3, <4>1 DEF Aliased
    <3> QED  BY <3>4, <3>5
  <2> QED  BY <2>1, <2>2
<1>6. CASE p[1] = 0
  <2>1. p[2] = e /\ ~\E f \in DOMAIN map \ {e} : Origin(map, cloned, f, p)
    BY <1>2, <1>6 DEF Origin
  <2>2. PICK i \in DOMAIN Arg.args : p = <<0, i>>
    BY <1>6, PlaceShape DEF Arg
  <2>3. i = e
    BY <2>1, <2>2
  <2>4. KeyAt(current, p) = map[e].key
    BY <1>1, <2>2, <2>3, ArgsShape
  <2> QED  BY <1>5, <2>1, <2>4
<1>7. CASE p[1] # 0
  <2> DEFINE K == KeyAt(current, p)
  <2>1. Occurs(map, K) /\ NodeOf(map, K).id = map[e].node.id
    BY <1>2, <1>7 DEF Origin
  <2>2. PICK g \in DOMAIN map : map[g].key = K /\ \A f \in 1 .. g - 1 : map[f].key # K
    BY <1>1, <2>1, FirstExists
  <2>3. map[g].node.id = map[e].node.id
    BY <1>1, <2>1, <2>2, NodeIsFirst
  <2>4. CASE g # e
    BY <2>3, <2>4, SameIdentity
  <2>5. CASE g = e
    <3>1. \A f \in DOMAIN map : Origin(map, cloned, f, p) => map[f].node.id = map[e].node.id
      BY <1>7, <2>1 DEF Origin
    <3>2. ASSUME NEW f \in DOMAIN map \ {e}, Origin(map, cloned, f, p)
          PROVE  \E q \in Places(current) : KeyAt(current, q) = map[e].key /\ Aliased(current, q)
      BY <3>1, <3>2, SameIdentity
    <3> QED  BY <1>5, <2>2, <2>5, <3>2
  <2> QED  BY <2>4, <2>5
<1> QED  BY <1>6, <1>7

(* What is accepted has no unknown and no repeated entries, but for        *)
(* aliases.                                                                *)
LEMMA DecodedAccounted ==
  ASSUME document \in Documents, current \in DOMAIN document, VisitedInv,
         NEW map, NEW cloned \in BOOLEAN, EntriesInv(map, cloned), Decodes(map, visited),
         \A l \in DOMAIN Used(Arg) : Occurs(map, Used(Arg)[l].key)
  PROVE  Accounted(current)
<1>1. /\ map \in Seq(Range(map)) /\ Len(Arg.args) <= Len(map)
      /\ \A g \in 1 .. Len(Arg.args) : map[g].key = Arg.args[g].key
  BY DEF EntriesInv
<1>2. DOMAIN map = 1 .. Len(map) /\ Len(map) \in Nat
  BY <1>1, LenProperties
<1>3. ASSUME NEW i \in DOMAIN map
      PROVE  \/ map[i].key \in Keys /\ \A f \in 1 .. i - 1 : map[f].key # map[i].key
             \/ \E q \in Places(current) : KeyAt(current, q) = map[i].key /\ Aliased(current, q)
  <2>1. CASE Len(map) = Cardinality(Found(map))
    BY <1>1, <2>1, AllFound
  <2>2. CASE map[i].node.data \in visited
    BY <2>2, TaggedAliased
  <2>3. CASE \E key \in Found(map) : map[i].node.data = NodeOf(map, key).data
    <3>1. PICK key \in Found(map) : map[i].node.data = NodeOf(map, key).data
      BY <2>3
    <3>2. PICK g \in DOMAIN map : map[g].key = key /\ \A f \in 1 .. g - 1 : map[f].key # key
      BY <1>1, FirstExists DEF Found
    <3>3. NodeOf(map, key) = map[g].node /\ key \in Keys
      BY <1>1, <3>2, NodeIsFirst DEF Found
    <3>4. CASE g = i
      BY <3>2, <3>3, <3>4
    <3>5. CASE g # i
      <4>1. g \in DOMAIN map \ {i} /\ map[g].node.data = map[i].node.data
        BY <3>1, <3>3, <3>5
      <4> QED  BY <4>1, TaggedAliased
    <3> QED  BY <3>4, <3>5
  <2> QED  BY <2>1, <2>2, <2>3 DEF Decodes, UnknownEntry, Tagged, Read
<1> SUFFICES ASSUME NEW p \in Places(current)
             PROVE  \/ KeyAt(current, p) \in Keys /\ FirstOfItsKey(current, p)
                    \/ \E q \in Places(current) :
                         KeyAt(current, q) = KeyAt(current, p) /\ Aliased(current, q)
  BY DEF Accounted
<1>4. CASE \E i \in DOMAIN Arg.args : p = <<0, i>>
  <2>1. PICK i \in DOMAIN Arg.args : p = <<0, i>>
    BY <1>4
  <2>2. i \in DOMAIN map /\ \A f \in 1 .. i : f \in 1 .. Len(Arg.args)
    BY <1>1, <1>2, ArgsShape
  <2>3. map[i].key = KeyAt(current, p)
    BY <1>1, <2>1, ArgsShape
  <2>4. (\A f \in 1 .. i - 1 : map[f].key # map[i].key) => FirstOfItsKey(current, p)
    <3>1. \A f \in 1 .. i - 1 : map[f].key = document[current].args[f].key
      BY <1>1, <2>2 DEF Arg
    <3>2. p[2] = i
      BY <2>1
    <3> QED  BY <2>3, <3>1, <3>2 DEF FirstOfItsKey
  <2> QED  BY <1>3, <2>2, <2>3, <2>4
<1>5. CASE p[1] \in DOMAIN Used(Arg) /\ p[1] # 0
  <2>1. KeyAt(current, p) = Used(Arg)[p[1]].key /\ FirstOfItsKey(current, p)
    BY <1>5 DEF KeyAt, FirstOfItsKey, Arg
  <2>2. PICK i \in DOMAIN map : map[i].key = KeyAt(current, p)
    BY <1>5, <2>1 DEF Occurs
  <2> QED  BY <1>3, <2>1, <2>2
<1> QED  BY <1>4, <1>5, PlaceShape DEF Arg

(* What is rejected has such an entry.                                     *)
LEMMA RejectedUnknown ==
  ASSUME document \in Documents, current \in DOMAIN document,
         NEW map, NEW cloned \in BOOLEAN, EntriesInv(map, cloned), UnknownEntry(map, visited)
  PROVE  \E p \in Places(current) :
           KeyAt(current, p) \notin Keys \/ ~FirstOfItsKey(current, p)
<1> DEFINE n == Len(Arg.args)
<1>1. /\ map \in Seq(Range(map)) /\ n <= Len(map)
      /\ \A g \in 1 .. n : map[g].key = Arg.args[g].key
      /\ \A g \in n + 1 .. Len(map) : \A f \in 1 .. g - 1 : map[f].key # map[g].key
      /\ \A g \in DOMAIN map : \E p \in Places(current) : Origin(map, cloned, g, p)
  BY DEF EntriesInv
<1>2. DOMAIN map = 1 .. Len(map) /\ Len(map) \in Nat /\ n \in Nat /\ DOMAIN Arg.args = 1 .. n
  BY <1>1, LenProperties, ArgsShape
<1>3. PICK i \in DOMAIN map :
        ~(map[i].key \in Keys /\ \A f \in 1 .. i - 1 : map[f].key # map[i].key)
  BY <1>1, AllFound DEF UnknownEntry
<1> HIDE DEF n
<1>4. CASE i \in 1 .. n
  <2>1. /\ <<0, i>> \in Places(current) /\ KeyAt(current, <<0, i>>) = map[i].key
    BY <1>1, <1>2, <1>4, ArgsShape
  <2>2. FirstOfItsKey(current, <<0, i>>) => \A f \in 1 .. i - 1 : map[f].key # map[i].key
    <3>1. \A f \in 1 .. i - 1 : f \in 1 .. n
      BY <1>2, <1>4
    <3>2. \A f \in 1 .. i - 1 : map[f].key = document[current].args[f].key
      BY <1>1, <3>1 DEF Arg
    <3> QED  BY <2>1, <3>2 DEF FirstOfItsKey
  <2> QED  BY <1>3, <2>1, <2>2
<1>5. CASE i \notin 1 .. n
  <2>1. i \in n + 1 .. Len(map)
    BY <1>2, <1>5
  <2>2. map[i].key \notin Keys
    BY <1>1, <1>3, <2>1
  <2>3. PICK p \in Places(current) : Origin(map, cloned, i, p)
    BY <1>1
  <2>4. p[1] # 0
    <3> SUFFICES ASSUME p[1] = 0 PROVE FALSE
      OBVIOUS
    <3>1. PICK k \in DOMAIN Arg.args : p = <<0, k>>
      BY PlaceShape DEF Arg
    <3>2. k = i
      BY <2>3, <3>1 DEF Origin
    <3> QED  BY <1>2, <1>5, <3>2
  <2>5. /\ Occurs(map, KeyAt(current, p))
        /\ NodeOf(map, KeyAt(current, p)).id = map[i].node.id
    BY <2>3, <2>4 DEF Origin
  <2>6. PICK g \in DOMAIN map : /\ map[g].key = KeyAt(current, p)
                                /\ \A f \in 1 .. g - 1 : map[f].key # KeyAt(current, p)
    BY <1>1, <2>5, FirstExists
  <2>7. map[g].node.id = map[i].node.id
    BY <1>1, <2>5, <2>6, NodeIsFirst
  <2>8. g = i
    <3> SUFFICES ASSUME g # i PROVE FALSE
      OBVIOUS
    <3>1. <<0, i>> \in Places(current)
      BY <2>7, SameIdentity
    <3>2. i \in DOMAIN Arg.args
      BY <3>1, PlaceShape DEF Arg
    <3> QED  BY <1>2, <1>5, <3>2
  <2> QED  BY <2>2, <2>6, <2>8
<1> QED  BY <1>4, <1>5

(* A matrix is not rejected because its arguments are decoded again.       *)
LEMMA RejectedDuplicate ==
  ASSUME document \in Documents, current \in DOMAIN document, VisitedInv,
         NEW map, NEW cloned \in BOOLEAN, EntriesInv(map, cloned), DuplicateEntry(map, visited)
  PROVE  \E p \in Places(current) : Aliased(current, p)
<1>1. map \in Seq(Range(map))
  BY DEF EntriesInv
<1>2. PICK key \in Found(map) :
        \/ NodeOf(map, key).data \in visited
        \/ \E other \in Found(map) \ {key} : NodeOf(map, other).data = NodeOf(map, key).data
  BY DEF DuplicateEntry
<1>3. PICK e \in DOMAIN map : map[e].key = key /\ \A f \in 1 .. e - 1 : map[f].key # key
  BY <1>1, FirstExists DEF Found
<1>4. NodeOf(map, key) = map[e].node
  BY <1>1, <1>3, NodeIsFirst
<1>5. CASE NodeOf(map, key).data \in visited
  BY <1>4, <1>5, TaggedAliased
<1>6. CASE \E other \in Found(map) \ {key} : NodeOf(map, other).data = NodeOf(map, key).data
  <2>1. PICK other \in Found(map) \ {key} : NodeOf(map, other).data = NodeOf(map, key).data
    BY <1>6
  <2>2. PICK g \in DOMAIN map : map[g].key = other /\ \A f \in 1 .. g - 1 : map[f].key # other
    BY <1>1, FirstExists DEF Found
  <2>3. NodeOf(map, other) = map[g].node
    BY <1>1, <2>2, NodeIsFirst
  <2>4. g \in DOMAIN map \ {e} /\ map[g].node.data = map[e].node.data
    BY <1>3, <1>4, <2>1, <2>2, <2>3
  <2> QED  BY <2>4, TaggedAliased
<1> QED  BY <1>2, <1>5, <1>6

-----------------------------------------------------------------------------
(* Everything is accounted for.                                            *)

(* What is said of the document does not change while it is decoded.       *)
LEMMA SamePlaces ==
  ASSUME UNCHANGED document
  PROVE  /\ \A j : Accounted(j)' <=> Accounted(j)
         /\ \A j, p : Aliased(j, p)' <=> Aliased(j, p)
         /\ \A j, p : FirstOfItsKey(j, p)' <=> FirstOfItsKey(j, p)
         /\ \A j : Places(j)' = Places(j)
         /\ \A j, p : KeyAt(j, p)' = KeyAt(j, p)
BY DEF Accounted, Aliased, FirstOfItsKey, Places, KeyAt, NodeAt

(* At first nothing is tagged.                                             *)
LEMMA InitKeys == Init => KeysInv
<1> SUFFICES ASSUME Init PROVE KeysInv
  OBVIOUS
<1>1. RecursionInv
  BY InitRecursion
<1>2. /\ mode = "none" /\ error = "none" /\ visited = {}
      /\ \A j \in DOMAIN document : configs[j] = <<>>
  BY DEF Init, FactoryInit
<1>3. KeysAccounted
  BY <1>2 DEF KeysAccounted, Completed
<1> QED  BY <1>1, <1>2, <1>3 DEF KeysInv, VisitedInv

(* Nothing changes when main is not in the factory.                        *)
LEMMA KeysStutter ==
  ASSUME KeysInv, RecursionInv',
         UNCHANGED <<document, visited, current, mode, indices, current_config, configs, error>>
  PROVE  KeysInv'
<1>1. VisitedInv'
  BY DEF KeysInv, VisitedInv, Completed
<1>2. KeysAccounted'
  BY SamePlaces DEF KeysInv, KeysAccounted, Completed
<1>3. mode' # "none" =>
        /\ \A l \in DOMAIN indices' : Occurs(current_config', Used(Arg')[l].key)
        /\ configs'[current'] # <<>> => Accounted(current)'
  BY SamePlaces DEF KeysInv, Arg
<1> QED  BY <1>1, <1>2, <1>3 DEF KeysInv

(* What decode is given                                                    *)
LEMMA InputEntries ==
  ASSUME RecursionInv, Remaining, Decoding
  PROVE  /\ document \in Documents /\ current \in DOMAIN document
         /\ \E cloned \in BOOLEAN : EntriesInv(Input, cloned)
<1>1. document \in Documents /\ current \in DOMAIN document
  <2>1. Len(document) \in Nat /\ DOMAIN document = 1 .. Len(document)
    BY DocumentsAssumption, LenProperties DEF RecursionInv
  <2> QED  BY <2>1 DEF RecursionInv, Remaining
<1>2. CASE mode = "none"
  BY <1>1, <1>2, ClonedEntries DEF Input
<1>3. CASE mode # "none"
  BY <1>3 DEF Input, RecursionInv
<1> QED  BY <1>1, <1>2, <1>3

(* The steps of the factory: a rejection has its reason, ...               *)
LEMMA KeysRejected ==
  ASSUME KeysInv, RecursionInv', Remaining,
         \/ Throw("malformed") \/ Throw("invalid")
         \/ Decoding /\ DuplicateEntry(Input, visited) /\ Throw("duplicate")
         \/ Decoding /\ UnknownEntry(Input, visited) /\ Throw("unknown")
  PROVE  KeysInv'
<1> USE DEF Throw
<1>1. UNCHANGED <<document, visited, current, mode, indices, current_config, configs>>
  OBVIOUS
<1>2. VisitedInv'
  BY <1>1 DEF KeysInv, VisitedInv, Completed
<1>3. mode' # "none" =>
        /\ \A l \in DOMAIN indices' : Occurs(current_config', Used(Arg')[l].key)
        /\ configs'[current'] # <<>> => Accounted(current)'
  BY <1>1, SamePlaces DEF KeysInv, Arg
<1>4. error' = "unknown" => \E p \in Places(current) :
                              KeyAt(current, p) \notin Keys \/ ~FirstOfItsKey(current, p)
  BY InputEntries, RejectedUnknown DEF KeysInv
<1>5. error' = "duplicate" => \E p \in Places(current) : Aliased(current, p)
  BY InputEntries, RejectedDuplicate DEF KeysInv
<1>6. KeysAccounted'
  <2>1. \A j \in Completed : configs[j] # <<>> => Accounted(j)
    BY DEF KeysInv, KeysAccounted
  <2> QED  BY <1>1, <1>4, <1>5, <2>1, SamePlaces DEF KeysAccounted, Completed
<1> QED  BY <1>2, <1>3, <1>6 DEF KeysInv

(* ... arguments that are decoded are accounted for, and their tags come   *)
(* from them, ...                                                          *)
LEMMA KeysDecoded ==
  ASSUME KeysInv, RecursionInv', DecodeArgs
  PROVE  KeysInv'
<1> USE DEF DecodeArgs
<1>1. /\ UNCHANGED <<document, mode, error>> /\ error = "none" /\ mode = "none"
      /\ current' = current + 1 /\ visited' = Tagged(Arg.args, visited)
      /\ configs' = [configs EXCEPT ![current] = <<Config(Arg.args)>>]
      /\ Len(document) \in Nat /\ DOMAIN document = 1 .. Len(document)
      /\ document \in Documents /\ current \in DOMAIN document
  <2>1. document \in Documents /\ current \in DOMAIN document
    BY InputEntries DEF KeysInv, Decoding
  <2>2. Len(document) \in Nat /\ DOMAIN document = 1 .. Len(document)
    BY <2>1, DocumentsAssumption, LenProperties
  <2> QED  BY <2>1, <2>2 DEF NextArguments, Remaining
<1>2. Completed' = Completed \cup {current}
  BY <1>1 DEF Completed
<1>3. VisitedInv'
  <2>1. ASSUME NEW data \in visited'
        PROVE  \E j \in Completed' : \E i \in DOMAIN document[j].args :
                 data \in {document[j].args[i].node.id, -document[j].args[i].node.id}
    <3>1. CASE data \in visited
      BY <1>2, <3>1 DEF KeysInv, VisitedInv
    <3>2. CASE data \notin visited
      <4>1. PICK key \in Found(Arg.args) : data = NodeOf(Arg.args, key).data
        BY <1>1, <3>2 DEF Tagged, Read
      <4>2. PICK i \in DOMAIN Arg.args :
              Arg.args[i].key = key /\ \A f \in 1 .. i - 1 : Arg.args[f].key # key
        BY <1>1, ArgsShape, FirstExists DEF Found
      <4>3. data = Arg.args[i].node.id
        <5>0. Arg.args \in Seq(Range(Arg.args))
          BY <1>1, ArgsShape
        <5>1. NodeOf(Arg.args, key) = Arg.args[i].node
          <6> HIDE DEF DecodeArgs
          <6>1. Arg.args[i].key = key /\ \A f \in 1 .. i - 1 : Arg.args[f].key # key
            BY <4>2
          <6> QED  BY <5>0, <6>1, NodeIsFirst
        <5> QED  BY <1>1, <4>1, <5>1, ArgsShape DEF Loaded
      <4> QED  BY <1>2, <4>3 DEF Arg
    <3> QED  BY <3>1, <3>2
  <2> QED  BY <1>1, <2>1 DEF VisitedInv
<1>4. Accounted(current)
  <2>1. Used(Arg) = <<>>
    BY DEF Used
  <2>2. EntriesInv(Arg.args, FALSE)
    BY <1>1, ClonedEntries
  <2>3. \A l \in DOMAIN Used(Arg) : Occurs(Arg.args, Used(Arg)[l].key)
    BY <2>1
  <2>4. VisitedInv
    BY DEF KeysInv
  <2> QED  BY <1>1, <2>2, <2>3, <2>4, DecodedAccounted
<1>5. KeysAccounted'
  <2>1. \A j \in Completed : configs[j] # <<>> => Accounted(j)
    BY DEF KeysInv, KeysAccounted
  <2>2. \A j \in Completed : configs'[j] = configs[j]
    BY <1>1 DEF Completed, KeysInv, RecursionInv
  <2> QED  BY <1>1, <1>2, <1>4, <2>1, <2>2, SamePlaces DEF KeysAccounted
<1> QED  BY <1>1, <1>3, <1>5 DEF KeysInv

(* ... a clone has the tags of the original, ...                           *)
LEMMA KeysStarted ==
  ASSUME KeysInv, RecursionInv', StartMatrix
  PROVE  KeysInv'
<1> USE DEF StartMatrix
<1>1. /\ UNCHANGED <<document, current, configs, error>> /\ mode = "none"
      /\ visited' = visited \cup {-data : data \in visited} /\ indices' = <<>>
      /\ document \in Documents /\ current \in DOMAIN document
  <2>1. Len(document) \in Nat /\ DOMAIN document = 1 .. Len(document)
    BY DocumentsAssumption, LenProperties DEF KeysInv, RecursionInv
  <2> QED  BY <2>1 DEF KeysInv, RecursionInv, Remaining
<1>2. VisitedInv'
  <2> SUFFICES ASSUME NEW data \in visited'
               PROVE  \E j \in Completed : \E i \in DOMAIN document[j].args :
                        data \in {document[j].args[i].node.id, -document[j].args[i].node.id}
    BY <1>1 DEF VisitedInv, Completed
  <2>1. PICK d \in visited : data = d \/ data = -d
    BY <1>1
  <2>2. PICK j \in Completed : \E i \in DOMAIN document[j].args :
          d \in {document[j].args[i].node.id, -document[j].args[i].node.id}
    BY DEF KeysInv, VisitedInv
  <2>3. PICK i \in DOMAIN document[j].args :
          d \in {document[j].args[i].node.id, -document[j].args[i].node.id}
    BY <2>2
  <2>4. document[j].args[i].node.id \in Nat \ {0}
    BY <1>1, DocumentsAssumption DEF Completed, Loaded
  <2>5. data \in {document[j].args[i].node.id, -document[j].args[i].node.id}
    BY <2>1, <2>3, <2>4
  <2> QED  BY <2>5
<1>3. configs'[current'] = <<>>
  <2>1. DOMAIN document = 1 .. Len(document)
    BY <1>1, DocumentsAssumption, LenProperties
  <2>2. current >= current
    BY <1>1, <2>1
  <2> QED  BY <1>1, <2>2 DEF KeysInv, RecursionInv
<1>4. KeysAccounted'
  BY <1>1, SamePlaces DEF KeysInv, KeysAccounted, Completed
<1> QED  BY <1>1, <1>2, <1>3, <1>4 DEF KeysInv

(* Every level chosen so far has an entry.                                 *)
LEMMA KeysChosen ==
  ASSUME KeysInv, RecursionInv', Remaining, mode # "none", mode' # "none",
         UNCHANGED <<document, visited, current, configs, error>>,
         NEW level \in 1 .. Len(Used(Arg)), NEW i, Choose(level, i),
         \A l \in DOMAIN indices' : l \in DOMAIN indices \/ l = level
  PROVE  KeysInv'
<1>1. /\ document \in Documents /\ current \in DOMAIN document /\ Arg.kind = "map"
      /\ current_config \in Seq(Range(current_config))
  BY DEF KeysInv, RecursionInv, EntriesInv
<1>2. current_config' =
        Assign(current_config, Used(Arg)[level].key, Arg.matrix[level].values[i])
  BY <1>1, MatrixShape DEF Choose
<1>3. \A l \in DOMAIN indices' : Occurs(current_config', Used(Arg)[l].key)
  BY <1>1, <1>2, AssignNodes DEF KeysInv
<1>4. VisitedInv' /\ KeysAccounted'
  BY SamePlaces DEF KeysInv, VisitedInv, KeysAccounted, Completed, Remaining
<1>5. configs'[current'] # <<>> => Accounted(current)'
  BY SamePlaces DEF KeysInv
<1> QED  BY <1>3, <1>4, <1>5 DEF KeysInv, Arg

(* ... the key of each level that was entered occurs, ...                  *)
LEMMA KeysMoved ==
  ASSUME KeysInv, RecursionInv', Descend \/ NextValue
  PROVE  KeysInv'
<1>1. /\ document \in Documents /\ current \in DOMAIN document /\ Arg.kind = "map"
      /\ mode # "none" /\ IndicesInv /\ RecursionInv
  BY DEF KeysInv, RecursionInv, Descend, NextValue
<1>2. CASE Descend /\ Arg.matrix[Level].values = <<>>
  <2>1. /\ UNCHANGED <<document, visited, current, indices, current_config, configs, error>>
        /\ mode' = "return"
    BY <1>2 DEF Descend
  <2>2. VisitedInv' /\ KeysAccounted'
    BY <2>1, SamePlaces DEF KeysInv, VisitedInv, KeysAccounted, Completed
  <2> QED  BY <1>1, <2>1, <2>2, SamePlaces DEF KeysInv, Arg
<1>3. CASE Descend /\ Arg.matrix[Level].values # <<>>
  <2>1. /\ UNCHANGED <<document, visited, current, configs, error>> /\ Remaining
        /\ mode' = mode /\ Choose(Level, 1) /\ indices' = Append(indices, 1) /\ ~AtLeaf
    BY <1>3 DEF Descend
  <2>2. Len(indices) \in Nat /\ Level = Len(indices) + 1 /\ Level \in 1 .. Len(Used(Arg))
        /\ DOMAIN indices = 1 .. Len(indices)
    BY <1>1, <2>1, LeafIsDeepest, MatrixShape DEF IndicesInv, Level
  <2>3. \A l \in DOMAIN indices' : l \in DOMAIN indices \/ l = Level
    <3>1. DOMAIN indices' = 1 .. Len(indices) + 1
      BY <1>1, <2>1 DEF IndicesInv
    <3> QED  BY <2>2, <3>1
  <2> QED  BY <1>1, <2>1, <2>2, <2>3, KeysChosen
<1>4. CASE NextValue
  <2>1. /\ UNCHANGED <<document, visited, current, configs, error>> /\ Remaining
        /\ mode' = "enter" /\ Choose(Len(indices), Last(indices) + 1) /\ indices # <<>>
        /\ indices' = [indices EXCEPT ![Len(indices)] = @ + 1]
    BY <1>4 DEF NextValue
  <2>2. Len(indices) \in 1 .. Len(Used(Arg)) /\ DOMAIN indices' = DOMAIN indices
    BY <1>1, <2>1, ChosenIndices
  <2> QED  BY <1>1, <2>1, <2>2, KeysChosen
<1> QED  BY <1>2, <1>3, <1>4

(* ... so that a combination that is decoded accounts for the matrix, ...  *)
LEMMA KeysLeaf ==
  ASSUME KeysInv, RecursionInv', Leaf
  PROVE  KeysInv'
<1> USE DEF Leaf
<1>1. /\ UNCHANGED <<document, visited, current, indices, current_config, error>>
      /\ configs' = [configs EXCEPT ![current] = Append(@, Config(current_config))]
      /\ document \in Documents /\ current \in DOMAIN document /\ Arg.kind = "map"
      /\ IndicesInv /\ VisitedInv /\ EntriesInv(current_config, TRUE)
      /\ error = "none" /\ DOMAIN configs = DOMAIN document
      /\ \A l \in DOMAIN indices : Occurs(current_config, Used(Arg)[l].key)
  BY DEF KeysInv, RecursionInv, Remaining
<1>2. DOMAIN indices = DOMAIN Used(Arg)
  BY <1>1, LeafIsDeepest, MatrixShape
<1>3. Accounted(current)
  BY <1>1, <1>2, DecodedAccounted
<1>4. VisitedInv'
  BY <1>1 DEF VisitedInv, Completed
<1>5. KeysAccounted'
  <2>1. \A j \in Completed : j # current /\ j \in DOMAIN document
    <3>1. DOMAIN document = 1 .. Len(document) /\ Len(document) \in Nat
      BY <1>1, DocumentsAssumption, LenProperties
    <3> QED  BY <1>1, <3>1 DEF Completed
  <2>2. \A j \in Completed : configs'[j] = configs[j]
    BY <1>1, <2>1
  <2> QED  BY <1>1, <2>2, SamePlaces DEF KeysInv, KeysAccounted, Completed
<1> QED  BY <1>1, <1>3, <1>4, <1>5, SamePlaces DEF KeysInv, Arg

(* ... and for all of its combinations.                                    *)
LEMMA KeysReturned ==
  ASSUME KeysInv, RecursionInv', Return
  PROVE  KeysInv'
<1> USE DEF Return
<1>1. /\ UNCHANGED <<document, visited, current_config, configs, error>>
      /\ document \in Documents /\ current \in DOMAIN document /\ Arg.kind = "map"
      /\ mode = "return" /\ IndicesInv /\ error = "none"
      /\ \A l \in DOMAIN indices : Occurs(current_config, Used(Arg)[l].key)
      /\ configs[current] # <<>> => Accounted(current)
      /\ DOMAIN document = 1 .. Len(document) /\ Len(document) \in Nat
  BY DocumentsAssumption, LenProperties DEF KeysInv, RecursionInv, Remaining
<1>2. CASE indices = <<>>
  <2>1. current' = current + 1 /\ mode' = "none"
    BY <1>2 DEF NextArguments
  <2>2. Completed' = Completed \cup {current}
    BY <1>1, <2>1 DEF Completed
  <2>3. VisitedInv'
    BY <1>1, <2>2 DEF KeysInv, VisitedInv
  <2>4. KeysAccounted'
    BY <1>1, <2>2, SamePlaces DEF KeysInv, KeysAccounted
  <2> QED  BY <2>1, <2>3, <2>4 DEF KeysInv
<1>3. CASE indices # <<>>
  <2>1. UNCHANGED <<current, mode>> /\ indices' = SubSeq(indices, 1, Len(indices) - 1)
    BY <1>3
  <2>2. \A l \in DOMAIN indices' : l \in DOMAIN indices
    BY <1>1, <1>3, <2>1, ChosenIndices
  <2>3. VisitedInv' /\ KeysAccounted'
    BY <1>1, <2>1, SamePlaces DEF KeysInv, VisitedInv, KeysAccounted, Completed
  <2> QED  BY <1>1, <2>1, <2>2, <2>3, SamePlaces DEF KeysInv, Arg
<1> QED  BY <1>2, <1>3

(* Every step preserves the invariant of what is accepted.                 *)
LEMMA NextKeys ==
  ASSUME KeysInv, [Next]_vars
  PROVE  KeysInv'
<1>1. RecursionInv'
  BY NextRecursion DEF KeysInv
<1>2. CASE FactoryNext
  <2>1. CASE Malformed \/ DecodeThrows \/ ValidateFails \/ NotASequence
    BY <1>1, <2>1, KeysRejected DEF Malformed, DecodeThrows, ValidateFails, NotASequence
  <2> QED
    BY <1>1, <1>2, <2>1, KeysDecoded, KeysStarted, KeysLeaf, KeysMoved, KeysReturned
       DEF FactoryNext
<1>3. CASE UNCHANGED factory_vars
  BY <1>1, <1>3, KeysStutter DEF factory_vars
<1> QED
  BY <1>2, <1>3 DEF Next, RejectOptions, InitNuma, InitNumaThrows, Create, CreateFails,
                    Created, RunBenchmark, SpawnThreads, BindFar, Finish, Terminating, vars

(* No entry is silently ignored, nothing else is rejected as unknown, and  *)
(* a matrix is never taken for a duplicate, but for aliases.               *)
THEOREM EntriesAccounted == Spec => []KeysAccounted
<1>1. KeysInv => KeysAccounted
  BY DEF KeysInv
<1> QED  BY <1>1, InitKeys, NextKeys, PTL DEF Spec
=============================================================================

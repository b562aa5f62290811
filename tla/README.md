# Verification of PerMA-Bench

This directory models PerMA-Bench (the C++ program under `src/`) in TLA+,
checks the models with TLC and proves theorems about them with TLAPS. It is
meant to be read next to the code: every definition that models code has an
entry in `PROJECT.json` ("map") with the lines it stands for.

Paths below are relative to `src/src/` unless they say otherwise.

## 1. The system

PerMA-Bench reads YAML files, creates benchmarks from them, runs these one
after the other on a persistent-memory (PMem) file or in DRAM and writes their
results into one JSON file.

    main (perma.cpp)
      -> init_numa                                     numa.cpp
      -> BenchmarkSuite::run_benchmarks                benchmark_suite.cpp
           -> BenchmarkFactory: entries -> benchmarks  benchmark_factory.cpp
                -> BenchmarkConfig::decode, validate   benchmark_config.cpp
           -> for each benchmark
                create_data_files, set_up              benchmark.cpp, utils.cpp
                run                                    single_, parallel_benchmark.cpp
                  -> number_threads x run_in_thread    benchmark.cpp
                       -> IoOperation::run             io_operation.hpp
                            -> rw_ops                  read_write_ops.hpp
                       or run_custom_ops_in_thread     benchmark.cpp
                            -> ChainedOperation::run   io_operation.hpp
                get_result_as_json, tear_down          benchmark.cpp

| component | state | operations | what is hard | what makes it correct |
|---|---|---|---|---|
| execution of raw operations (`run_in_thread`) | per benchmark: mutex, condition variable, `threads_remaining`, `io_position`, `io_operations`; per thread: its loop, its result | generate chunks, pass the barrier, steal chunks until none is left or the deadline has passed, store the result | all interleavings of the threads, spurious wakeups, a notification without the lock, slots written without a lock, overrunning counters | nobody executes before all is generated, nobody sleeps forever, each chunk is run once, results add up |
| layout (`validate`, `single_set_up`, the generation loop, `generate_read_data`) | none: arithmetic on the configuration | partition the memory, divide work into chunks and chunks among threads, compute addresses, generate the data that is read | divisions with a rest, descending order, accesses larger than chunks, two memories, 32-bit counts, two divisions of the same range | addresses stay inside, cover the range, are as many as requested, and hold generated data |
| execution of custom operations (`run_custom_ops_in_thread`) and its results | a signed atomic counter of chunks, latency samples, clock readings | draw a chunk, run the chain, sample, store the result, report | the counter is overrun by each thread, threads start late or draw nothing | all operations are run and counted, the throughput relates to that of the threads |
| run (`SingleBenchmark`, `ParallelBenchmark`) | threads, `thread_error` | spawn, check, join; a signal handler | faults at any time, before and during a join | what `run()` returns is true of the threads |
| suite, factory and data files | list of benchmarks, results not yet written, result file, PMem directory, mappings | create the benchmarks, create or re-map files, write results of a matrix, tear down | data files shared within a matrix, entries of the same name, errors at every step | results are written once, writers have their own file, nothing stays behind |
| operation chains | the thread-local generator, the address read last | random address, write at an offset | modulo zero, offsets that leave the range | accesses stay in the partition |
| random numbers (`zipf`, `rand_val`) | thread-local tables, one unsynchronised generator | build a table, draw, search | a data race, a table computed for another range, int overflow | draws follow the generator, the search inverts the table and ends |
| memory operations (`rw_ops`) | memory | read, write, flush, fence | unaligned addresses, each size coded by hand | each byte is accessed once, flushed before the fence |
| configuration (`decode`, `create_benchmark_matrix`) | tags on YAML nodes, one `current_config` shared by all combinations | decode, validate, recurse over a matrix | tags left behind, aliases, unknown and null entries | a matrix is its cross product, no entry is ignored |
| NUMA and command line (`main`, `init_numa`, `set_to_far_cpus`) | the binding of main, inherited by threads | detect near nodes, bind, find far nodes | gaps in the ids, nodes without CPUs, unknown distances, calls whose failure is ignored | near benchmarks run near the PMem, far ones far from it |
| result statistics, visualisation | | | | see section 7 |

`PROJECT.json` lists the components with their status, and under "hazards"
what in this code is hard to test, each at its line, with the properties that
would notice it.

## 2. The modules

| module | models | composed with |
|---|---|---|
| `Arithmetic` | sums, products and powers of two, as folds of the community modules | used by the executions and `Operations` |
| `OperatorProofs` | lemmas about these and about `FlattenSeq` | used by all proofs but those of `RandomNumbers` |
| `ChunkPool` | what the threads of a benchmark promise about chunks, without mutex, condition variable and counter | implemented by `BenchmarkExecution` |
| `BenchmarkExecution` | `run_in_thread` of all threads, one action per atomic step | `ChunkPool` |
| `BenchmarkExecutionProofs` | theorems about it, the refinement included | |
| `ChunkLayout`, `MCChunkLayout`, `ChunkLayoutProofs` | `validate`, `single_set_up`, the generation loop's addresses, `generate_read_data` | its chunks are the entries of `io_operations` in `BenchmarkExecution` |
| `RandomNumbers`, `MCRandomNumbers`, `RandomNumbersProofs` | `zipf` and `rand_val` in all threads | its values are the random values of `ChunkLayout`, which says when they are regular |
| `BenchmarkRun` | `run()` around the threads, the signal handler, and what follows `run()` | the threads are those of `BenchmarkExecution` and `CustomExecution`, reduced to their phase |
| `CustomExecution` | `run_custom_ops_in_thread` of all threads | |
| `CustomResults` | its clock readings and `get_custom_results_as_json` | extends `CustomExecution` |
| `CustomExecutionProofs` | theorems about both | |
| `Operations`, `MCOperations`, `OperationsProofs` | one iteration of an operation chain or one `IoOperation`, down to stores, flushes and fences | the step `RunChain` of `CustomExecution` and `RunChunk` of `BenchmarkExecution` |
| `BenchmarkSuite`, `MCBenchmarkSuite`, `BenchmarkSuiteProofs` | factory, suite, data files, result file | `run()` is the step that `BenchmarkRun` details |
| `Numa` | `init_numa`, near and far nodes | extended by `BenchmarkFactory`, whose validation asks for far nodes |
| `BenchmarkFactory` | `decode` and the matrix recursion | extended by `Startup` |
| `Startup`, `MCStartup` | `main` from its options to the threads of each benchmark | composes `Numa` and `BenchmarkFactory`; the benchmarks it creates are the configs of `BenchmarkSuite` |
| `MainProofs` | theorems about the main thread: `Startup` with what it extends, and `BenchmarkRun` | |

Operators named after a defect ("Defect: ...") stand next to the definition
they would replace. No specification uses them: they state a plausible bug, and
each property is known to fail for at least one of them.

### BenchmarkExecution

`pc[t]` is the place of thread `t` in `run_in_thread`:

| pc | code (`benchmark.cpp`) | actions |
|---|---|---|
| generate | 280-344 | `GenerateChunk`: one iteration, writes one slot of `io_operations` |
| generate -> count_down | 354 | `LockToCountDown`: takes the mutex |
| count_down | 355-357 | `CountDown`: decrements and releases |
| notify | 360 | `NotifyAll`: moves the waiters back to lock, does not need the mutex |
| lock, predicate | 362-363 | `LockToWait`, `CheckPredicate`: take the mutex; leave, or release it and wait in one step |
| waiting | 363 | `SpuriousWakeup`; otherwise until `NotifyAll` |
| begin | 366-377 | `BeginExecution` |
| claim | 395-398, 414 | `ClaimFixed`, `ClaimDuration`: one `fetch_add` |
| run | 400-401, 416-422 | `RunChunk`: executes the chunk, then the timed loop looks at the clock |
| finish, done | 379-386 | `StoreResult` |

`DeadlinePasses` lets the deadline of a thread pass at any time after it began
executing. `executed` is a history of how often each position was run. A chunk
is an atomic unit: its operations access memory only, which no other step of
this module reads.

### ChunkLayout

The configuration is chosen among those that `validate` accepts. Each step lets
one thread generate: it adds, for each operation, the set of addresses the
operation may be given, one address in the sequential modes and every address
of a partition for uniform random ones. `partition_size` and the other operators have
the names of the variables in the code. Threads take turns, since
`BenchmarkExecution` shows that the order does not matter.

The number of accesses in a partition is a `uint32_t`: `num_accesses` is taken
modulo `CountModulus`, and `Traps` is the uniform value modulo zero that follows
when it wraps to zero. A value of `zipf` is one of the accesses asked for if the
thread's table was built for as many (`ZipfInRange`), and any int otherwise
(`RandomValues`): unassigned, or found outside of the table, if the search does
not fault (`MayFault`). `FirstTargets` are the ranges the table may be for: the
one of the thread's first operation. `generate_read_data` gives the lines that
each of the eight generating threads stores.

### RandomNumbers

`LoadX` and `StoreX` are the two accesses of `rand_val` to its static variable,
between which all other threads may run. In the compiled program the variable
is loaded once and stored once (both divisions use one register); a build that
loads it twice is the defect `StoreTorn`, which leaves the cycle of the
generator. `Call` is the entry of `zipf`: an operation's target decides the
argument, the first call of a thread builds its table. `SearchStep` is one
round of the binary search, `SearchOutside` a round that leaves the table.
A probability is measured in units of 1 / m, so that tables are integers; the
exponentiation that fills them is not modelled, any growing table is allowed.

### Numa, BenchmarkFactory and Startup

`machine` is the topology, `run_mask` the nodes main is bound to, `placed` where
the threads of the benchmark at hand run, one entry for each configuration
(`numa_pattern` is an option of it, so that all its threads do the same).
`init_numa` and `init_numa_throws` are the ways in which the function returns or
not.

A YAML scalar has an identity (aliases share it), data (an assignment makes
nodes share them, and with them their tag) and a value. `Clone` gives a map data
of its own (negative, those of the file are positive) with the tags and aliases
of the original; an entry is a duplicate if its data were read before. `DecodeArgs` decodes a
single benchmark and tags what it read, `Leaf` a combination of a matrix. The
recursion of `create_matrix` is `StartMatrix`, `Descend` (first value),
`NextValue` and `Return`, with one index per level in `indices`. Errors end in
`Throw`: `Malformed`, `NotASequence`, `DecodeThrows` and `ValidateFails`.

`Startup` is main: `RejectOptions` or `InitNuma` (or `InitNumaThrows`), then
`Create` until `Created` or `CreateFails`, then `RunBenchmark` for each
benchmark in the suite's order. `SpawnThreads` gives the threads of the next
configuration main's binding; those of a far one change theirs later, by
`BindFar`, while main may be spawning the other pool. If that changed main's
binding too (`BindProcess`), a near pool would be spawned far from the PMem.

### BenchmarkRun

`main` is the main thread: it spawns all threads of all pools (`Spawn`), and
before each join (`Join`) looks at `thread_error` (`CheckError`). After a
`run()` that returned true, results are read and data is unmapped
(`Complete`); after one that returned false, the suite tears down
(`TearDownFailed`) and throws (`CrashExit`). The handler of SIGSEGV sets
`thread_error` and returns to the instruction that faulted, so a faulting
thread faults again (`Refault`) and never finishes. It may fault while it
generates, in `zipf` (`faulting_early`): it will not count down, and the others
of its pool wait at the barrier. A single benchmark has an
empty second pool.

### CustomExecution

`Draw` is the `fetch_sub` on the signed counter with the early exit, `RunChain`
one iteration (sampled or not), `EndChunk` the addition to `total_num_ops`,
`StoreResult` the thread's end. `CustomResults` conjoins these steps with the
clock: `Start` and `TimedStoreResult` read it, a sampled chain is `StartSample`
and `RunSampled`, `Tick` lets time pass, and `Report` computes the rates.

### Operations

A job is a chain, given as the parts of its text, or an `IoOperation`. `Parse`
is `all_from_string` with `from_string`'s and `validate`'s checks. `ChainRead`
draws any address that `get_random_address` can produce (the sum of the value
read before and `lehmer64` is any 64-bit number, so the modulo and the mask
decide), `ChainWrite` moves the address by the offset; both pass it on to the
next operation. `RunIoOperation` is one round of the loops over a list of
addresses. `Trap` is the division by a range of zero or the unaligned access of
a read below 64 bytes. `memory` tells for each written cache line whether its
latest content is in the cache (`unflushed`), on its way (`unfenced`) or
`in_memory`; `run_write` composes `Store`, `StoreNonTemporal`, `Flush` and
`sfence_barrier` in the order of the code. The functions written out for 64 to
512 bytes and the loops for larger sizes differ in the lines they touch only,
which `StoredLines`, `ReadLines` and `ReadListLines` give.

### BenchmarkSuite

The factory operators turn entries into benchmarks with their data files:
`SingleBenchmark` and `ParallelBenchmark` decide what is shared. The suite's
loop is `FlushPrevious` or `Continue`, `CreateDataFiles` (with `set_up`),
`RunSucceeds`, and at the end `Finish`. Errors: `CreateThrows` (a file cannot
be created or mapped: an exception leaves the loop and the files created so far,
the last one perhaps empty or without data), `RunFails` and
`FinishWithError` (a segmentation fault), `RunKilled` (an access past the end
of a mapped file: SIGBUS). Memory ranges are one or two units; a result is
named by its benchmark.

## 3. What is checked

"Pass" runs explore all reachable states of the instance. Section 4 explains
the bounds.

| run | instance | shows |
|---|---|---|
| `exec_fixed` | 3 threads, 4 chunks (one thread has two), 2 spurious wakeups | the barrier is never passed early (`GenerationBarrier`), no wakeup is lost (`NoLostWakeup`), slots are written once (`WriteOnce`), chunks are run exactly once (`ExactlyOnce`), results add up (`ReportedSizesAddUp`), all threads end (`Termination`), the threads implement `ChunkPool` (`ImplementsPool`); `IndInv` is the invariant of the proofs |
| `exec_duration` | 2 threads, 3 chunks, up to 7 claims before the deadlines | chunks are handed out in rounds (`ImplementsPool`), what is run after the deadline is counted (`ReportedSizesAddUp`), all threads end |
| `layout` | all accepted configurations of `SmallConfigs` | no PMem access leaves the memory range, but those of irregular `zipf` values (`AccessesInMemoryRange`); random benchmarks perform the requested operations and less than a chunk more (`EnoughOperations`); sequential ones access each location once, uniform random ones can access each (`CoversRange`, with the exact conditions); what is read was generated, each line by one thread (`ReadsGeneratedData`) |
| `layout_dram` | 2 partitions, less DRAM than PMem | violation: DRAM accesses leave the DRAM range (finding 1) |
| `run_parallel` | 2 raw and 2 custom threads | success means that all threads finished; without a fault the benchmark completes; a fault ends the run at the join main is in, unless the joined thread faults too or waits at the barrier for one that does |
| `run_error_returns` | 2 threads | violation: an error does not always make `run()` return (finding 2) |
| `custom` | 3 threads, 8 operations in chunks of 3, every second sampled, 2 ticks | at least the requested operations are run, less than a chunk more; counts, samples and the counter are right; the reported throughput is at most the sum of the threads' and every thread with its latencies fits into the reported time (`ThroughputAddsUp`); all threads end |
| `chains` | chains of up to three operations, 2790 jobs with the README's example and `IoOperation`s | no chain leaves its partition but by its offsets (`AccessesInRange`); writes use the address read last, in the same memory (`WritesFollowRead`); what is written with a persist instruction is in memory when the operation ends (`Persisted`) |
| `chains_read_size` | the README's example chain | violation: a read of more than 512 bytes in a chain reads its first 512 bytes again (finding 3) |
| `suite` | suites of two entries out of 36 single and 72 parallel ones | results are written once and under their name, also after a fault; writers have their own files; readers find generated data; only the running benchmark is mapped; nothing is left but the shared file of a matrix whose last benchmark writes (`CleanUpUnlessMixed`) |
| `random` | 2 threads with 3 calls each, m = 7, tables up to 5, a largest int of 8 | whatever the threads write into the generator's state, it stays in its cycle and each draw is what the generator says (`RandValFollowsLcg`); the search finds the interval of the draw (`ZipfInverts`); every call returns (`EveryCallReturns`) |
| `startup` | 14 machines, each with every binding to begin with, 13 command lines, 32 documents | a matrix gives its cross product in order (`MatrixIsProduct`); unknown and repeated keys are rejected, and nothing else is (`KeysAccounted`); near benchmarks run near whatever far ones do (`NearRunsNear`), far ones far (`FarRunsFar`) |

### Findings

1. The start of a DRAM partition is computed with the size of a PMem partition
   (`benchmark.cpp:113`).
2. `thread_error` is only looked at before a join. If the thread being joined
   faults, or waits at the barrier for one that faulted before it, main waits
   forever (`single_benchmark.cpp:24`).
3. `simd_read` of one address loops over the access but loads from its start
   each time: in a chain, a read of 1024 bytes reads 512 bytes twice
   (`read_write_ops.hpp:421`). The loops of raw benchmarks are not affected.

What the properties have to exclude says as much about the code as what they
claim:

- Extra chunks of a division with a rest go to the first threads, hence to the
  first partitions: with six chunks, four threads and two partitions the first
  partition's threads access the first chunk of the second one, and the last
  chunk is never accessed (`CoversRange`, `benchmark.cpp:275`).
- Partitions need not fill the memory range: `validate` only asks that each is a
  multiple of the access size. With 65 partitions of 64 bytes over 4224 bytes
  random accesses never reach the last line (`CoversRange`).
- Accesses larger than a chunk overlap between the threads of a partition
  (`CoversRange`, `benchmark.cpp:257`).
- With 2^32 accesses or more in a partition, random accesses do not reach its
  end (`CoversRange`), or trap at a multiple of 2^32 (`benchmark.cpp:252`).
- The file that the read-only benchmarks of a matrix share is deleted with the
  last benchmark of the matrix only if that one uses it; the shipped
  `workloads/raw/latency.yaml` ends its matrices in a writing operation
  (`CleanUpUnlessMixed`, `benchmark_suite.cpp:100`).
- In a hybrid benchmark `zipf` uses the table of the range it was first called
  for: unless both have as many accesses it may return an unassigned value, or
  read past its table (`ZipfInverts`, `utils.cpp:148`). A sum of int indices
  overflows for more than 2^30 accesses (`utils.cpp:170`), and a range without
  accesses has no table to search. The addresses drawn then are anywhere:
  `AccessesInMemoryRange` and `ReadsGeneratedData` are about the other
  benchmarks (`RegularNumbers`). That the result is in "a range from 0 - (n - 1)"
  (`utils.cpp:181`) is true of these only.
- A range that does not divide into whole lines for eight threads makes
  `generate_read_data` store to unaligned addresses
  (`ReadsGeneratedData`, `utils.cpp:101`).
- An unknown key whose value is an alias of a value that was decoded before is
  silently ignored, and a null entry of a matrix hides all entries behind it
  (`KeysAccounted`, `MatrixIsProduct`). If such an unknown key is also a key of
  the matrix, the values of the matrix are assigned to the alias and thereby to
  the option that shares its node: `MatrixIsProduct` is about matrices whose
  keys are options (`benchmark_factory.cpp:193`).
- If the far nodes have no CPUs, far benchmarks run near
  (`FarRunsFar`, `numa.cpp:86`). Likewise near benchmarks run wherever the
  process was started if the nodes of `--numa` have no CPUs, or no node near the
  PMem has (PMem with a node of its own is near others only if the machine says
  so), or the PMem's node is not detected (`NearRunsNear`, `numa.cpp:46`).
- The loops over the nodes visit the ids below the number of nodes. If the ids
  have gaps, near nodes with higher ids are not found: the threads then run on
  the visited near ones, or where the process was started, and main ends if the
  PMem's node has the number of nodes as its id and is far from all others
  (`NearRunsNear`, `numa.cpp:54`). Far nodes are far from the visited nodes of
  main's binding only, so that `FarRunsFar` asks that all are visited
  (`numa.cpp:155`).
- A thread whose start and end fall into one tick of the clock reports 0 / 0;
  the "average" per thread is the total throughput divided by the number of
  threads, which is not the mean of the threads' throughputs
  (`ThroughputAddsUp`, `benchmark.cpp:603`).

Also visible in `BenchmarkRun`, without a property of its own: after a fault
there is a joinable thread, which the exception of `crash_exit` destroys; that
terminates the process before main's handler (`benchmark_suite.cpp:140`).

## 4. Bounds

- `BenchmarkExecution`: three threads are the fewest with a last thread, one
  on its way into `wait()` and one waiting. Four chunks over three threads have
  a rest. Two spurious wakeups (`MaxSpuriousWakeups`) let each waiter wake once,
  or one twice. `MaxIoPosition` bounds the chunks claimed before a deadline:
  seven claims are more than two rounds over three chunks. A thread whose
  deadline has passed is not bounded, it claims at most once more.
- `ChunkLayout`: sizes start at the real minimum of 64 bytes. With sizes 64 to
  256 an access is smaller than, equal to and larger than a chunk; up to six
  threads and 20 cache lines give every combination of rests of chunks,
  threads and partitions that one, two, three and six partitions allow.
  `CountModulus` is 8 instead of 2^32, so that partitions have less than, exactly
  and more than that many accesses. `IntMax` is 8, so that ranges have less than,
  exactly and more than half as many; hybrid configurations have DRAM that is
  smaller, as large and (in accesses of a partition) larger. (`layout_dram` needs
  neither: 1024.)
- `BenchmarkRun`: two threads in each of two pools, so that a join has threads
  before and after it in its own pool and in the other.
- `CustomExecution`: eight operations do not fill the third chunk; samples
  fall on the second operation of each chunk only. `MaxClock` lets the clock
  tick twice: threads start before, at and after the first tick, end before, at
  and after the second, and some have no duration.
- `RandomNumbers`: a = 3 generates all numbers modulo 7, so that three calls of
  two threads meet every state in every order of loads and stores. Tables of up
  to five entries have a middle with both sides; `IntMax` is 8, so that the
  indices of the largest table overflow when added.
- `Startup`: machines with one and two sockets, gaps in the ids (with the
  PMem's node below, at and above the number of nodes), nodes without CPUs that
  are far from all others or near one, unknown distances, two clusters, and
  without NUMA support. The process may be started with any binding.
  Documents have a matrix of up to three arguments, each error that `decode`
  and the recursion can meet, and aliases within one entry, across entries and
  into a matrix. Three options stand for all: two numbers and `numa_pattern`.
- `Operations`: sizes below, within and above the unrolled ones (0, 32, 64 to
  2048), partitions of 2 KiB and 1.25 KiB, so that an access can be smaller
  than, equal to and larger than its partition. `WordSize`, 8192, stands for
  2^64: it only has to exceed every partition, so that a wrapped range leaves
  it. Three operations are enough for a read, and two writes that move on.
- `BenchmarkSuite`: two entries are enough for a new matrix, a merged one and
  a single followed by a parallel benchmark; matrices have up to two configs.

## 5. Fairness

Weak fairness of each thread's steps: the operating system schedules every
thread, and a thread that waits for the mutex gets it when it is free. A weakly
fair thread could starve only if others took the mutex again and again; each
thread takes it a bounded number of times (twice, and once for each spurious
wakeup), so weak fairness is enough. Spurious wakeups are not fair: nothing
makes one happen. `DeadlinePasses` is weakly fair: time passes. In
`BenchmarkRun`, `Fault` and `Refault` have no fairness: nothing makes a thread
fault. `RandomNumbers`
and `CustomResults` have weak fairness for each thread; `Tick` has none, the
threads end whether time passes or not. `BenchmarkSuite` and `Startup` state no
liveness: their loops are bounded by their lists.

## 6. What is proved

Every invariant and every action property that a passing run checks is also a
theorem of the specification, for all values of the constants: any number of
threads, chunks, partitions, benchmarks and operations, any sizes, machines,
command lines and documents. The instances of section 3 are there to find the
mistakes; the theorems say that no larger instance has another one.

### Assumptions

Counts are naturals, positive where the code divides by them. The named ASSUMEs
say what `validate`, the YAML library and the machine give:

- `LayoutAssumption`: sizes and counts are naturals, modes and distributions are
  those of the enums; what `validate` accepts is a definition of the module (`Valid`), and
  not assumed.
- `SuitesAssumption`: entries have lists of configurations; each reads, writes
  or does both.
- `JobsAssumption`: chains are any sequences of operations, valid or not; an
  `IoOperation` has a
  power of two as its size, at least 64 bytes, and whole-line addresses, which is
  what `validate` and `ChunkLayout` give. `OperationsAssumption`: partitions are
  whole lines and shorter than the address space.
- `MachinesAssumption`: finitely many nodes, CPUs are on nodes, nodes only are
  far from each other, and none from itself. `CommandLinesAssumption`: types only.
- `DocumentsAssumption`: single benchmarks come before parallel ones, which come
  in pairs; each scalar of a loaded file has data of its own, unless it is an
  alias.
- `RandValAssumption`: m % a < m \div a, and a * v is not 0 modulo m for any v
  below m, which is all that m's being a prime is needed for. `TableAssumption`:
  the tables of `zipf` grow from 0 to 1.

TLC evaluates all of them in the runs.

### The arguments

Hardly any of the properties is inductive as it stands. Each component has an
invariant of named parts that is; a proof has one lemma per action or part, and
the property follows from the invariant in a theorem of its own. The invariants
that stand in the components' modules were model-checked before they were
proved: `IndInv` of `BenchmarkExecution` and `RunInv` stay in runs; the others
were checked on the instances of `Custom.cfg`, `Suite.cfg`, `Chains.cfg` and
`Startup.cfg` and need only be added to these files. Small ones that only the
proofs need (`CounterInv`, `LayoutInv`, `Suited`) are in the proof modules.

- `OperatorProofs`. The sums of `Arithmetic` are folds of the community modules,
  and a fold is a CHOOSE of a recursive function. That such a function exists is
  proved by well-founded induction over finite sets, with the partial sums as a
  set of functions (so that no operator has to be passed to the induction).
  Everything else (`SumUpdate`, `SumRemove`, `SumAgree`, `SumMonotonic`, the same
  for products, powers of two, and what `FlattenSeq` contains and in which
  order) takes a least counterexample.
- `BenchmarkExecutionProofs`. `IndInv` adds who holds the mutex (`LockInv`), that
  `threads_remaining` counts the threads that have not counted down
  (`CountInv`), which slots are filled (`GenerationInv`), that the threads
  beyond the barrier have seen zero (`BarrierInv`), what has become of the
  positions below `io_position` (`WorkInv`), how often each chunk was started in
  a timed benchmark (`RoundsInv`), and who has counted it (`ResultInv`). The
  arithmetic is in the lemmas on `InsertPos`: positions of different threads and
  chunks differ (division with remainder is unique), are in bounds, and reach
  every slot, so that "all threads have generated" means "no slot is empty".
  `BarrierSafe`, `WakeupSafe`, `GenerationRaceFree` (an action property),
  `StealingExactlyOnce` and `SizesAddUp` follow. `ImplementsPoolSafety` is the
  refinement: under the mapping of `Pool`, a claim is a `Take` of a chunk that no
  other was taken less often than (that is what `WorkInv` and `RoundsInv` are
  for), a `RunChunk` a `Complete`, the last `CountDown` is `Open`, and all other
  steps are stutters.
- `ChunkLayoutProofs`. `LayoutInv` says which threads have generated what; the
  rest is arithmetic about any accepted configuration. The extra chunks of a
  division go to the first threads, so that a partition's threads leave their
  partition; `AccessesInMemory` holds because a later partition, or the rest of
  the range, absorbs them (`ChunkFits`). For random values it takes the condition
  of the property: `RegularAddresses` shows that the table is then one for the
  range at hand, whichever operation was the thread's first. `OperationsGenerated` counts chunks by
  their positions, a bijection with threads and their chunks. `RangeCovered`
  takes the same positions in ascending order, in all partitions, and finds for
  each location the one chunk and the one operation that accesses it. For
  `DataGenerated`, all addresses are whole lines since accesses are powers of
  two, and the lines of the eight generating threads are disjoint.
- `CustomExecutionProofs`. `CounterInv`: below zero, the counter has been
  decremented once by each of as many threads that have stopped (`CounterSafe`).
  `IndInv`: the operations of the chunks drawn and of those still in the counter
  add up to all (`DrawnInv`), and each thread's samples are those of the chunks
  it has run (`SamplesInv`), from which `OperationsExecuted`, `SizesAddUp` and
  `SamplesOfChunks` follow. `TimedInv` orders the readings of the clock in
  `CustomResults`: a thread's samples lie between its start and its end without
  overlapping. `ThroughputRelates` follows with the arithmetic of fractions
  (`RatesAddUp`): sums over threads, each scaled by the product of the other
  threads' durations.
- `BenchmarkSuiteProofs`. `Suited` describes the list of benchmarks: which entry
  each comes from, with which files (`BenchmarksPlaced`), by what `FlattenSeq`
  contains. Two benchmarks with one file belong to the same entry and only read
  (`WritersAlone`). `LoopInv` and `NamesInv` say what the loop has written and
  what it still holds (`NoResultLost`, `ResultsGrouped`, `NothingStaysMapped`);
  `FilesInv` says by whom each file was created, and that it is in use or was
  left behind by a matrix (`ReadersServed`, `CleanedUp`).
- `OperationsProofs`. `AddressInv`: in a chain the address is that of the latest
  read plus the offsets since, in the same memory, because `validate` accepted
  the chain (`WritesAfterReads`, `AccessesInPartition`). `LinesInv`: with
  accesses of whole lines only the lines asked for are touched; what an
  operation promises to persist is flushed and fenced (`WritesPersisted`), the
  unrolled sizes and the loops for larger ones alike.
- `RandomNumbersProofs`. The invariant has a part for the generator, with x and
  every loaded value in 1 .. m - 1, and one for the search: the interval
  `low .. high` has not lost the draw (what is below `low` sums up to less than
  z, what is above `high` to at least z), which takes monotonic tables. The lemma
  `Schrage` shows `rand_val(v) = (a * v) % m` by uniqueness of the remainder.
  `GeneratorSound` and `InversionSound` follow.
- `MainProofs` has four parts.
  - `PlacementInv`: once `init_numa` has returned, main keeps its binding, and
    far configurations are created only if far nodes were found. `PlacedInv`:
    threads that are ready are where their configuration puts them with main's
    binding, and those that are not still have that binding. Hence `NearPlaced`
    and `FarPlaced`; that the detected nodes are the near ones, on machines with
    gaps too, is `NearNodeExists`.
  - `RecursionInv` (`RecursionInvariance`): the matrix recursion is at some choice
    of values; the configurations created so far are those of the choices that
    come before it, in this order (`EnumerationInv`), although all were written
    into one shared map (`EntriesInv`, `ValuesInv`: an option has the value
    chosen at its last level, and a deeper level may still have that of an
    earlier combination). The order of the choices is lexicographic, the position
    of a choice the number of choices before it. Hence `MatrixExpanded`.
  - `KeysInv`: a map is decoded without an error only if it has as many entries
    as options were found in it or all its entries were read, and everything
    that carries a tag was decoded with earlier arguments (`VisitedInv`). Hence
    `EntriesAccounted`.
  - `RunInv` relates `next` to the threads of a run: all before it are joined,
    or all from it on are not yet spawned, and `thread_error` is set exactly if
    a thread is faulting, before the barrier or behind it. Hence `RunSuccessSound`.

Three proofs did not go through at first, and the model or the property changed.
`MatrixIsProduct` claimed too much about matrices with unknown keys, and
`CoversRange` did not exclude partitions that do not fill the range (section 3,
what the properties exclude). `decode` was modelled as comparing the identity of
nodes where it compares the tags of their data, which differs for matrix values
that are aliases; documents of `startup` have this case now.

### Only model-checked

Liveness (`Termination`, `FaultFreeCompletes`, `FaultStopsRun`,
`EveryCallReturns`, and the fairness of `ImplementsPool`), which takes ENABLED and
is beyond the prover. The findings are counterexamples of TLC.

## 7. What is not modelled

- Builds without AVX-512, CLWB or CLFLUSHOPT, in which the operations that
  need them do nothing. Builds that read `rand_val`'s variable twice in a call.
- The conversion of YAML text to numbers, sizes with suffixes and enums: none
  of the properties distinguishes more than their values. The search for config
  files and the name of the result file: they run once, alone, on the file
  system. Option parsing is done by CLI11; that it rejects options which exclude
  each other is assumed in `Startup`.
- `lehmer64` and its seed: a multiplication modulo 2^128 of thread-local state,
  which every model lets return any number.
- The rounding of `zipf`'s doubles: a table of the model ends in exactly 1. If
  the rounded sums ended below the largest draw, 1 - 2^-31, that draw would leave
  the value unassigned like one beyond the range.
- `is_hybrid`, by which the factory names hybrid benchmarks: a single benchmark
  takes `contains_dram_op()` (`benchmark_factory.cpp:51`), one of a matrix or of
  a parallel benchmark `dram_operation_ratio > 0` (lines 150 and 177), which
  differ for custom operations: only the settings that a result reports depend on it.
- The statistics over raw results (the formulas of custom results over bytes),
  standard deviations and the latency histogram of the HdrHistogram library.
- `prefault_file` writes each page once and changes no content that is read.
- `src/viz` only reads finished results.
- Inside the models: where threads interleave, a chunk and an operation chain
  are atomic; reading a clock is a step of its own in `CustomResults` only; what
  threads do with destroyed executions is a fault or an ordinary step.

## 8. Plan

Done: execution and its abstraction (the core: all threads, all shared state),
layout, run, custom operations and their results, suite, operations, random
numbers, configurations, NUMA placement and main.

All invariants and action properties of the passing runs are proved, and the
safety part of the refinement. To do:

1. The clock readings of raw benchmarks, as `CustomResults` has them for custom
   ones.
2. The composition of `BenchmarkRun` with the executions as a refinement: its
   `ThreadGoes` and `FinishThread` as what `Step` of `BenchmarkExecution` does to
   a thread's phase.
3. For the liveness properties, their safety parts as theorems: that some step
   of `BenchmarkExecution` and `CustomExecution` is possible until all threads
   are done, without ENABLED.

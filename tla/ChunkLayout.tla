------------------------------ MODULE ChunkLayout ------------------------------
(***************************************************************************)
(* Which addresses a raw-operation benchmark accesses: the checks a        *)
(* configuration passes (BenchmarkConfig::validate), how single_set_up     *)
(* divides the memory range into partitions and the work into chunks, and  *)
(* how each thread's generation loop turns chunks into addresses           *)
(* (Benchmark::run_in_thread).  Addresses are byte offsets from the start  *)
(* of the PMem or DRAM mapping; the order in which threads generate does   *)
(* not matter here (BenchmarkExecution shows it), so they take turns.      *)
(***************************************************************************)
EXTENDS Integers, Arithmetic

CONSTANTS Configs,       \* the configurations under consideration
          CountModulus,  \* 2^32: the accesses in a partition are a uint32_t
          IntMax         \* the largest int, the type of zipf's result

ASSUME LayoutAssumption ==
  /\ CountModulus \in Nat \ {0} /\ IntMax \in Nat
  /\ \A c \in Configs :
       /\ {c.access_size, c.min_io_chunk_size, c.memory_range, c.number_threads,
           c.number_partitions, c.number_operations, c.dram_memory_range} \subseteq Nat
       /\ c.exec_mode \in {"Sequential", "Sequential_Desc", "Random"}
       /\ c.random_distribution \in {"Uniform", "Zipf"}
       /\ c.dram_operation_ratio \in {"none", "some", "all"}

VARIABLES config,   \* the benchmark's BenchmarkConfig
          thread,   \* the next thread to generate its chunks
          io_ops    \* operations generated so far, over all chunks

vars == <<config, thread, io_ops>>

-----------------------------------------------------------------------------
(* BenchmarkConfig::validate, as far as it concerns sizes and counts.  Of  *)
(* dram_operation_ratio only none, some and all matter.                    *)

IsRandom(c) == c.exec_mode = "Random"

PartitionDivisor(c) ==
  IF c.number_partitions = 0 THEN c.number_threads ELSE c.number_partitions

SizesValid(c) ==
  /\ c.access_size >= 64 /\ c.access_size \in PowersOfTwo
  /\ c.memory_range % c.access_size = 0
  /\ c.dram_memory_range % c.access_size = 0
  /\ c.dram_operation_ratio # "none" => IsRandom(c) /\ c.dram_memory_range > 0
  /\ c.min_io_chunk_size >= 64 /\ c.min_io_chunk_size \in PowersOfTwo

PartitionsValid(c) ==
  /\ c.number_threads > 0
  /\ c.number_partitions = 0 \/ c.number_threads % c.number_partitions = 0
  /\ (c.memory_range \div PartitionDivisor(c)) % c.access_size = 0
  /\ (c.dram_memory_range \div PartitionDivisor(c)) % c.access_size = 0

WorkValid(c) ==
  /\ IsRandom(c) => c.number_operations >
                      (c.min_io_chunk_size \div c.access_size) * c.number_threads
  /\ c.memory_range % c.min_io_chunk_size = 0
  /\ \/ c.memory_range \div c.number_threads >= c.min_io_chunk_size
     \/ c.dram_operation_ratio = "all"

Valid(c) == SizesValid(c) /\ PartitionsValid(c) /\ WorkValid(c)

-----------------------------------------------------------------------------
(* Benchmark::single_set_up.                                               *)

num_operations(c) == IF IsRandom(c) THEN c.number_operations
                     ELSE c.memory_range \div c.access_size

num_partitions(c) == PartitionDivisor(c)
num_threads_per_partition(c) == c.number_threads \div num_partitions(c)
partition_size(c) == c.memory_range \div num_partitions(c)
dram_partition_size(c) == c.dram_memory_range \div num_partitions(c)

ops_per_chunk(c) == IF c.access_size < c.min_io_chunk_size
                    THEN c.min_io_chunk_size \div c.access_size ELSE 1

(* Defect: random operations that do not fill a chunk are dropped          *)
NumChunksRoundedDown(c) == num_operations(c) \div ops_per_chunk(c)

(* A chunk is added for a rest of random operations; in sequential modes   *)
(* it would exceed the memory range.                                       *)
num_chunks(c) ==
  (num_operations(c) \div ops_per_chunk(c))
    + (IF IsRandom(c) /\ num_operations(c) % ops_per_chunk(c) # 0 THEN 1 ELSE 0)

PartitionOf(c, t) == t \div num_threads_per_partition(c)

(* Defect: descending partitions start at their end, not one access before *)
PartitionStartAtEnd(c, t) ==
  IF c.exec_mode = "Sequential_Desc"
  THEN (num_partitions(c) - PartitionOf(c, t)) * partition_size(c)
  ELSE PartitionOf(c, t) * partition_size(c)

partition_start(c, t) ==
  IF c.exec_mode = "Sequential_Desc"
  THEN (num_partitions(c) - PartitionOf(c, t)) * partition_size(c) - c.access_size
  ELSE PartitionOf(c, t) * partition_size(c)

dram_partition_start(c, t) == PartitionOf(c, t) * partition_size(c)

-----------------------------------------------------------------------------
(* The generation loop of Benchmark::run_in_thread.                        *)

num_chunks_per_thread(c, t) ==
  (num_chunks(c) \div c.number_threads)
    + (IF t < num_chunks(c) % c.number_threads THEN 1 ELSE 0)

(* Defect: the threads of a partition do not take turns chunk by chunk     *)
ThreadChunkOffsetUnscaled(c, t, k) ==
  (k + (t % num_threads_per_partition(c))) * c.min_io_chunk_size

(* offset after k chunks of all threads + offset of this thread's chunk    *)
thread_chunk_offset(c, t, k) ==
  k * num_threads_per_partition(c) * c.min_io_chunk_size
    + (t % num_threads_per_partition(c)) * c.min_io_chunk_size

(* The address of operation i of chunk k in the sequential modes           *)
op_address(c, t, k, i) ==
  IF c.exec_mode = "Sequential_Desc"
  THEN partition_start(c, t) - thread_chunk_offset(c, t, k) - i * c.access_size
  ELSE partition_start(c, t) + thread_chunk_offset(c, t, k) + i * c.access_size

(* The memory an operation may address: dram_target_distribution decides   *)
(* per operation, always for DRAM at a ratio of 1.                         *)
Targets(c) == CASE c.dram_operation_ratio = "none" -> {"pmem"}
                [] c.dram_operation_ratio = "some" -> {"pmem", "dram"}
                [] OTHER -> {"dram"}

num_accesses(c, size) == (size \div c.access_size) % CountModulus

accesses_in_range(c, target) ==
  num_accesses(c, IF target = "pmem" THEN partition_size(c) ELSE dram_partition_size(c))

(* zipf searches the table that the thread's first call built.  It finds a *)
(* number below size if the table is one for size and its indices can be   *)
(* added.                                                                  *)
ZipfInRange(size, table) == table = size /\ size # 0 /\ 2 * size <= IntMax

(* Otherwise zipf_value may stay unassigned, or is found outside of the    *)
(* table: any int.  A converted negative one wraps around with the address.*)
RandomValues(c, target, first) ==
  LET size == accesses_in_range(c, target)
  IN IF c.random_distribution = "Zipf" /\ ~ZipfInRange(size, accesses_in_range(c, first))
     THEN -IntMax - 1 .. IntMax
     ELSE 0 .. size - 1

(* The targets one of which the thread's first operation had               *)
FirstTargets(c, slot, target) == IF slot = <<0, 0>> THEN {target} ELSE Targets(c)

RandomAddresses(c, t, slot, target) ==
  LET start == IF target = "pmem" THEN partition_start(c, t) ELSE dram_partition_start(c, t)
  IN {start + v * c.access_size :
        v \in UNION {RandomValues(c, target, first) : first \in FirstTargets(c, slot, target)}}

(* A random value modulo zero ends the program.                            *)
Traps(c) ==
  /\ IsRandom(c) /\ c.random_distribution = "Uniform"
  /\ \E target \in Targets(c) : accesses_in_range(c, target) = 0

(* So may a search outside of the table.                                   *)
MayFault(c) ==
  /\ IsRandom(c) /\ c.random_distribution = "Zipf"
  /\ \E target, first \in Targets(c) :
       \/ accesses_in_range(c, target) > accesses_in_range(c, first)
       \/ 2 * accesses_in_range(c, target) > IntMax

(* An operation with the addresses it may be given                         *)
IoOp(t, k, i, target, addresses) ==
  [thread |-> t, chunk |-> k, op |-> i, target |-> target, addresses |-> addresses]

OpsOfThread(c, t) ==
  LET Slots == (0 .. num_chunks_per_thread(c, t) - 1) \X (0 .. ops_per_chunk(c) - 1)
  IN IF IsRandom(c)
     THEN {IoOp(t, s[1], s[2], target, RandomAddresses(c, t, s, target)) :
             s \in Slots, target \in Targets(c)}
     ELSE {IoOp(t, s[1], s[2], "pmem", {op_address(c, t, s[1], s[2])}) : s \in Slots}

-----------------------------------------------------------------------------
(* The data that a reading benchmark finds: utils::generate_read_data      *)
(* divides the range among its threads before the benchmark starts.        *)

CACHE_LINE_SIZE == 64
NUM_UTIL_THREADS == 8

(* rw_ops::write_data stores whole lines; a store must be aligned.         *)
write_data(from, to) ==
  {from + n * CACHE_LINE_SIZE : n \in 0 .. (to - from - 1) \div CACHE_LINE_SIZE}

(* Defect: the calling thread does not take a share                        *)
GenerateInPool(memory_range) ==
  LET share == memory_range \div NUM_UTIL_THREADS
  IN [i \in 1 .. NUM_UTIL_THREADS - 1 |-> write_data((i - 1) * share, i * share)]

(* The lines that each thread stores: the last one also takes the rest.    *)
generate_read_data(memory_range) ==
  LET share == memory_range \div NUM_UTIL_THREADS
  IN [i \in 1 .. NUM_UTIL_THREADS |->
        write_data((i - 1) * share,
                   IF i = NUM_UTIL_THREADS THEN memory_range ELSE i * share)]

-----------------------------------------------------------------------------
Init == /\ config \in {c \in Configs : Valid(c)}
        /\ thread = 0
        /\ io_ops = {}

GenerateThread == /\ thread < config.number_threads
                  /\ ~Traps(config)
                  /\ io_ops' = io_ops \cup OpsOfThread(config, thread)
                  /\ thread' = thread + 1
                  /\ UNCHANGED config

Generated == thread = config.number_threads

Ended == (Generated \/ Traps(config) \/ MayFault(config)) /\ UNCHANGED vars

Next == GenerateThread \/ Ended

Spec == Init /\ [][Next]_vars

-----------------------------------------------------------------------------
(* Properties.                                                             *)

Within(o, size) ==
  \A a \in o.addresses : 0 <= a /\ a + config.access_size <= size

(* zipf draws from the range it is asked for: all ranges of the benchmark  *)
(* have the same number of accesses, not zero and at most half of an int.  *)
(* A hybrid benchmark whose PMem and DRAM partitions differ in size is not *)
(* among these (utils.cpp:148): its addresses can be anywhere.             *)
ZipfRegular(c) ==
  c.random_distribution = "Zipf" =>
    \A target, first \in Targets(c) :
      ZipfInRange(accesses_in_range(c, target), accesses_in_range(c, first))

RegularNumbers == IsRandom(config) => ZipfRegular(config)

(* No configuration that validate accepts accesses PMem outside of its     *)
(* memory range, whatever the partitions, the rest of the chunk division   *)
(* and the ratio of access size and chunk size, provided that a random     *)
(* one's numbers are uniform or ZipfRegular.                               *)
AccessesInMemoryRange ==
  RegularNumbers => \A o \in io_ops : o.target = "pmem" => Within(o, config.memory_range)

(* A random benchmark performs at least number_operations operations, and  *)
(* never a whole chunk too many.                                           *)
EnoughOperations ==
  Generated /\ IsRandom(config) =>
    LET performed == Cardinality({<<o.thread, o.chunk, o.op>> : o \in io_ops})
    IN /\ performed >= config.number_operations
       /\ performed < config.number_operations + ops_per_chunk(config)

Accessed(a) == {o \in io_ops : a \in o.addresses}

SequentialCovers ==
  (/\ config.access_size <= config.min_io_chunk_size
   /\ \/ num_partitions(config) = 1
      \/ num_chunks(config) % config.number_threads = 0)
  => \A n \in 0 .. config.memory_range \div config.access_size - 1 :
       Cardinality(Accessed(n * config.access_size)) = 1

RandomCovers ==
  (/\ config.random_distribution = "Uniform"
   /\ "pmem" \in Targets(config)
   /\ config.memory_range % num_partitions(config) = 0
   /\ partition_size(config) < CountModulus * config.access_size
   /\ num_chunks(config) >= config.number_threads)
  => \A n \in 0 .. config.memory_range \div config.access_size - 1 :
       Accessed(n * config.access_size) # {}

(* No part of the memory range is forgotten.  A sequential benchmark       *)
(* accesses every location exactly once, provided that accesses fit into   *)
(* chunks and that the chunks divide evenly among the threads or there is  *)
(* one partition; otherwise the first partitions get the extra chunks      *)
(* (benchmark.cpp:275).  A uniform one may access every location, provided *)
(* that the partitions fill the memory range (validate only asks that each *)
(* is a multiple of the access size), that there is a chunk for each       *)
(* thread, and that the number of locations in a partition has 32 bits.    *)
(* The rare numbers of zipf may be narrower than the steps of rand_val.    *)
CoversRange ==
  Generated => IF IsRandom(config) THEN RandomCovers ELSE SequentialCovers

LinesOf(address) == write_data(address, address + config.access_size)

(* utils.cpp:101: all that a benchmark reads has been generated, each line *)
(* by one thread, although the two divide the range differently.  This     *)
(* takes a range of whole lines for each of the eight threads; validate    *)
(* accepts others, with which the stores are unaligned and trap.  And it   *)
(* takes uniform or ZipfRegular numbers if the benchmark is random.        *)
ReadsGeneratedData ==
  config.memory_range % (NUM_UTIL_THREADS * CACHE_LINE_SIZE) = 0 =>
    LET data == generate_read_data(config.memory_range)
    IN /\ \A i \in DOMAIN data : \A line \in data[i] :
            /\ line % CACHE_LINE_SIZE = 0
            /\ \A j \in DOMAIN data \ {i} : line \notin data[j]
       /\ RegularNumbers => \A o \in io_ops : o.target = "pmem" =>
            \A address \in o.addresses : LinesOf(address) \subseteq UNION Range(data)

(* benchmark_config.hpp:79: DRAM operations use the DRAM memory range.     *)
DramAccessesInRange ==
  \A o \in io_ops : o.target = "dram" => Within(o, config.dram_memory_range)
=============================================================================

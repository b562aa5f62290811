---------------------------- MODULE MCChunkLayout ----------------------------
(* Bounded configurations for ChunkLayout.  Sizes are bytes, at the scale   *)
(* of cache lines; the code's limits (64 bytes, powers of two) are real.    *)
EXTENDS ChunkLayout

(* Sequential configurations of up to six threads over up to 1.25 KiB, and *)
(* random ones of up to four threads, with and without DRAM.               *)
SmallConfigs ==
  [access_size : {64, 128, 256},
   min_io_chunk_size : {64, 128, 256},
   memory_range : {64 * n : n \in 1 .. 20},
   number_threads : 1 .. 6,
   number_partitions : {0, 1, 2, 3, 6},
   exec_mode : {"Sequential", "Sequential_Desc"},
   random_distribution : {"Uniform"},
   number_operations : {0},
   dram_memory_range : {0},
   dram_operation_ratio : {"none"}]
  \cup
  [access_size : {64, 128, 256},
   min_io_chunk_size : {64, 256},
   memory_range : {256, 512, 768, 1024},
   number_threads : 1 .. 4,
   number_partitions : 0 .. 4,
   exec_mode : {"Random"},
   random_distribution : {"Uniform", "Zipf"},
   number_operations : {5, 9, 18},
   dram_memory_range : {0, 256, 512},
   dram_operation_ratio : {"none", "some", "all"}]

(* Two partitions, less DRAM than PMem.                                    *)
HybridPartitions ==
  [access_size : {64}, min_io_chunk_size : {64}, memory_range : {512},
   number_threads : {2}, number_partitions : {2}, exec_mode : {"Random"},
   random_distribution : {"Uniform"}, number_operations : {5}, dram_memory_range : {128, 256},
   dram_operation_ratio : {"some"}]
=============================================================================

--------------------------- MODULE ChunkLayoutProofs ---------------------------
(***************************************************************************)
(* Proofs about ChunkLayout, for every configuration that validate         *)
(* accepts: any sizes, threads and partitions.                             *)
(***************************************************************************)
EXTENDS ChunkLayout, OperatorProofs, FunctionTheorems

-----------------------------------------------------------------------------
(* Partitions.                                                             *)

(* The chunk k of the thread r of the partition P, in units of u bytes, is *)
(* no further from the start of the partition than the end of the memory.  *)
LEMMA ChunkFits ==
  ASSUME NEW np \in Nat \ {0}, NEW tpp \in Nat \ {0}, NEW u \in Nat \ {0},
         NEW P \in 0 .. np - 1, NEW r \in 0 .. tpp - 1, NEW k \in Nat,
         NEW psize \in Nat, NEW mem \in Nat, NEW chunks \in Nat,
         np * psize <= mem, mem < np * psize + np,
         tpp * u <= psize \/ P = np - 1,
         chunks * u <= mem, k * (np * tpp) + P * tpp + r + 1 <= chunks
  PROVE  (k * tpp + r + 1) * u <= (np - P) * psize
<1> DEFINE A == (k * tpp) * u
           B == (r + 1) * u
           C == tpp * u
           d == np - P
<1>1. /\ A \in Nat /\ B \in Nat /\ C \in Nat /\ d \in 1 .. np /\ P \in Nat
      /\ B <= C
  <2>1. k * tpp \in Nat /\ r + 1 \in Nat /\ r + 1 <= tpp
    OBVIOUS
  <2> QED  BY <2>1, TimesMonotonic
<1>2. np * A + P * C + B <= mem
  <2>1. /\ k * (np * tpp) \in Nat /\ P * tpp \in Nat /\ r + 1 \in Nat
        /\ k * (np * tpp) + P * tpp + r + 1 \in Nat
    OBVIOUS
  <2>2. (k * (np * tpp) + P * tpp + r + 1) * u <= chunks * u
    BY <2>1, TimesMonotonic
  <2>3. (k * (np * tpp) + P * tpp + (r + 1)) * u
          = (k * (np * tpp)) * u + (P * tpp) * u + (r + 1) * u
    BY <2>1
  <2>4. (k * (np * tpp)) * u = np * A /\ (P * tpp) * u = P * C
    OBVIOUS
  <2>5. k * (np * tpp) + P * tpp + r + 1 = k * (np * tpp) + P * tpp + (r + 1)
    BY <2>1
  <2>6. chunks * u \in Nat /\ np * A \in Nat /\ P * C \in Nat
    BY <1>1
  <2> HIDE DEF A, C
  <2> QED  BY <1>1, <2>2, <2>3, <2>4, <2>5, <2>6
<1>3. (k * tpp + r + 1) * u = A + B
  OBVIOUS
<1>4. P = np - d
  OBVIOUS
<1> HIDE DEF A, B, C, d
<1>5. np * (A + B) <= mem + (d - 1) * C
  <2>1. (np - 1) * B <= (np - 1) * C
    BY <1>1, TimesMonotonic
  <2>2. (np - 1) * B = np * B - B /\ (np - 1) * C = np * C - C
    BY <1>1
  <2>3. P * C = np * C - d * C /\ (d - 1) * C = d * C - C
    BY <1>1, <1>4
  <2>4. np * (A + B) = np * A + np * B
    BY <1>1
  <2>5. np * A \in Nat /\ np * B \in Nat /\ np * C \in Nat /\ d * C \in Nat
    BY <1>1
  <2> QED  BY <1>1, <1>2, <2>1, <2>2, <2>3, <2>4, <2>5
<1>6. (d - 1) * C <= (d - 1) * psize
  <2>1. CASE C <= psize
    BY <1>1, <2>1, TimesMonotonic
  <2>2. CASE P = np - 1
    <3>1. d - 1 = 0
      BY <1>1, <1>4, <2>2
    <3> QED  BY <1>1, <3>1
  <2> QED  BY <2>1, <2>2 DEF C
<1>7. np * psize + (d - 1) * psize <= np * (d * psize)
  <2>1. np + (d - 1) <= np * d
    <3>1. (np - 1) * (d - 1) \in Nat
      BY <1>1
    <3>2. (np - 1) * (d - 1) = np * d - np - (d - 1)
      BY <1>1
    <3>3. np * d \in Nat
      BY <1>1
    <3> QED  BY <1>1, <3>1, <3>2, <3>3
  <2>2. (np + (d - 1)) * psize <= (np * d) * psize
    BY <1>1, <2>1, TimesMonotonic
  <2>3. (np + (d - 1)) * psize = np * psize + (d - 1) * psize
    BY <1>1
  <2>4. (np * d) * psize = np * (d * psize)
    BY <1>1
  <2> QED  BY <2>2, <2>3, <2>4
<1>8. A + B <= d * psize
  <2> DEFINE e == mem - np * psize
  <2>1. /\ e \in 0 .. np - 1 /\ mem = np * psize + e /\ np * psize \in Nat
        /\ (d - 1) * psize \in Nat /\ (d - 1) * C \in Nat
        /\ np * (d * psize) \in Nat /\ np * (A + B) \in Nat
    BY <1>1
  <2> HIDE DEF e
  <2>2. np * (A + B) <= np * (d * psize) + e
    BY <1>5, <1>6, <1>7, <2>1
  <2>3. A + B \in Nat /\ d * psize \in Nat
    BY <1>1
  <2> QED  BY <2>1, <2>2, <2>3, TimesCancel
<1> QED  BY <1>3, <1>8 DEF d

-----------------------------------------------------------------------------
(* A valid configuration.                                                  *)

(* What validate asks of the sizes and counts.                             *)
LEMMA SizesOfValid ==
  ASSUME NEW c \in Configs, Valid(c)
  PROVE  /\ c.access_size \in Nat \ {0} /\ c.min_io_chunk_size \in Nat \ {0}
         /\ c.access_size \in PowersOfTwo /\ c.min_io_chunk_size \in PowersOfTwo
         /\ c.memory_range \in Nat /\ c.number_operations \in Nat
         /\ c.number_threads \in Nat \ {0}
         /\ c.memory_range % c.access_size = 0
BY LayoutAssumption DEF Valid, SizesValid, PartitionsValid

(* The threads divide evenly among the partitions; less bytes than there   *)
(* are partitions are left over.                                           *)
LEMMA PartitionsOfValid ==
  ASSUME NEW c \in Configs, Valid(c)
  PROVE  /\ num_partitions(c) \in Nat \ {0}
         /\ num_threads_per_partition(c) \in Nat \ {0}
         /\ c.number_threads = num_partitions(c) * num_threads_per_partition(c)
         /\ partition_size(c) \in Nat /\ partition_size(c) % c.access_size = 0
         /\ num_partitions(c) * partition_size(c) <= c.memory_range
         /\ c.memory_range < num_partitions(c) * partition_size(c) + num_partitions(c)
<1> DEFINE np == num_partitions(c)
           T == c.number_threads
           mem == c.memory_range
<1>1. /\ T \in Nat \ {0} /\ mem \in Nat /\ np \in Nat \ {0}
      /\ np = T \/ T % np = 0
      /\ (mem \div np) % c.access_size = 0
  BY SizesOfValid, LayoutAssumption
     DEF Valid, PartitionsValid, num_partitions, PartitionDivisor
<1>2. partition_size(c) = mem \div np /\ num_threads_per_partition(c) = T \div np
  BY DEF partition_size, num_threads_per_partition
<1> HIDE DEF np, T, mem
<1>3. /\ mem \div np \in Nat /\ mem % np \in 0 .. np - 1
      /\ mem = np * (mem \div np) + (mem % np) /\ np * (mem \div np) <= mem
  BY <1>1, DivModNat
<1>4. T \div np \in Nat \ {0} /\ T = np * (T \div np)
  <2>1. T \div np \in Nat /\ T = np * (T \div np) + (T % np)
    BY <1>1, DivModNat
  <2>2. T % np = 0
    BY <1>1
  <2>3. T = np * (T \div np)
    BY <1>1, <2>1, <2>2
  <2>4. T \div np # 0
    BY <1>1, <2>3
  <2> QED  BY <2>1, <2>3, <2>4
<1>5. np * (mem \div np) \in Nat
  BY <1>1, <1>3
<1> QED  BY <1>1, <1>2, <1>3, <1>4, <1>5 DEF np, T, mem

(* There are enough chunks for all operations.                             *)
LEMMA ChunksOfValid ==
  ASSUME NEW c \in Configs, Valid(c)
  PROVE  /\ num_operations(c) \in Nat /\ ops_per_chunk(c) \in Nat \ {0}
         /\ num_chunks(c) \in Nat
         /\ num_operations(c) \div ops_per_chunk(c) <= num_chunks(c)
<1>1. num_operations(c) \in Nat
  BY SizesOfValid, DivModNat DEF num_operations
<1>2. ops_per_chunk(c) \in Nat \ {0}
  <2> DEFINE a == c.access_size
             s == c.min_io_chunk_size
  <2>1. a \in Nat \ {0} /\ s \in Nat \ {0}
    BY SizesOfValid
  <2>2. ASSUME a < s PROVE s \div a \in Nat \ {0}
    <3> HIDE DEF a, s
    <3>1. s \div a \in Nat /\ s % a \in 0 .. a - 1 /\ s = a * (s \div a) + (s % a)
      BY <2>1, DivModNat
    <3>2. s \div a # 0
      BY <2>1, <2>2, <3>1
    <3> QED  BY <3>1, <3>2
  <2> QED  BY <2>1, <2>2 DEF ops_per_chunk
<1>3. num_operations(c) \div ops_per_chunk(c) \in Nat
  BY <1>1, <1>2, DivModNat
<1> QED  BY <1>1, <1>2, <1>3 DEF num_chunks

(* The place of a thread: a partition, and a turn within it.               *)
LEMMA PlaceOfThread ==
  ASSUME NEW c \in Configs, Valid(c), NEW t \in 0 .. c.number_threads - 1
  PROVE  /\ PartitionOf(c, t) \in 0 .. num_partitions(c) - 1
         /\ t % num_threads_per_partition(c) \in 0 .. num_threads_per_partition(c) - 1
         /\ t = PartitionOf(c, t) * num_threads_per_partition(c)
                  + (t % num_threads_per_partition(c))
<1> DEFINE np == num_partitions(c)
           tpp == num_threads_per_partition(c)
           P == PartitionOf(c, t)
<1>1. np \in Nat \ {0} /\ tpp \in Nat \ {0} /\ t \in Nat /\ t + 1 <= np * tpp
  BY PartitionsOfValid, SizesOfValid
<1>2. P = t \div tpp
  BY DEF PartitionOf
<1> HIDE DEF np, tpp, P
<1>3. P \in Nat /\ t % tpp \in 0 .. tpp - 1 /\ t = tpp * P + (t % tpp)
  BY <1>1, <1>2, DivModNat
<1>4. P < np
  <2> SUFFICES ASSUME np <= P PROVE FALSE
    BY <1>1, <1>3
  <2>1. tpp * np <= tpp * P
    BY <1>1, <1>3, TimesMonotonic
  <2>2. tpp * np = np * tpp
    BY <1>1
  <2>3. tpp * P \in Nat
    BY <1>1, <1>3
  <2> QED  BY <1>1, <1>3, <2>1, <2>2, <2>3
<1>5. tpp * P = P * tpp
  BY <1>1, <1>3
<1> QED  BY <1>1, <1>3, <1>4, <1>5 DEF np, tpp, P

(* The chunk that a thread counts is one of the num_chunks: the threads    *)
(* with the extra chunks take no more than there are.                      *)
LEMMA ChunkOfThread ==
  ASSUME NEW c \in Configs, Valid(c), NEW t \in 0 .. c.number_threads - 1,
         NEW k \in 0 .. num_chunks_per_thread(c, t) - 1
  PROVE  k \in Nat /\ k * c.number_threads + t + 1 <= num_chunks(c)
<1> DEFINE T == c.number_threads
           NC == num_chunks(c)
           q == NC \div T
           e == NC % T
<1>1. /\ T \in Nat \ {0} /\ NC \in Nat
      /\ k \in 0 .. (q + (IF t < e THEN 1 ELSE 0)) - 1 /\ t \in 0 .. T - 1
  BY SizesOfValid, ChunksOfValid DEF num_chunks_per_thread
<1>2. q \in Nat /\ e \in 0 .. T - 1 /\ NC = T * q + e
  BY <1>1, DivModNat
<1> HIDE DEF T, NC, q, e
<1>3. T * q = q * T /\ q * T \in Nat /\ k * T \in Nat
  BY <1>1, <1>2
<1>4. CASE t < e
  <2>1. k * T <= q * T
    BY <1>1, <1>2, <1>4, TimesMonotonic
  <2> QED  BY <1>1, <1>2, <1>3, <1>4, <2>1 DEF T, NC
<1>5. CASE ~(t < e)
  <2>1. k + 1 <= q
    BY <1>1, <1>2, <1>5
  <2>2. (k + 1) * T <= q * T
    BY <1>1, <1>2, <2>1, TimesMonotonic
  <2>3. (k + 1) * T = k * T + T
    BY <1>1, <1>2
  <2> QED  BY <1>1, <1>2, <1>3, <2>2, <2>3 DEF T, NC
<1> QED  BY <1>4, <1>5

-----------------------------------------------------------------------------
(* The sequential modes.                                                   *)

(* Every thread finds space for a chunk in its partition; this is what the *)
(* check of memory_range / number_threads in validate is for.              *)
LEMMA ThreadsFitPartition ==
  ASSUME NEW c \in Configs, Valid(c), ~IsRandom(c)
  PROVE  num_threads_per_partition(c) * c.min_io_chunk_size <= partition_size(c)
<1> DEFINE np == num_partitions(c)
           tpp == num_threads_per_partition(c)
           T == c.number_threads
           s == c.min_io_chunk_size
           mem == c.memory_range
           psize == partition_size(c)
           e == mem - np * psize
<1>1. /\ np \in Nat \ {0} /\ tpp \in Nat \ {0} /\ T \in Nat \ {0} /\ T = np * tpp
      /\ s \in Nat \ {0} /\ mem \in Nat /\ psize \in Nat
      /\ np * psize <= mem /\ mem < np * psize + np
  BY SizesOfValid, PartitionsOfValid
<1>2. s <= mem \div T
  BY DEF Valid, SizesValid, WorkValid
<1>3. e \in 0 .. np - 1 /\ mem = np * psize + e
  <2>1. np * psize \in Nat
    BY <1>1
  <2> QED  BY <1>1, <2>1
<1> HIDE DEF np, tpp, T, s, mem, psize, e
<1>4. T * s <= mem
  <2>1. mem \div T \in Nat /\ T * (mem \div T) <= mem
    BY <1>1, DivModNat
  <2>2. T * s <= T * (mem \div T) /\ T * s \in Nat
    BY <1>1, <1>2, <2>1, TimesMonotonic
  <2>3. T * (mem \div T) \in Nat
    BY <1>1, <2>1
  <2> QED  BY <1>1, <2>1, <2>2, <2>3
<1>5. T * s = np * (tpp * s) /\ tpp * s \in Nat
  BY <1>1
<1>6. np * (tpp * s) <= np * psize + e
  BY <1>3, <1>4, <1>5
<1>7. tpp * s <= psize
  BY <1>1, <1>3, <1>5, <1>6, TimesCancel
<1> QED  BY <1>7 DEF tpp, s, psize

(* The accesses of a chunk that is not smaller than an access fill it.     *)
LEMMA AccessesFillChunk ==
  ASSUME NEW c \in Configs, Valid(c), c.access_size < c.min_io_chunk_size
  PROVE  ops_per_chunk(c) * c.access_size = c.min_io_chunk_size
<1> DEFINE a == c.access_size
           s == c.min_io_chunk_size
<1>1. PICK f \in Nat \ {0} : s = f * a /\ a \in Nat \ {0}
  BY SizesOfValid, PowersDivide
<1>2. ops_per_chunk(c) = s \div a
  BY DEF ops_per_chunk
<1> HIDE DEF a, s
<1>3. s \div a = f
  BY <1>1
<1> QED  BY <1>1, <1>2, <1>3 DEF a, s

(* All chunks together do not exceed the memory range.                     *)
LEMMA ChunksFitMemory ==
  ASSUME NEW c \in Configs, Valid(c), ~IsRandom(c)
  PROVE  num_chunks(c) * (ops_per_chunk(c) * c.access_size) <= c.memory_range
<1> DEFINE a == c.access_size
           opc == ops_per_chunk(c)
           n == num_operations(c)
           mem == c.memory_range
<1>1. a \in Nat \ {0} /\ opc \in Nat \ {0} /\ n \in Nat /\ mem \in Nat
  BY SizesOfValid, ChunksOfValid
<1>2. num_chunks(c) = n \div opc /\ n = mem \div a
  BY <1>1, DivModNat DEF num_chunks, num_operations
<1> HIDE DEF a, opc, n, mem
<1>3. n \div opc \in Nat /\ opc * (n \div opc) <= n /\ a * n <= mem
  BY <1>1, <1>2, DivModNat
<1>4. /\ a * (opc * (n \div opc)) <= a * n
      /\ a * (opc * (n \div opc)) = (n \div opc) * (opc * a)
      /\ a * (opc * (n \div opc)) \in Nat /\ a * n \in Nat
  <2>1. opc * (n \div opc) \in Nat
    BY <1>1, <1>3
  <2>2. a * (opc * (n \div opc)) = (n \div opc) * (opc * a)
    BY <1>1, <1>3
  <2> QED  BY <1>1, <1>3, <2>1, <2>2, TimesMonotonic
<1>5. (n \div opc) * (opc * a) <= mem
  BY <1>1, <1>3, <1>4
<1> QED  BY <1>2, <1>5 DEF a, opc, mem

(* The end of the operation i of the chunk k, from the partition's start.  *)
EndOffset(c, t, k, i) == thread_chunk_offset(c, t, k) + i * c.access_size + c.access_size

(* A partition's last chunks may reach into the next partitions, but not   *)
(* out of the memory.                                                      *)
LEMMA OffsetInMemory ==
  ASSUME NEW c \in Configs, Valid(c), ~IsRandom(c),
         NEW t \in 0 .. c.number_threads - 1,
         NEW k \in 0 .. num_chunks_per_thread(c, t) - 1,
         NEW i \in 0 .. ops_per_chunk(c) - 1
  PROVE  /\ thread_chunk_offset(c, t, k) \in Nat
         /\ EndOffset(c, t, k, i)
              <= (num_partitions(c) - PartitionOf(c, t)) * partition_size(c)
<1> DEFINE np == num_partitions(c)
           tpp == num_threads_per_partition(c)
           P == PartitionOf(c, t)
           r == t % tpp
           a == c.access_size
           s == c.min_io_chunk_size
           mem == c.memory_range
           psize == partition_size(c)
           opc == ops_per_chunk(c)
           NC == num_chunks(c)
           d == np - P
           turn == k * tpp + r
<1>1. /\ np \in Nat \ {0} /\ tpp \in Nat \ {0} /\ a \in Nat \ {0} /\ s \in Nat \ {0}
      /\ P \in 0 .. np - 1 /\ r \in 0 .. tpp - 1 /\ t = P * tpp + r
      /\ mem \in Nat /\ psize \in Nat /\ psize % a = 0
      /\ np * psize <= mem /\ mem < np * psize + np
      /\ opc \in Nat \ {0} /\ NC \in Nat /\ k \in Nat /\ i \in 0 .. opc - 1
  BY SizesOfValid, PartitionsOfValid, PlaceOfThread, ChunksOfValid, ChunkOfThread
<1>2. k * (np * tpp) + P * tpp + r + 1 <= NC
  <2>1. k * c.number_threads + t + 1 <= NC /\ c.number_threads = np * tpp
    BY ChunkOfThread, PartitionsOfValid
  <2>2. k * (np * tpp) \in Nat /\ P * tpp \in Nat
    BY <1>1
  <2> HIDE DEF np, tpp, P, r, NC
  <2> QED  BY <1>1, <2>1, <2>2
<1>3. tpp * s <= psize
  BY ThreadsFitPartition
<1>4. thread_chunk_offset(c, t, k) = k * tpp * s + r * s
  BY DEF thread_chunk_offset
<1>5. NC * (opc * a) <= mem
  BY ChunksFitMemory
<1>6. a < s => opc * a = s
  BY AccessesFillChunk
<1>7. ~(a < s) => opc = 1
  BY DEF ops_per_chunk
<1>8. d \in 1 .. np /\ P = np - d
  BY <1>1
<1> HIDE DEF np, tpp, P, r, a, s, mem, psize, opc, NC, d
<1>9. /\ turn \in Nat /\ turn * s \in Nat /\ k * tpp * s + r * s = turn * s
      /\ i * a \in Nat /\ turn * a \in Nat
  <2>1. k * tpp \in Nat /\ turn \in Nat
    BY <1>1
  <2>2. (k * tpp + r) * s = k * tpp * s + r * s
    BY <1>1, <2>1
  <2>3. turn * s \in Nat /\ turn * a \in Nat
    BY <1>1, <2>1, TimesMonotonic
  <2> QED  BY <1>1, <2>1, <2>2, <2>3
<1>10. turn * s + i * a + a <= d * psize
  <2>1. CASE a < s
    <3>1. i * a + a <= s
      <4>1. (i + 1) * a <= opc * a /\ (i + 1) * a = i * a + a
        BY <1>1, TimesMonotonic
      <4> QED  BY <1>6, <2>1, <4>1
    <3>2. turn * s + s = (k * tpp + r + 1) * s
      <4>1. k * tpp \in Nat
        BY <1>1
      <4> QED  BY <1>1, <4>1
    <3>3. (k * tpp + r + 1) * s <= (np - P) * psize
      <4>1. NC * s <= mem
        BY <1>5, <1>6, <2>1
      <4> QED  BY <1>1, <1>2, <1>3, <4>1, ChunkFits
    <3>4. d * psize \in Nat /\ (np - P) * psize = d * psize
      BY <1>1, <1>8 DEF d
    <3> HIDE DEF turn
    <3> QED  BY <1>1, <1>9, <3>1, <3>2, <3>3, <3>4
  <2>2. CASE ~(a < s)
    <3>1. i = 0 /\ i * a = 0 /\ NC * a <= mem
      BY <1>1, <1>5, <1>7, <2>2
    <3>2. turn * s <= turn * a
      BY <1>1, <1>9, <2>2, TimesMonotonic
    <3>3. CASE tpp * a <= psize \/ P = np - 1
      <4>1. (k * tpp + r + 1) * a <= (np - P) * psize
        BY <1>1, <1>2, <3>1, <3>3, ChunkFits
      <4>2. turn * a + a = (k * tpp + r + 1) * a
        <5>1. k * tpp \in Nat
          BY <1>1
        <5> QED  BY <1>1, <5>1
      <4>3. d * psize \in Nat /\ (np - P) * psize = d * psize
        BY <1>1, <1>8 DEF d
      <4> HIDE DEF turn
      <4> QED  BY <1>1, <1>9, <3>1, <3>2, <4>1, <4>2, <4>3
    <3>4. CASE tpp * a > psize /\ P # np - 1
      <4>1. k = 0
        <5> SUFFICES ASSUME k >= 1 PROVE FALSE
          BY <1>1
        <5>1. k * (np * tpp) \in Nat /\ P * tpp \in Nat /\ np * tpp \in Nat
          BY <1>1
        <5>2. 1 * (np * tpp) <= k * (np * tpp)
          BY <1>1, <5>1, TimesMonotonic
        <5>3. np * tpp <= NC
          BY <1>1, <1>2, <5>1, <5>2
        <5>4. (np * tpp) * a <= NC * a /\ (np * tpp) * a = np * (tpp * a)
          BY <1>1, <5>1, <5>3, TimesMonotonic
        <5>5. tpp * a \in Nat /\ psize + 1 <= tpp * a
          BY <1>1, <3>4
        <5>6. np * (psize + 1) <= np * (tpp * a) /\ np * (psize + 1) = np * psize + np
          BY <1>1, <5>5, TimesMonotonic
        <5>7. /\ np * psize \in Nat /\ np * (tpp * a) \in Nat /\ NC * a \in Nat
          BY <1>1, <5>5
        <5> QED  BY <1>1, <3>1, <5>4, <5>6, <5>7
      <4>2. turn * s <= psize
        <5>1. turn <= tpp
          BY <1>1, <4>1
        <5>2. turn * s <= tpp * s /\ tpp * s \in Nat
          BY <1>1, <1>9, <5>1, TimesMonotonic
        <5> QED  BY <1>1, <1>3, <1>9, <5>2
      <4>3. a <= psize
        <5>1. psize # 0
          <6>1. 1 * s <= tpp * s
            BY <1>1, TimesMonotonic
          <6>2. tpp * s \in Nat
            BY <1>1
          <6> QED  BY <1>1, <1>3, <6>1, <6>2
        <5>2. psize \div a \in Nat /\ psize = a * (psize \div a)
          <6>1. psize \div a \in Nat /\ psize = a * (psize \div a) + (psize % a)
            BY <1>1, DivModNat
          <6>2. a * (psize \div a) \in Nat
            BY <1>1, <6>1
          <6> QED  BY <1>1, <6>1, <6>2
        <5>3. 1 <= psize \div a
          BY <1>1, <5>1, <5>2
        <5>4. a * 1 <= a * (psize \div a)
          BY <1>1, <5>2, <5>3, TimesMonotonic
        <5> QED  BY <1>1, <5>2, <5>4
      <4>4. 2 * psize <= d * psize /\ d * psize \in Nat
        BY <1>1, <1>8, <3>4, TimesMonotonic
      <4> HIDE DEF turn
      <4> QED  BY <1>1, <1>9, <3>1, <4>2, <4>3, <4>4
    <3> QED  BY <1>1, <3>3, <3>4
  <2> QED  BY <2>1, <2>2
<1> HIDE DEF turn
<1>11. EndOffset(c, t, k, i) = turn * s + i * a + a
  BY <1>4, <1>9 DEF EndOffset, a
<1> QED  BY <1>4, <1>9, <1>10, <1>11 DEF np, P, psize, d

-----------------------------------------------------------------------------
(* The addresses.                                                          *)

(* Partitions end within the memory range.                                 *)
LEMMA PartitionInMemory ==
  ASSUME NEW c \in Configs, Valid(c), NEW t \in 0 .. c.number_threads - 1
  PROVE  /\ PartitionOf(c, t) * partition_size(c) \in Nat
         /\ PartitionOf(c, t) * partition_size(c) + partition_size(c) <= c.memory_range
         /\ PartitionOf(c, t) * partition_size(c)
              + (num_partitions(c) - PartitionOf(c, t)) * partition_size(c) <= c.memory_range
         /\ (num_partitions(c) - PartitionOf(c, t)) * partition_size(c) \in Nat
<1> DEFINE np == num_partitions(c)
           P == PartitionOf(c, t)
           psize == partition_size(c)
           mem == c.memory_range
<1>1. /\ np \in Nat \ {0} /\ P \in 0 .. np - 1 /\ psize \in Nat /\ mem \in Nat
      /\ np * psize <= mem
  BY SizesOfValid, PartitionsOfValid, PlaceOfThread
<1> HIDE DEF np, P, psize, mem
<1>2. /\ P * psize \in Nat /\ (np - P) * psize \in Nat
      /\ P * psize + (np - P) * psize = np * psize
  BY <1>1
<1>3. psize <= (np - P) * psize
  <2>1. 1 * psize <= (np - P) * psize
    BY <1>1, TimesMonotonic
  <2> QED  BY <1>1, <2>1
<1> QED  BY <1>1, <1>2, <1>3 DEF np, P, psize, mem

InRange(c, address) == address \in Nat /\ address + c.access_size <= c.memory_range

(* Sequential addresses are in the memory range.                           *)
LEMMA SequentialInRange ==
  ASSUME NEW c \in Configs, Valid(c), ~IsRandom(c),
         NEW t \in 0 .. c.number_threads - 1,
         NEW k \in 0 .. num_chunks_per_thread(c, t) - 1,
         NEW i \in 0 .. ops_per_chunk(c) - 1
  PROVE  InRange(c, op_address(c, t, k, i))
<1> DEFINE start == PartitionOf(c, t) * partition_size(c)
           rest == (num_partitions(c) - PartitionOf(c, t)) * partition_size(c)
           offset == thread_chunk_offset(c, t, k)
           a == c.access_size
           ia == i * a
           mem == c.memory_range
<1>1. /\ start \in Nat /\ rest \in Nat /\ start + rest <= mem /\ offset \in Nat
      /\ offset + ia + a <= rest /\ a \in Nat \ {0} /\ mem \in Nat
  BY SizesOfValid, OffsetInMemory, PartitionInMemory DEF EndOffset
<1>2. ia \in Nat
  <2>1. i \in Nat /\ a \in Nat
    BY <1>1, ChunksOfValid
  <2> HIDE DEF a
  <2> QED  BY <2>1
<1>3. op_address(c, t, k, i) = IF c.exec_mode = "Sequential_Desc"
                               THEN (rest - a) - offset - ia ELSE start + offset + ia
  BY DEF op_address, partition_start, IsRandom
<1> HIDE DEF start, rest, offset, ia, mem, a
<1>4. CASE c.exec_mode = "Sequential_Desc"
  <2>1. op_address(c, t, k, i) = (rest - a) - offset - ia
    BY <1>3, <1>4
  <2> QED  BY <1>1, <1>2, <2>1 DEF InRange, a, mem
<1>5. CASE c.exec_mode # "Sequential_Desc"
  <2>1. op_address(c, t, k, i) = start + offset + ia
    BY <1>3, <1>5
  <2> QED  BY <1>1, <1>2, <2>1 DEF InRange, a, mem
<1> QED  BY <1>4, <1>5

(* Numbers that are uniform or of a regular zipf distribution number the   *)
(* accesses in a partition, whichever operation came first.                *)
LEMMA RegularAddresses ==
  ASSUME NEW c \in Configs, ZipfRegular(c), NEW t, NEW slot, "pmem" \in Targets(c)
  PROVE  RandomAddresses(c, t, slot, "pmem")
           = {partition_start(c, t) + v * c.access_size :
                v \in 0 .. num_accesses(c, partition_size(c)) - 1}
<1> DEFINE firsts == FirstTargets(c, slot, "pmem")
           size == num_accesses(c, partition_size(c))
           values == UNION {RandomValues(c, "pmem", first) : first \in firsts}
<1>1. "pmem" \in firsts /\ firsts \subseteq Targets(c)
  BY DEF FirstTargets
<1>2. accesses_in_range(c, "pmem") = size
  BY DEF accesses_in_range
<1>3. ASSUME NEW first \in firsts
      PROVE  RandomValues(c, "pmem", first) = 0 .. size - 1
  <2>1. c.random_distribution = "Zipf" => ZipfInRange(size, accesses_in_range(c, first))
    BY <1>1, <1>2 DEF ZipfRegular
  <2> HIDE DEF size, firsts
  <2> QED  BY <1>2, <2>1 DEF RandomValues
<1>4. values = 0 .. size - 1
  <2> HIDE DEF firsts, size
  <2> QED  BY <1>1, <1>3
<1>5. RandomAddresses(c, t, slot, "pmem")
        = {partition_start(c, t) + v * c.access_size : v \in values}
  BY DEF RandomAddresses
<1> HIDE DEF values, size
<1>6. RandomAddresses(c, t, slot, "pmem")
        = {partition_start(c, t) + v * c.access_size : v \in 0 .. size - 1}
  BY <1>4, <1>5
<1> QED  BY <1>6 DEF size

(* The truncated count of a partition's accesses is at most the real one.  *)
LEMMA RandomInRange ==
  ASSUME NEW c \in Configs, Valid(c), IsRandom(c), ZipfRegular(c),
         NEW t \in 0 .. c.number_threads - 1, NEW slot, "pmem" \in Targets(c),
         NEW address \in RandomAddresses(c, t, slot, "pmem")
  PROVE  InRange(c, address)
<1> DEFINE start == PartitionOf(c, t) * partition_size(c)
           psize == partition_size(c)
           a == c.access_size
           mem == c.memory_range
<1>1. /\ start \in Nat /\ start + psize <= mem /\ psize \in Nat
      /\ a \in Nat \ {0} /\ mem \in Nat
  BY SizesOfValid, PartitionsOfValid, PartitionInMemory
<1>2. partition_start(c, t) = start
  BY DEF partition_start, IsRandom
<1>3. num_accesses(c, psize) = (psize \div a) % CountModulus
  BY DEF num_accesses
<1>4. PICK v \in 0 .. num_accesses(c, psize) - 1 : address = start + v * a
  BY <1>2, RegularAddresses
<1> HIDE DEF start, psize, a, mem
<1>5. psize \div a \in Nat /\ a * (psize \div a) <= psize
  BY <1>1, DivModNat
<1>6. num_accesses(c, psize) \in Nat /\ num_accesses(c, psize) <= psize \div a
  <2> DEFINE n == psize \div a
  <2>1. CountModulus \in Nat \ {0}
    BY LayoutAssumption
  <2> HIDE DEF n
  <2>2. n \in Nat
    BY <1>5 DEF n
  <2>3. /\ n \div CountModulus \in Nat /\ n % CountModulus \in 0 .. CountModulus - 1
        /\ n = CountModulus * (n \div CountModulus) + (n % CountModulus)
    BY <2>1, <2>2, DivModNat
  <2>4. CountModulus * (n \div CountModulus) \in Nat
    BY <2>1, <2>3
  <2>5. n % CountModulus \in Nat /\ n % CountModulus <= n
    BY <2>1, <2>2, <2>3, <2>4
  <2> QED  BY <1>3, <2>5 DEF n
<1>7. v \in Nat /\ v + 1 <= psize \div a
  BY <1>5, <1>6
<1>8. v * a + a <= psize /\ v * a \in Nat
  <2>1. (v + 1) * a <= (psize \div a) * a
    BY <1>1, <1>5, <1>7, TimesMonotonic
  <2>2. (v + 1) * a = v * a + a /\ (psize \div a) * a = a * (psize \div a)
    BY <1>1, <1>5, <1>7
  <2>3. v * a \in Nat /\ a * (psize \div a) \in Nat
    BY <1>1, <1>5, <1>7
  <2> QED  BY <1>1, <1>5, <2>1, <2>2, <2>3
<1> QED  BY <1>1, <1>4, <1>8 DEF InRange, a, mem

-----------------------------------------------------------------------------
(* The threads in turn.                                                    *)

(* The operations are those of the threads that have generated theirs, for *)
(* a configuration that validate accepts.                                  *)
LayoutInv ==
  /\ config \in Configs /\ Valid(config)
  /\ thread \in 0 .. config.number_threads
  /\ \A o \in io_ops : \E t \in 0 .. thread - 1 : o \in OpsOfThread(config, t)
  /\ \A t \in 0 .. thread - 1 : OpsOfThread(config, t) \subseteq io_ops

(* What was generated are the operations of the threads that had their     *)
(* turn, for a configuration that validate accepts.                        *)
THEOREM Generating == Spec => []LayoutInv
<1>1. Init => LayoutInv
  <2> SUFFICES ASSUME Init PROVE LayoutInv
    OBVIOUS
  <2>1. config \in Configs /\ Valid(config) /\ thread = 0 /\ io_ops = {}
    BY DEF Init
  <2>2. config.number_threads \in Nat
    BY <2>1, SizesOfValid
  <2> QED  BY <2>1, <2>2 DEF LayoutInv
<1>2. LayoutInv /\ [Next]_vars => LayoutInv'
  <2> SUFFICES ASSUME LayoutInv, [Next]_vars PROVE LayoutInv'
    OBVIOUS
  <2>1. CASE GenerateThread
    <3>1. /\ config' = config /\ thread' = thread + 1 /\ thread < config.number_threads
          /\ io_ops' = io_ops \cup OpsOfThread(config, thread)
      BY <2>1 DEF GenerateThread
    <3>2. /\ config \in Configs /\ Valid(config) /\ config.number_threads \in Nat
          /\ thread \in 0 .. config.number_threads
      BY SizesOfValid DEF LayoutInv
    <3>3. thread' \in 0 .. config.number_threads /\ 0 .. thread' - 1 = (0 .. thread - 1) \cup {thread}
      BY <3>1, <3>2
    <3>4. /\ \A o \in io_ops' : \E t \in 0 .. thread' - 1 : o \in OpsOfThread(config, t)
          /\ \A t \in 0 .. thread' - 1 : OpsOfThread(config, t) \subseteq io_ops'
      BY <3>1, <3>3 DEF LayoutInv
    <3>5. /\ \A o \in io_ops' : \E t \in 0 .. thread' - 1 : o \in OpsOfThread(config', t)
          /\ \A t \in 0 .. thread' - 1 : OpsOfThread(config', t) \subseteq io_ops'
      BY <3>1, <3>4
    <3>6. config' \in Configs /\ Valid(config') /\ thread' \in 0 .. config'.number_threads
      BY <3>1, <3>2, <3>3
    <3> QED  BY <3>5, <3>6 DEF LayoutInv
  <2>2. CASE UNCHANGED vars
    BY <2>2 DEF LayoutInv, vars
  <2> QED  BY <2>1, <2>2 DEF Next, Ended
<1> QED  BY <1>1, <1>2, PTL DEF Spec

(* An operation of a random benchmark has one of the benchmark's targets,  *)
(* and addresses of its thread's range.                                    *)
LEMMA RandomOperation ==
  ASSUME NEW c \in Configs, IsRandom(c), NEW t, NEW o \in OpsOfThread(c, t)
  PROVE  /\ o.target \in Targets(c)
         /\ \E slot : o.addresses = RandomAddresses(c, t, slot, o.target)
<1> DEFINE Slots == (0 .. num_chunks_per_thread(c, t) - 1) \X (0 .. ops_per_chunk(c) - 1)
<1>1. PICK s \in Slots : \E target \in Targets(c) :
        o = IoOp(t, s[1], s[2], target, RandomAddresses(c, t, s, target))
  BY DEF OpsOfThread
<1> QED  BY <1>1 DEF IoOp

(* Hence no access leaves the memory range.                                *)
LEMMA InMemoryRange ==
  LayoutInv => AccessesInMemoryRange
<1> SUFFICES ASSUME LayoutInv, RegularNumbers, NEW o \in io_ops, o.target = "pmem",
                    NEW address \in o.addresses
             PROVE  0 <= address /\ address + config.access_size <= config.memory_range
  BY DEF AccessesInMemoryRange, Within
<1> DEFINE c == config
<1>1. c \in Configs /\ Valid(c) /\ thread \in 0 .. c.number_threads
  BY DEF LayoutInv
<1>2. PICK t \in 0 .. thread - 1 : o \in OpsOfThread(c, t)
  BY DEF LayoutInv
<1>3. t \in 0 .. c.number_threads - 1
  BY <1>1, SizesOfValid
<1> HIDE DEF c
<1>4. CASE IsRandom(c)
  <2>1. PICK slot : address \in RandomAddresses(c, t, slot, "pmem")
    BY <1>1, <1>2, <1>4, RandomOperation
  <2>2. "pmem" \in Targets(c) /\ ZipfRegular(c)
    BY <1>1, <1>2, <1>4, RandomOperation DEF RegularNumbers, c
  <2> QED  BY <1>1, <1>3, <1>4, <2>1, <2>2, RandomInRange DEF InRange, c
<1>5. CASE ~IsRandom(c)
  <2>1. PICK k \in 0 .. num_chunks_per_thread(c, t) - 1, i \in 0 .. ops_per_chunk(c) - 1 :
          address = op_address(c, t, k, i)
    BY <1>2, <1>5 DEF OpsOfThread, IoOp
  <2> QED  BY <1>1, <1>3, <1>5, <2>1, SequentialInRange DEF InRange, c
<1> QED  BY <1>4, <1>5

(* Whatever configuration validate accepts, no operation on PMem touches a *)
(* byte outside of the memory range: the sizes, threads, partitions and    *)
(* chunks are arbitrary, and so is the modulus of the 32-bit count.  The   *)
(* numbers of a random one are uniform, or zipf's with regular ranges.     *)
THEOREM AccessesInMemory == Spec => []AccessesInMemoryRange
BY InMemoryRange, Generating, PTL

-----------------------------------------------------------------------------
(* Every operation of every chunk is generated once.                       *)

(* A number has one quotient and remainder.                                *)
LEMMA DivModUnique ==
  ASSUME NEW n \in Nat \ {0}, NEW a \in Nat, NEW b \in 0 .. n - 1
  PROVE  a * n + b \in Nat /\ (a * n + b) \div n = a /\ (a * n + b) % n = b
<1> DEFINE m == a * n + b
           q == m \div n
<1>1. m \in Nat
  OBVIOUS
<1>2. q \in Nat /\ m = n * q + (m % n) /\ m % n \in 0 .. n - 1
  <2> HIDE DEF m
  <2> QED  BY <1>1, DivModNat
<1>3. n * q \in Nat /\ n * a \in Nat /\ n * a = a * n
  BY <1>2
<1>4. q = a
  <2>1. n * q <= n * a + b
    BY <1>2, <1>3
  <2>2. n * a <= n * q + (m % n)
    BY <1>2, <1>3
  <2>3. q <= a
    <3> HIDE DEF q
    <3> QED  BY <1>2, <2>1, TimesCancel
  <2>4. a <= q
    <3> HIDE DEF q, m
    <3> QED  BY <1>2, <2>2, TimesCancel
  <2> QED  BY <1>2, <2>3, <2>4
<1>5. m % n = b
  BY <1>2, <1>3, <1>4
<1> QED  BY <1>1, <1>4, <1>5

(* Chunk j is the thread j % T's, its chunk j \div T, and it is that       *)
(* thread's to generate.                                                   *)
LEMMA ThreadOfChunk ==
  ASSUME NEW c \in Configs, Valid(c), NEW j \in 0 .. num_chunks(c) - 1
  PROVE  /\ j % c.number_threads \in 0 .. c.number_threads - 1
         /\ j \div c.number_threads \in
              0 .. num_chunks_per_thread(c, j % c.number_threads) - 1
         /\ j = (j \div c.number_threads) * c.number_threads + (j % c.number_threads)
<1> DEFINE T == c.number_threads
           NC == num_chunks(c)
           q == NC \div T
           e == NC % T
           k == j \div T
           t == j % T
<1>1. T \in Nat \ {0} /\ NC \in Nat /\ j \in Nat /\ j + 1 <= NC
  BY SizesOfValid, ChunksOfValid
<1>2. /\ q \in Nat /\ e \in 0 .. T - 1 /\ NC = T * q + e
      /\ k \in Nat /\ t \in 0 .. T - 1 /\ j = T * k + t
  BY <1>1, DivModNat
<1>3. num_chunks_per_thread(c, t) = q + (IF t < e THEN 1 ELSE 0)
  BY DEF num_chunks_per_thread
<1> HIDE DEF T, NC, q, e, k, t
<1>4. T * k = k * T /\ T * k \in Nat /\ T * q \in Nat
  BY <1>1, <1>2
<1>5. k <= q
  <2>1. T * k <= T * q + e
    BY <1>1, <1>2, <1>4
  <2> QED  BY <1>1, <1>2, <2>1, TimesCancel
<1>6. k = q => t < e
  BY <1>1, <1>2, <1>4
<1>7. k \in 0 .. num_chunks_per_thread(c, t) - 1
  BY <1>2, <1>3, <1>5, <1>6
<1> QED  BY <1>2, <1>4, <1>7 DEF T, k, t

(* The places of the operations: thread, chunk and number within it.       *)
Places(c) ==
  {p \in (0 .. c.number_threads - 1) \X Nat \X (0 .. ops_per_chunk(c) - 1) :
     p[2] \in 0 .. num_chunks_per_thread(c, p[1]) - 1}

ChunkOf(c, p) == p[2] * c.number_threads + p[1]

(* A chunk determines its thread and its number among the thread's chunks. *)
LEMMA ChunkOfPlace ==
  ASSUME NEW c \in Configs, Valid(c), NEW p \in Places(c)
  PROVE  /\ ChunkOf(c, p) \in 0 .. num_chunks(c) - 1
         /\ p[1] = ChunkOf(c, p) % c.number_threads
         /\ p[2] = ChunkOf(c, p) \div c.number_threads
         /\ p[3] \in 0 .. ops_per_chunk(c) - 1
         /\ p = <<p[1], p[2], p[3]>>
<1>1. /\ p[1] \in 0 .. c.number_threads - 1 /\ p[2] \in Nat
      /\ p[3] \in 0 .. ops_per_chunk(c) - 1 /\ p = <<p[1], p[2], p[3]>>
      /\ p[2] \in 0 .. num_chunks_per_thread(c, p[1]) - 1
  BY DEF Places
<1>2. c.number_threads \in Nat \ {0} /\ num_chunks(c) \in Nat
  BY SizesOfValid, ChunksOfValid
<1>3. p[2] * c.number_threads + p[1] + 1 <= num_chunks(c)
  BY <1>1, ChunkOfThread
<1>4. /\ p[2] * c.number_threads + p[1] \in Nat
      /\ (p[2] * c.number_threads + p[1]) \div c.number_threads = p[2]
      /\ (p[2] * c.number_threads + p[1]) % c.number_threads = p[1]
  BY <1>1, <1>2, DivModUnique
<1> QED  BY <1>1, <1>2, <1>3, <1>4 DEF ChunkOf

(* There are as many places as chunks and operations in them.              *)
LEMMA PlacesCounted ==
  ASSUME NEW c \in Configs, Valid(c)
  PROVE  Cardinality(Places(c)) = num_chunks(c) * ops_per_chunk(c)
<1> DEFINE opc == ops_per_chunk(c)
           NC == num_chunks(c)
           T == c.number_threads
           number(p) == ChunkOf(c, p) * opc + p[3]
           f == [p \in Places(c) |-> number(p)]
           Numbers == 0 .. NC * opc - 1
<1>1. opc \in Nat \ {0} /\ NC \in Nat /\ T \in Nat \ {0} /\ NC * opc \in Nat
  BY SizesOfValid, ChunksOfValid
<1>2. ASSUME NEW p \in Places(c)
      PROVE  /\ number(p) \in Numbers /\ number(p) \div opc = ChunkOf(c, p)
             /\ number(p) % opc = p[3]
  <2> DEFINE j == ChunkOf(c, p)
  <2>1. j \in 0 .. NC - 1 /\ p[3] \in 0 .. opc - 1
    BY ChunkOfPlace
  <2> DEFINE i == p[3]
  <2> HIDE DEF j, opc, NC, i
  <2>2. /\ j * opc + i \in Nat /\ (j * opc + i) \div opc = j
        /\ (j * opc + i) % opc = i
    <3>1. j \in Nat /\ i \in 0 .. opc - 1
      BY <1>1, <2>1 DEF i
    <3> QED  BY <1>1, <3>1, DivModUnique
  <2>3. (j + 1) * opc <= NC * opc /\ (j + 1) * opc = j * opc + opc /\ j * opc \in Nat
    BY <1>1, <2>1, TimesMonotonic
  <2>4. j * opc + i \in 0 .. NC * opc - 1
    BY <1>1, <2>1, <2>2, <2>3 DEF i
  <2> QED  BY <2>2, <2>4 DEF i, j
<1>3. ASSUME NEW p \in Places(c), NEW r \in Places(c), number(p) = number(r)
      PROVE  p = r
  <2>1. ChunkOf(c, p) = ChunkOf(c, r) /\ p[3] = r[3]
    BY <1>2, <1>3
  <2>2. /\ p[1] = ChunkOf(c, p) % T /\ p[2] = ChunkOf(c, p) \div T
        /\ r[1] = ChunkOf(c, r) % T /\ r[2] = ChunkOf(c, r) \div T
        /\ p = <<p[1], p[2], p[3]>> /\ r = <<r[1], r[2], r[3]>>
    BY ChunkOfPlace
  <2> QED  BY <2>1, <2>2
<1>4. ASSUME NEW m \in Numbers
      PROVE  \E p \in Places(c) : number(p) = m
  <2> DEFINE j == m \div opc
             p == <<j % T, j \div T, m % opc>>
  <2>1. j \in 0 .. NC - 1 /\ m % opc \in 0 .. opc - 1 /\ j * opc + (m % opc) = m
    <3> HIDE DEF opc, NC
    <3>1. m \in Nat /\ m + 1 <= NC * opc
      BY <1>1
    <3>2. j \in Nat /\ m % opc \in 0 .. opc - 1 /\ m = opc * j + (m % opc)
      BY <1>1, <3>1, DivModNat
    <3> HIDE DEF j
    <3>3. j < NC
      <4> SUFFICES ASSUME NC <= j PROVE FALSE
        BY <1>1, <3>2
      <4>1. NC * opc <= j * opc /\ j * opc = opc * j /\ opc * j \in Nat
        BY <1>1, <3>2, TimesMonotonic
      <4> QED  BY <1>1, <3>1, <3>2, <4>1
    <3>4. j * opc = opc * j
      BY <1>1, <3>2
    <3> QED  BY <1>1, <3>2, <3>3, <3>4
  <2>2. /\ j % T \in 0 .. T - 1
        /\ j \div T \in 0 .. num_chunks_per_thread(c, j % T) - 1
        /\ j = (j \div T) * T + (j % T)
    BY <2>1, ThreadOfChunk
  <2>3. j \div T \in Nat
    <3>1. j \in Nat
      BY <1>1, <2>1
    <3> HIDE DEF j
    <3> QED  BY <1>1, <3>1, DivModNat
  <2>4. p \in Places(c)
    <3> HIDE DEF j
    <3> QED  BY <2>1, <2>2, <2>3 DEF Places
  <2>5. ChunkOf(c, p) = j /\ p[3] = m % opc
    <3> HIDE DEF j
    <3> QED  BY <2>2 DEF ChunkOf
  <2> HIDE DEF p
  <2> QED  BY <2>1, <2>4, <2>5
<1> HIDE DEF number
<1>5. f \in [Places(c) -> Numbers] /\ \A p \in Places(c) : f[p] = number(p)
  BY <1>2
<1> HIDE DEF f
<1>6. f \in Bijection(Places(c), Numbers)
  <2>1. f \in Injection(Places(c), Numbers)
    BY <1>3, <1>5, Fun_IsInj
  <2>2. f \in Surjection(Places(c), Numbers)
    BY <1>4, <1>5, Fun_IsSurj
  <2> QED  BY <2>1, <2>2 DEF Bijection
<1>7. IsFiniteSet(Numbers) /\ Cardinality(Numbers) = NC * opc
  <2> DEFINE n == NC * opc
  <2>1. n \in Nat
    BY <1>1
  <2> HIDE DEF n
  <2>2. IsFiniteSet(0 .. n - 1) /\ Cardinality(0 .. n - 1) = n
    BY <2>1, FS_Interval
  <2> QED  BY <2>2 DEF n
<1>8. ExistsBijection(Numbers, Places(c))
  BY <1>6, Fun_ExistsBijSymmetric DEF ExistsBijection
<1> QED  BY <1>7, <1>8, FS_Bijection

(* The places of a thread's operations                                     *)
PlaceOf(o) == <<o.thread, o.chunk, o.op>>

(* A thread generates the operations of its own places.                    *)
LEMMA PlacesOfThread ==
  ASSUME NEW c \in Configs, Valid(c), NEW t \in 0 .. c.number_threads - 1
  PROVE  /\ \A o \in OpsOfThread(c, t) : PlaceOf(o) \in Places(c) /\ o.thread = t
         /\ \A p \in Places(c) : p[1] = t => \E o \in OpsOfThread(c, t) : PlaceOf(o) = p
<1> DEFINE Slots == (0 .. num_chunks_per_thread(c, t) - 1) \X (0 .. ops_per_chunk(c) - 1)
<1>1. ASSUME NEW o \in OpsOfThread(c, t)
      PROVE  PlaceOf(o) \in Places(c) /\ o.thread = t
  <2>1. PICK s \in Slots : PlaceOf(o) = <<t, s[1], s[2]>> /\ o.thread = t
    BY DEF OpsOfThread, IoOp, PlaceOf
  <2>2. s[1] \in Nat
    BY <2>1, ChunkOfThread
  <2> QED  BY <2>1, <2>2 DEF Places
<1>2. ASSUME NEW p \in Places(c), p[1] = t
      PROVE  \E o \in OpsOfThread(c, t) : PlaceOf(o) = p
  <2>1. /\ p[2] \in 0 .. num_chunks_per_thread(c, t) - 1
        /\ p[3] \in 0 .. ops_per_chunk(c) - 1 /\ p = <<t, p[2], p[3]>>
    BY <1>2 DEF Places
  <2> DEFINE s == <<p[2], p[3]>>
  <2>2. s \in Slots /\ s[1] = p[2] /\ s[2] = p[3]
    BY <2>1
  <2>3. \A target, addresses : PlaceOf(IoOp(t, s[1], s[2], target, addresses)) = p
    BY <2>1, <2>2 DEF PlaceOf, IoOp
  <2> HIDE DEF s
  <2>4. PICK target : target \in Targets(c)
    BY LayoutAssumption DEF Targets
  <2>5. CASE IsRandom(c)
    <3>1. IoOp(t, s[1], s[2], target, RandomAddresses(c, t, s, target)) \in OpsOfThread(c, t)
      BY <2>2, <2>4, <2>5 DEF OpsOfThread
    <3> QED  BY <2>3, <3>1
  <2>6. CASE ~IsRandom(c)
    <3>1. IoOp(t, s[1], s[2], "pmem", {op_address(c, t, s[1], s[2])}) \in OpsOfThread(c, t)
      <4> DEFINE op(x) == IoOp(t, x[1], x[2], "pmem", {op_address(c, t, x[1], x[2])})
      <4>1. OpsOfThread(c, t) = {op(x) : x \in Slots}
        BY <2>6 DEF OpsOfThread
      <4> HIDE DEF op, Slots
      <4>2. op(s) \in OpsOfThread(c, t)
        BY <2>2, <4>1
      <4> QED  BY <4>2 DEF op
    <3> QED  BY <2>3, <3>1
  <2> QED  BY <2>5, <2>6
<1> QED  BY <1>1, <1>2

(* Together the threads generate one operation for each place.             *)
LEMMA PlacesGenerated ==
  ASSUME LayoutInv, Generated
  PROVE  {PlaceOf(o) : o \in io_ops} = Places(config)
<1>1. config \in Configs /\ Valid(config) /\ config.number_threads \in Nat \ {0}
  BY SizesOfValid DEF LayoutInv
<1>2. 0 .. thread - 1 = 0 .. config.number_threads - 1
  BY DEF Generated
<1>3. ASSUME NEW o \in io_ops PROVE PlaceOf(o) \in Places(config)
  <2>1. PICK t \in 0 .. config.number_threads - 1 : o \in OpsOfThread(config, t)
    BY <1>2 DEF LayoutInv
  <2> QED  BY <1>1, <2>1, PlacesOfThread
<1>4. ASSUME NEW p \in Places(config) PROVE \E o \in io_ops : PlaceOf(o) = p
  <2>1. p[1] \in 0 .. config.number_threads - 1
    BY DEF Places
  <2>2. PICK o \in OpsOfThread(config, p[1]) : PlaceOf(o) = p
    BY <1>1, <2>1, PlacesOfThread
  <2>3. OpsOfThread(config, p[1]) \subseteq io_ops
    BY <1>2, <2>1 DEF LayoutInv
  <2> QED  BY <2>2, <2>3
<1> QED  BY <1>3, <1>4

(* A random benchmark performs all its operations, and at most a chunk's   *)
(* rest more, however they divide into chunks and threads.                 *)
THEOREM OperationsGenerated == Spec => []EnoughOperations
<1>1. LayoutInv => EnoughOperations
  <2> SUFFICES ASSUME LayoutInv, Generated, IsRandom(config)
               PROVE  LET performed == Cardinality({<<o.thread, o.chunk, o.op>> : o \in io_ops})
                      IN /\ performed >= config.number_operations
                         /\ performed < config.number_operations + ops_per_chunk(config)
    BY DEF EnoughOperations
  <2> DEFINE c == config
             n == c.number_operations
             opc == ops_per_chunk(c)
             NC == num_chunks(c)
             q == n \div opc
             e == n % opc
  <2>1. c \in Configs /\ Valid(c)
    BY DEF LayoutInv
  <2>2. Cardinality({<<o.thread, o.chunk, o.op>> : o \in io_ops}) = NC * opc
    <3>1. {<<o.thread, o.chunk, o.op>> : o \in io_ops} = Places(c)
      BY PlacesGenerated DEF PlaceOf
    <3> QED  BY <2>1, <3>1, PlacesCounted
  <2>3. n \in Nat /\ opc \in Nat \ {0} /\ NC = q + (IF e # 0 THEN 1 ELSE 0)
    BY <2>1, SizesOfValid, ChunksOfValid DEF num_chunks, num_operations
  <2>4. n >= 0 /\ q \in Nat /\ e \in 0 .. opc - 1 /\ n = opc * q + e
    <3> HIDE DEF n, opc
    <3>1. q \in Nat /\ e \in 0 .. opc - 1 /\ n = opc * q + e
      BY <2>3, DivModNat
    <3> QED  BY <2>3, <3>1
  <2> HIDE DEF n, opc, q, e, NC
  <2>5. opc * q \in Nat
    BY <2>3, <2>4
  <2>6. NC * opc >= n /\ NC * opc < n + opc
    <3>1. CASE e # 0
      <4>1. NC * opc = opc * q + opc
        BY <2>3, <2>4, <3>1
      <4> QED  BY <2>3, <2>4, <2>5, <3>1, <4>1
    <3>2. CASE e = 0
      <4>1. NC * opc = opc * q
        BY <2>3, <2>4, <3>2
      <4> QED  BY <2>3, <2>4, <2>5, <3>2, <4>1
    <3> QED  BY <3>1, <3>2
  <2> QED  BY <2>2, <2>6 DEF n, opc, c
<1> QED  BY <1>1, Generating, PTL

-----------------------------------------------------------------------------
(* Cache lines.                                                            *)

Lines == {CACHE_LINE_SIZE * n : n \in Int}

(* Sums, ...                                                               *)
LEMMA LinesAdd ==
  ASSUME NEW x \in Lines, NEW y \in Lines
  PROVE  x \in Int /\ x + y \in Lines /\ x - y \in Lines
<1>1. PICK m \in Int : x = CACHE_LINE_SIZE * m
  BY DEF Lines
<1>2. PICK n \in Int : y = CACHE_LINE_SIZE * n
  BY DEF Lines
<1>3. /\ x + y = CACHE_LINE_SIZE * (m + n) /\ x - y = CACHE_LINE_SIZE * (m - n)
      /\ m + n \in Int /\ m - n \in Int /\ x \in Int
  BY <1>1, <1>2 DEF CACHE_LINE_SIZE
<1> QED  BY <1>3 DEF Lines

(* ... multiples, ...                                                      *)
LEMMA LinesTimes ==
  ASSUME NEW x \in Lines, NEW n \in Int
  PROVE  n * x \in Lines
<1>1. PICK m \in Int : x = CACHE_LINE_SIZE * m
  BY DEF Lines
<1>2. n * x = CACHE_LINE_SIZE * (n * m) /\ n * m \in Int
  BY <1>1 DEF CACHE_LINE_SIZE
<1> QED  BY <1>2 DEF Lines

(* ... and powers of two from 64 on are whole lines, ...                   *)
LEMMA LargePowersAreLines ==
  ASSUME NEW p \in PowersOfTwo, p >= 64
  PROVE  p \in Lines
<1>1. 64 \in PowersOfTwo
  <2>1. PowerOfTwo[0] = 1 /\ PowerOfTwo[1] = 2 * PowerOfTwo[0] /\ PowerOfTwo[2] = 2 * PowerOfTwo[1]
    BY PowerDoubles
  <2>2. PowerOfTwo[3] = 2 * PowerOfTwo[2] /\ PowerOfTwo[4] = 2 * PowerOfTwo[3]
    BY PowerDoubles
  <2>3. PowerOfTwo[5] = 2 * PowerOfTwo[4] /\ PowerOfTwo[6] = 2 * PowerOfTwo[5]
    BY PowerDoubles
  <2>4. PowerOfTwo[6] = 64 /\ 6 \in 0 .. 30
    BY <2>1, <2>2, <2>3
  <2> QED  BY <2>4 DEF PowersOfTwo
<1>2. PICK f \in Nat : p = f * 64
  BY <1>1, PowersDivide
<1>3. p = CACHE_LINE_SIZE * f
  BY <1>2 DEF CACHE_LINE_SIZE
<1> QED  BY <1>3 DEF Lines

(* ... and so are the sizes that validate accepts.                         *)
LEMMA SizesAreLines ==
  ASSUME NEW c \in Configs, Valid(c)
  PROVE  c.access_size \in Lines /\ c.min_io_chunk_size \in Lines /\ partition_size(c) \in Lines
<1>1. /\ c.access_size \in PowersOfTwo /\ c.access_size >= 64
      /\ c.min_io_chunk_size \in PowersOfTwo /\ c.min_io_chunk_size >= 64
  BY DEF Valid, SizesValid
<1>2. c.access_size \in Lines /\ c.min_io_chunk_size \in Lines
  BY <1>1, LargePowersAreLines
<1>3. partition_size(c) \in Lines
  <2> DEFINE a == c.access_size
             psize == partition_size(c)
  <2>1. a \in Nat \ {0} /\ psize \in Nat /\ psize % a = 0
    BY SizesOfValid, PartitionsOfValid
  <2> HIDE DEF a, psize
  <2>2. psize \div a \in Nat /\ psize = a * (psize \div a) + (psize % a)
    BY <2>1, DivModNat
  <2>3. psize = (psize \div a) * a
    BY <2>1, <2>2
  <2>4. (psize \div a) * a \in Lines
    BY <1>2, <2>2, LinesTimes DEF a
  <2> QED  BY <2>3, <2>4 DEF psize
<1> QED  BY <1>2, <1>3

(* Every access starts with a line.                                        *)
LEMMA AddressesAreLines ==
  ASSUME NEW c \in Configs, Valid(c), NEW t \in 0 .. c.number_threads - 1,
         NEW o \in OpsOfThread(c, t), o.target = "pmem",
         IsRandom(c) => ZipfRegular(c), NEW address \in o.addresses
  PROVE  address \in Lines
<1>1. /\ c.access_size \in Lines /\ c.min_io_chunk_size \in Lines /\ partition_size(c) \in Lines
      /\ num_partitions(c) \in Int /\ PartitionOf(c, t) \in Int
      /\ num_threads_per_partition(c) \in Int /\ t % num_threads_per_partition(c) \in Int
  BY SizesAreLines, PartitionsOfValid, PlaceOfThread
<1>2. partition_start(c, t) \in Lines
  <2>1. PartitionOf(c, t) * partition_size(c) \in Lines
    BY <1>1, LinesTimes
  <2>2. (num_partitions(c) - PartitionOf(c, t)) * partition_size(c) - c.access_size \in Lines
    <3>1. num_partitions(c) - PartitionOf(c, t) \in Int
      BY <1>1
    <3>2. (num_partitions(c) - PartitionOf(c, t)) * partition_size(c) \in Lines
      BY <1>1, <3>1, LinesTimes
    <3> QED  BY <1>1, <3>2, LinesAdd
  <2> QED  BY <2>1, <2>2 DEF partition_start
<1>3. CASE IsRandom(c)
  <2>1. PICK v \in 0 .. num_accesses(c, partition_size(c)) - 1 :
          address = partition_start(c, t) + v * c.access_size
    BY <1>3, RandomOperation, RegularAddresses
  <2>2. v \in Int
    OBVIOUS
  <2>3. v * c.access_size \in Lines
    BY <1>1, <2>2, LinesTimes
  <2> QED  BY <1>2, <2>1, <2>3, LinesAdd
<1>4. CASE ~IsRandom(c)
  <2>1. PICK k \in 0 .. num_chunks_per_thread(c, t) - 1, i \in 0 .. ops_per_chunk(c) - 1 :
          address = op_address(c, t, k, i)
    BY <1>4 DEF OpsOfThread, IoOp
  <2>2. thread_chunk_offset(c, t, k) \in Lines
    <3>1. k * num_threads_per_partition(c) \in Int
      BY <1>1
    <3>2. /\ (k * num_threads_per_partition(c)) * c.min_io_chunk_size \in Lines
          /\ (t % num_threads_per_partition(c)) * c.min_io_chunk_size \in Lines
      BY <1>1, <3>1, LinesTimes
    <3> QED  BY <3>2, LinesAdd DEF thread_chunk_offset
  <2>3. i * c.access_size \in Lines
    <3>1. i \in Int
      OBVIOUS
    <3> QED  BY <1>1, <3>1, LinesTimes
  <2>4. /\ partition_start(c, t) - thread_chunk_offset(c, t, k) - i * c.access_size \in Lines
        /\ partition_start(c, t) + thread_chunk_offset(c, t, k) + i * c.access_size \in Lines
    <3>1. /\ partition_start(c, t) - thread_chunk_offset(c, t, k) \in Lines
          /\ partition_start(c, t) + thread_chunk_offset(c, t, k) \in Lines
      BY <1>2, <2>2, LinesAdd
    <3> QED  BY <2>3, <3>1, LinesAdd
  <2> QED  BY <2>1, <2>4 DEF op_address
<1> QED  BY <1>3, <1>4

-----------------------------------------------------------------------------
(* The generated data.                                                     *)

(* Whole lines are stored one after the other.                             *)
LEMMA LinesWritten ==
  ASSUME NEW first \in Nat, NEW count \in Nat
  PROVE  write_data(CACHE_LINE_SIZE * first, CACHE_LINE_SIZE * (first + count))
           = {CACHE_LINE_SIZE * n : n \in first .. first + count - 1}
<1> DEFINE last == (CACHE_LINE_SIZE * (first + count) - CACHE_LINE_SIZE * first - 1)
                      \div CACHE_LINE_SIZE
<1>1. last = count - 1
  BY DEF CACHE_LINE_SIZE
<1>2. write_data(CACHE_LINE_SIZE * first, CACHE_LINE_SIZE * (first + count))
        = {CACHE_LINE_SIZE * first + n * CACHE_LINE_SIZE : n \in 0 .. count - 1}
  BY <1>1 DEF write_data
<1>3. ASSUME NEW n \in 0 .. count - 1
      PROVE  /\ CACHE_LINE_SIZE * first + n * CACHE_LINE_SIZE = CACHE_LINE_SIZE * (first + n)
             /\ first + n \in first .. first + count - 1
  BY DEF CACHE_LINE_SIZE
<1>4. ASSUME NEW n \in first .. first + count - 1
      PROVE  /\ CACHE_LINE_SIZE * n = CACHE_LINE_SIZE * first + (n - first) * CACHE_LINE_SIZE
             /\ n - first \in 0 .. count - 1
  BY DEF CACHE_LINE_SIZE
<1> QED  BY <1>2, <1>3, <1>4

(* The shares of the threads, in lines.                                    *)
LEMMA SharesGenerated ==
  ASSUME NEW mem \in Nat, mem % (NUM_UTIL_THREADS * CACHE_LINE_SIZE) = 0,
         NEW i \in 1 .. NUM_UTIL_THREADS, NEW line
  PROVE  LET h == mem \div (NUM_UTIL_THREADS * CACHE_LINE_SIZE)
         IN /\ h \in Nat /\ mem = CACHE_LINE_SIZE * (NUM_UTIL_THREADS * h)
            /\ line \in generate_read_data(mem)[i]
                 <=> \E n \in (i - 1) * h .. i * h - 1 : line = CACHE_LINE_SIZE * n
<1> DEFINE h == mem \div (NUM_UTIL_THREADS * CACHE_LINE_SIZE)
           share == mem \div NUM_UTIL_THREADS
<1>1. h \in Nat /\ mem = CACHE_LINE_SIZE * (NUM_UTIL_THREADS * h) /\ share = CACHE_LINE_SIZE * h
  BY DEF CACHE_LINE_SIZE, NUM_UTIL_THREADS
<1>2. /\ generate_read_data(mem)[i] =
           write_data((i - 1) * share, IF i = NUM_UTIL_THREADS THEN mem ELSE i * share)
  BY DEF generate_read_data
<1> HIDE DEF h, share
<1>3. /\ (i - 1) * h \in Nat /\ i * h = (i - 1) * h + h
      /\ (i - 1) * share = CACHE_LINE_SIZE * ((i - 1) * h)
      /\ (IF i = NUM_UTIL_THREADS THEN mem ELSE i * share) = CACHE_LINE_SIZE * ((i - 1) * h + h)
  <2>1. i \in Nat /\ i - 1 \in Nat
    BY DEF NUM_UTIL_THREADS
  <2>2. (i - 1) * h \in Nat /\ i * h = (i - 1) * h + h
    BY <1>1, <2>1
  <2>3. (i - 1) * share = CACHE_LINE_SIZE * ((i - 1) * h) /\ i * share = CACHE_LINE_SIZE * (i * h)
    BY <1>1, <2>1 DEF CACHE_LINE_SIZE
  <2> QED  BY <1>1, <2>2, <2>3
<1>4. line \in generate_read_data(mem)[i]
        <=> \E n \in (i - 1) * h .. (i - 1) * h + h - 1 : line = CACHE_LINE_SIZE * n
  <2> DEFINE start == (i - 1) * h
  <2>1. /\ start \in Nat /\ h \in Nat
        /\ generate_read_data(mem)[i]
             = write_data(CACHE_LINE_SIZE * start, CACHE_LINE_SIZE * (start + h))
    BY <1>1, <1>2, <1>3
  <2> HIDE DEF start
  <2>2. generate_read_data(mem)[i] = {CACHE_LINE_SIZE * n : n \in start .. start + h - 1}
    BY <2>1, LinesWritten
  <2> QED  BY <2>2 DEF start
<1> QED  BY <1>1, <1>3, <1>4 DEF h

(* Everything a benchmark reads has been generated, each line by one       *)
(* thread.                                                                 *)
THEOREM DataGenerated == Spec => []ReadsGeneratedData
<1>1. LayoutInv => ReadsGeneratedData
  <2> DEFINE c == config
             mem == c.memory_range
             data == generate_read_data(mem)
             h == mem \div (NUM_UTIL_THREADS * CACHE_LINE_SIZE)
  <2> SUFFICES ASSUME LayoutInv, mem % (NUM_UTIL_THREADS * CACHE_LINE_SIZE) = 0
               PROVE  /\ \A i \in DOMAIN data : \A line \in data[i] :
                           /\ line % CACHE_LINE_SIZE = 0
                           /\ \A j \in DOMAIN data \ {i} : line \notin data[j]
                      /\ RegularNumbers => \A o \in io_ops : o.target = "pmem" =>
                           \A address \in o.addresses : LinesOf(address) \subseteq UNION Range(data)
    BY DEF ReadsGeneratedData
  <2>1. c \in Configs /\ Valid(c) /\ thread \in 0 .. c.number_threads
    BY DEF LayoutInv
  <2>2. mem \in Nat /\ c.access_size \in Nat \ {0} /\ c.number_threads \in Nat
    BY <2>1, SizesOfValid
  <2>3. DOMAIN data = 1 .. NUM_UTIL_THREADS
    BY DEF generate_read_data
  <2>4. h \in Nat /\ mem = CACHE_LINE_SIZE * (NUM_UTIL_THREADS * h)
    BY <2>2 DEF NUM_UTIL_THREADS, CACHE_LINE_SIZE
  <2>5. ASSUME NEW i \in 1 .. NUM_UTIL_THREADS, NEW line
        PROVE  line \in data[i] <=> \E n \in (i - 1) * h .. i * h - 1 : line = CACHE_LINE_SIZE * n
    BY <2>2, SharesGenerated
  <2> HIDE DEF mem, data, h
  <2>6. ASSUME NEW i \in DOMAIN data, NEW line \in data[i]
        PROVE  /\ line % CACHE_LINE_SIZE = 0
               /\ \A j \in DOMAIN data \ {i} : line \notin data[j]
    <3>1. PICK n \in (i - 1) * h .. i * h - 1 : line = CACHE_LINE_SIZE * n
      BY <2>3, <2>5, <2>6
    <3>2. n \in Int
      BY <3>1
    <3>3. line % CACHE_LINE_SIZE = 0
      BY <3>1, <3>2 DEF CACHE_LINE_SIZE
    <3>4. ASSUME NEW j \in DOMAIN data, j # i, line \in data[j] PROVE FALSE
      <4>1. PICK m \in (j - 1) * h .. j * h - 1 : line = CACHE_LINE_SIZE * m
        BY <2>3, <2>5, <3>4
      <4>2. m = n
        BY <3>1, <3>2, <4>1 DEF CACHE_LINE_SIZE
      <4>3. i \in Nat /\ j \in Nat /\ i - 1 \in Nat /\ j - 1 \in Nat
        BY <2>3 DEF NUM_UTIL_THREADS
      <4>4. /\ (i - 1) * h <= n /\ n < i * h /\ (j - 1) * h <= n /\ n < j * h
            /\ i * h \in Nat /\ j * h \in Nat /\ (i - 1) * h \in Nat /\ (j - 1) * h \in Nat
        BY <2>4, <3>1, <4>1, <4>2, <4>3
      <4>5. CASE i < j
        <5>1. i * h <= (j - 1) * h
          BY <2>4, <4>3, <4>5, TimesMonotonic
        <5> QED  BY <3>2, <4>4, <5>1
      <4>6. CASE j < i
        <5>1. j * h <= (i - 1) * h
          BY <2>4, <4>3, <4>6, TimesMonotonic
        <5> QED  BY <3>2, <4>4, <5>1
      <4> QED  BY <3>4, <4>3, <4>5, <4>6
    <3> QED  BY <3>3, <3>4
  <2>7. ASSUME NEW n \in 0 .. NUM_UTIL_THREADS * h - 1
        PROVE  CACHE_LINE_SIZE * n \in UNION Range(data)
    <3>1. n \in Nat /\ n < 8 * h /\ h \in Nat \ {0}
      BY <2>4 DEF NUM_UTIL_THREADS
    <3>2. n \div h \in Nat /\ n % h \in 0 .. h - 1 /\ n = h * (n \div h) + (n % h)
      BY <3>1, DivModNat
    <3>3. n \div h < 8
      <4> SUFFICES ASSUME 8 <= n \div h PROVE FALSE
        BY <3>2
      <4>1. h * 8 <= h * (n \div h) /\ h * (n \div h) \in Nat
        BY <3>1, <3>2, TimesMonotonic
      <4> QED  BY <3>1, <3>2, <4>1
    <3> DEFINE i == n \div h + 1
    <3>4. i \in 1 .. NUM_UTIL_THREADS
      BY <3>2, <3>3 DEF NUM_UTIL_THREADS
    <3>5. n \in (i - 1) * h .. i * h - 1
      <4> DEFINE d == n \div h
      <4>1. d \in Nat /\ i = d + 1 /\ n = h * d + (n % h) /\ n % h \in 0 .. h - 1
        BY <3>2
      <4> HIDE DEF d, i
      <4>2. /\ i - 1 = d /\ (i - 1) * h = h * d /\ h * d \in Nat
            /\ i * h = h * d + h
        BY <3>1, <4>1
      <4> QED  BY <3>1, <4>1, <4>2
    <3> HIDE DEF i
    <3>6. CACHE_LINE_SIZE * n \in data[i]
      BY <2>5, <3>4, <3>5
    <3> QED  BY <2>3, <3>4, <3>6 DEF Range
  <2>8. ASSUME RegularNumbers, NEW o \in io_ops, o.target = "pmem", NEW address \in o.addresses
        PROVE  LinesOf(address) \subseteq UNION Range(data)
    <3>1. PICK t \in 0 .. thread - 1 : o \in OpsOfThread(c, t)
      BY DEF LayoutInv
    <3>2. t \in 0 .. c.number_threads - 1
      BY <2>1, <2>2
    <3>3. PICK b \in Int : address = CACHE_LINE_SIZE * b
      <4>1. address \in Lines
        BY <2>1, <2>8, <3>1, <3>2, AddressesAreLines DEF RegularNumbers
      <4> QED  BY <4>1 DEF Lines
    <3>4. PICK w \in Int : c.access_size = CACHE_LINE_SIZE * w
      BY <2>1, SizesAreLines DEF Lines
    <3>5. 0 <= address /\ address + c.access_size <= mem
      <4>1. AccessesInMemoryRange
        BY InMemoryRange
      <4> QED  BY <2>8, <4>1 DEF AccessesInMemoryRange, Within, mem
    <3>6. b \in Nat /\ w \in Nat /\ b + w <= NUM_UTIL_THREADS * h
      BY <2>2, <2>4, <3>3, <3>4, <3>5 DEF CACHE_LINE_SIZE, NUM_UTIL_THREADS
    <3>7. LinesOf(address) = write_data(CACHE_LINE_SIZE * b, CACHE_LINE_SIZE * (b + w))
      <4>1. address + c.access_size = CACHE_LINE_SIZE * (b + w)
        BY <3>3, <3>4 DEF CACHE_LINE_SIZE
      <4> QED  BY <3>3, <4>1 DEF LinesOf
    <3>8. ASSUME NEW line \in LinesOf(address) PROVE line \in UNION Range(data)
      <4>1. PICK n \in b .. b + w - 1 : line = CACHE_LINE_SIZE * n
        <5>1. line \in write_data(CACHE_LINE_SIZE * b, CACHE_LINE_SIZE * (b + w))
          BY <3>7, <3>8
        <5>2. write_data(CACHE_LINE_SIZE * b, CACHE_LINE_SIZE * (b + w))
                = {CACHE_LINE_SIZE * n : n \in b .. b + w - 1}
          BY <3>6, LinesWritten
        <5> QED  BY <5>1, <5>2
      <4>2. n \in 0 .. NUM_UTIL_THREADS * h - 1
        BY <2>4, <3>6, <4>1 DEF NUM_UTIL_THREADS
      <4> QED  BY <2>7, <4>1, <4>2
    <3> QED  BY <3>8
  <2> QED  BY <2>6, <2>8
<1> QED  BY <1>1, Generating, PTL

-----------------------------------------------------------------------------
(* No part of the memory range is forgotten.                               *)

(* The accesses that sequential chunks consist of fill the memory, and so  *)
(* do the partitions: then partitions are as long as their chunks.         *)
EvenlyDivided(c) ==
  /\ ~IsRandom(c) /\ c.access_size <= c.min_io_chunk_size
  /\ num_partitions(c) = 1 \/ num_chunks(c) % c.number_threads = 0

(* The chunks fill the memory range, ...                                   *)
LEMMA ChunksFillMemory ==
  ASSUME NEW c \in Configs, Valid(c), EvenlyDivided(c)
  PROVE  /\ ops_per_chunk(c) * c.access_size = c.min_io_chunk_size
         /\ num_chunks(c) * c.min_io_chunk_size = c.memory_range
         /\ c.memory_range \div c.access_size = num_chunks(c) * ops_per_chunk(c)
<1> DEFINE a == c.access_size
           s == c.min_io_chunk_size
           mem == c.memory_range
           opc == ops_per_chunk(c)
           NC == num_chunks(c)
           M == mem \div s
<1>1. a \in Nat \ {0} /\ s \in Nat \ {0} /\ mem \in Nat /\ opc \in Nat \ {0} /\ mem % s = 0
  BY SizesOfValid, ChunksOfValid DEF Valid, WorkValid
<1>2. opc * a = s
  <2>1. CASE a < s
    BY <2>1, AccessesFillChunk
  <2>2. CASE ~(a < s)
    <3>1. a = s
      BY <1>1, <2>2 DEF EvenlyDivided
    <3>2. opc = 1
      BY <2>2 DEF ops_per_chunk
    <3> HIDE DEF a, s, opc
    <3> QED  BY <1>1, <3>1, <3>2
  <2> QED  BY <2>1, <2>2
<1>3. NC = (mem \div a) \div opc
  <2> DEFINE n == mem \div a
  <2>1. n \in Nat
    <3> HIDE DEF mem, a
    <3> QED  BY <1>1, DivModNat
  <2>2. n \div opc \in Nat
    <3> HIDE DEF n, opc
    <3> QED  BY <1>1, <2>1, DivModNat
  <2> QED  BY <2>2 DEF EvenlyDivided, num_chunks, num_operations
<1> HIDE DEF a, s, mem, opc, NC, M
<1>4. M \in Nat /\ mem = s * M
  <2>1. M \in Nat /\ mem = s * M + (mem % s)
    BY <1>1, DivModNat DEF M
  <2>2. s * M \in Nat
    BY <1>1, <2>1
  <2> QED  BY <1>1, <2>1, <2>2
<1>5. M * opc \in Nat /\ mem = (M * opc) * a + 0
  BY <1>1, <1>2, <1>4
<1>6. mem \div a = M * opc
  <2>1. 0 \in 0 .. a - 1
    BY <1>1
  <2> DEFINE u == M * opc
  <2> HIDE DEF u
  <2>2. u \in Nat /\ mem = u * a + 0
    BY <1>5 DEF u
  <2>3. (u * a + 0) \div a = u
    BY <1>1, <2>1, <2>2, DivModUnique
  <2> QED  BY <2>2, <2>3 DEF u
<1>7. NC = M
  <2>1. 0 \in 0 .. opc - 1
    BY <1>1
  <2>2. (M * opc + 0) \div opc = M
    BY <1>1, <1>4, <2>1, DivModUnique
  <2>3. M * opc + 0 = M * opc
    BY <1>5
  <2> QED  BY <1>3, <1>6, <2>2, <2>3
<1>8. NC * s = mem
  BY <1>1, <1>4, <1>7
<1> QED  BY <1>2, <1>6, <1>7, <1>8 DEF a, s, mem, opc, NC

(* Chunks per thread, when they divide evenly                              *)
Turns(c) == num_chunks(c) \div c.number_threads

(* ... and so do the partitions, with as many chunks for each thread.      *)
LEMMA PartitionsFillMemory ==
  ASSUME NEW c \in Configs, Valid(c), EvenlyDivided(c)
  PROVE  /\ num_partitions(c) * partition_size(c) = c.memory_range
         /\ Turns(c) \in Nat
         /\ num_partitions(c) # 1 =>
              /\ num_chunks(c) = Turns(c) * c.number_threads
              /\ partition_size(c) = (Turns(c) * num_threads_per_partition(c))
                                       * c.min_io_chunk_size
              /\ \A t \in 0 .. c.number_threads - 1 : num_chunks_per_thread(c, t) = Turns(c)
<1> DEFINE np == num_partitions(c)
           tpp == num_threads_per_partition(c)
           s == c.min_io_chunk_size
           mem == c.memory_range
           NC == num_chunks(c)
           T == c.number_threads
           q == Turns(c)
           psize == partition_size(c)
<1>1. /\ np \in Nat \ {0} /\ tpp \in Nat \ {0} /\ T \in Nat \ {0} /\ T = np * tpp
      /\ s \in Nat \ {0} /\ mem \in Nat /\ NC \in Nat /\ psize \in Nat
      /\ np * psize <= mem /\ mem < np * psize + np
      /\ NC * s = mem
  BY SizesOfValid, PartitionsOfValid, ChunksOfValid, ChunksFillMemory
<1>2. q = NC \div T
  BY DEF Turns
<1>3. np # 1 => NC % T = 0
  BY DEF EvenlyDivided
<1>4. \A t : num_chunks_per_thread(c, t) = q + (IF t < NC % T THEN 1 ELSE 0)
  BY DEF num_chunks_per_thread, Turns
<1>5. q \in Nat /\ NC = T * q + (NC % T)
  <2> HIDE DEF NC, T, q
  <2> QED  BY <1>1, <1>2, DivModNat
<1> HIDE DEF np, tpp, s, mem, NC, T, q, psize
<1>6. CASE np = 1
  <2>1. np * psize = mem
    BY <1>1, <1>6
  <2> QED  BY <1>5, <1>6, <2>1 DEF np, psize, mem, q
<1>7. CASE np # 1
  <2>1. NC = q * T /\ q * tpp \in Nat /\ (q * tpp) * s \in Nat
    <3>1. q * tpp \in Nat
      BY <1>1, <1>5
    <3> QED  BY <1>1, <1>3, <1>5, <1>7, <3>1
  <2>2. mem = np * ((q * tpp) * s)
    <3>1. q * T = np * (q * tpp)
      BY <1>1, <1>5
    <3>2. (np * (q * tpp)) * s = np * ((q * tpp) * s)
      BY <1>1, <2>1
    <3> QED  BY <1>1, <2>1, <3>1, <3>2
  <2>3. psize = (q * tpp) * s
    <3> DEFINE u == (q * tpp) * s
               e == mem - np * psize
    <3> HIDE DEF u
    <3>1. e \in 0 .. np - 1 /\ np * u = np * psize + e /\ np * psize <= np * u + 0
          /\ u \in Nat
      BY <1>1, <2>1, <2>2 DEF u
    <3> HIDE DEF e
    <3>2. u <= psize
      BY <1>1, <3>1, TimesCancel
    <3>3. psize <= u
      <4>1. 0 \in 0 .. np - 1
        BY <1>1
      <4> QED  BY <1>1, <3>1, <4>1, TimesCancel
    <3> QED  BY <1>1, <3>1, <3>2, <3>3 DEF u
  <2>4. \A t \in 0 .. T - 1 : num_chunks_per_thread(c, t) = q
    <3> SUFFICES ASSUME NEW t \in 0 .. T - 1 PROVE num_chunks_per_thread(c, t) = q
      OBVIOUS
    <3>1. ~(t < NC % T)
      BY <1>1, <1>3, <1>7
    <3> QED  BY <1>4, <1>5, <3>1
  <2> QED  BY <1>5, <2>1, <2>2, <2>3, <2>4 DEF np, tpp, s, mem, NC, T, q, psize
<1> QED  BY <1>6, <1>7

(* The position of the chunk of a place, counted in chunks from the start  *)
(* of the memory (from its end, if the addresses descend).                 *)
Position(c, p) ==
  (PartitionOf(c, p[1]) * Turns(c) + p[2]) * num_threads_per_partition(c)
    + (p[1] % num_threads_per_partition(c))

(* The components of a place.                                              *)
LEMMA PlaceTyping ==
  ASSUME NEW c \in Configs, Valid(c), NEW p \in Places(c)
  PROVE  /\ p[1] \in 0 .. c.number_threads - 1 /\ p[2] \in Nat
         /\ p[2] \in 0 .. num_chunks_per_thread(c, p[1]) - 1
         /\ p[3] \in 0 .. ops_per_chunk(c) - 1 /\ p = <<p[1], p[2], p[3]>>
BY DEF Places

(* No two chunks are at the same position: in several partitions, because  *)
(* each has just its threads' turns.                                       *)
LEMMA PositionUnique ==
  ASSUME NEW c \in Configs, Valid(c), EvenlyDivided(c),
         NEW p \in Places(c), NEW r \in Places(c), Position(c, p) = Position(c, r)
  PROVE  p[1] = r[1] /\ p[2] = r[2]
<1> DEFINE np == num_partitions(c)
           tpp == num_threads_per_partition(c)
           q == Turns(c)
           P == PartitionOf(c, p[1])
           R == PartitionOf(c, r[1])
           x == p[1] % tpp
           y == r[1] % tpp
           k == p[2]
           l == r[2]
<1>1. /\ np \in Nat \ {0} /\ tpp \in Nat \ {0} /\ q \in Nat
      /\ P \in 0 .. np - 1 /\ R \in 0 .. np - 1 /\ x \in 0 .. tpp - 1 /\ y \in 0 .. tpp - 1
      /\ k \in Nat /\ l \in Nat
      /\ p[1] = P * tpp + x /\ r[1] = R * tpp + y
  BY PlaceTyping, PlaceOfThread, PartitionsOfValid, PartitionsFillMemory
<1>2. (P * q + k) * tpp + x = (R * q + l) * tpp + y
  BY DEF Position
<1>3. np # 1 => k < q /\ l < q
  <2> SUFFICES ASSUME np # 1 PROVE k < q /\ l < q
    OBVIOUS
  <2>1. num_chunks_per_thread(c, p[1]) = q /\ num_chunks_per_thread(c, r[1]) = q
    BY PlaceTyping, PartitionsFillMemory
  <2> QED  BY <1>1, <2>1, PlaceTyping
<1> HIDE DEF np, tpp, q, P, R, x, y, k, l
<1>4. P * q + k \in Nat /\ R * q + l \in Nat
  BY <1>1
<1>5. P * q + k = R * q + l /\ x = y
  <2> DEFINE u == P * q + k
             v == R * q + l
  <2>1. u \in Nat /\ v \in Nat /\ u * tpp + x = v * tpp + y
    BY <1>2, <1>4
  <2> HIDE DEF u, v
  <2>2. (u * tpp + x) \div tpp = u /\ (u * tpp + x) % tpp = x
    BY <1>1, <2>1, DivModUnique
  <2>3. (v * tpp + y) \div tpp = v /\ (v * tpp + y) % tpp = y
    BY <1>1, <2>1, DivModUnique
  <2>4. u = v /\ x = y
    BY <2>1, <2>2, <2>3
  <2> QED  BY <2>4 DEF u, v
<1>6. P = R /\ k = l
  <2>1. CASE np = 1
    <3>1. P = 0 /\ R = 0
      BY <1>1, <2>1
    <3> QED  BY <1>1, <1>5, <3>1
  <2>2. CASE np # 1
    <3>1. /\ q \in Nat \ {0} /\ k \in 0 .. q - 1 /\ l \in 0 .. q - 1
          /\ P \in Nat /\ R \in Nat
      BY <1>1, <1>3, <2>2
    <3>2. (P * q + k) \div q = P /\ (P * q + k) % q = k
      BY <3>1, DivModUnique
    <3>3. (R * q + l) \div q = R /\ (R * q + l) % q = l
      BY <3>1, DivModUnique
    <3> QED  BY <1>5, <3>2, <3>3
  <2> QED  BY <2>1, <2>2
<1>7. p[1] = r[1]
  BY <1>1, <1>5, <1>6
<1> QED  BY <1>6, <1>7 DEF k, l

(* There is a chunk at every position.                                     *)
LEMMA PositionTaken ==
  ASSUME NEW c \in Configs, Valid(c), EvenlyDivided(c),
         NEW j \in 0 .. num_chunks(c) - 1, NEW i \in 0 .. ops_per_chunk(c) - 1
  PROVE  \E p \in Places(c) : Position(c, p) = j /\ p[3] = i
<1> DEFINE np == num_partitions(c)
           tpp == num_threads_per_partition(c)
           q == Turns(c)
           T == c.number_threads
           NC == num_chunks(c)
<1>1. /\ np \in Nat \ {0} /\ tpp \in Nat \ {0} /\ q \in Nat /\ T \in Nat \ {0}
      /\ NC \in Nat /\ T = np * tpp /\ j \in Nat /\ j + 1 <= NC
  BY SizesOfValid, PartitionsOfValid, PartitionsFillMemory, ChunksOfValid
<1>2. CASE np = 1
  <2> DEFINE t == j % T
             k == j \div T
             p == <<t, k, i>>
  <2>1. t \in 0 .. T - 1 /\ k \in 0 .. num_chunks_per_thread(c, t) - 1 /\ j = k * T + t
    BY ThreadOfChunk
  <2>2. k \in Nat
    BY <2>1, ChunkOfThread
  <2>3. T = tpp
    BY <1>1, <1>2
  <2>4. PartitionOf(c, t) = 0 /\ t % tpp = t
    <3>1. 0 \in Nat /\ t \in 0 .. tpp - 1
      BY <2>1, <2>3
    <3>2. (0 * tpp + t) \div tpp = 0 /\ (0 * tpp + t) % tpp = t
      <4> HIDE DEF t, tpp
      <4> QED  BY <1>1, <3>1, DivModUnique
    <3>3. 0 * tpp + t = t
      <4> HIDE DEF t, tpp
      <4> QED  BY <1>1, <3>1
    <3> QED  BY <3>2, <3>3 DEF PartitionOf
  <2> HIDE DEF t, k
  <2>5. p \in Places(c)
    BY <2>1, <2>2 DEF Places
  <2>6. Position(c, p) = (0 * q + k) * tpp + t
    BY <2>4 DEF Position
  <2>7. Position(c, p) = j
    <3> HIDE DEF q, tpp, T, p
    <3> QED  BY <1>1, <2>1, <2>2, <2>3, <2>6
  <2> QED  BY <2>5, <2>7
<1>3. CASE np # 1
  <2> DEFINE u == j \div tpp
             x == j % tpp
             P == u \div q
             k == u % q
             t == P * tpp + x
             p == <<t, k, i>>
  <2>1. /\ NC = q * T
        /\ \A n \in 0 .. T - 1 : num_chunks_per_thread(c, n) = q
    BY <1>3, PartitionsFillMemory
  <2> HIDE DEF np, tpp, q, T, NC
  <2>2. u \in Nat /\ x \in 0 .. tpp - 1 /\ j = tpp * u + x
    BY <1>1, DivModNat
  <2>3. q \in Nat \ {0}
    BY <1>1, <2>1
  <2>4. P \in Nat /\ k \in 0 .. q - 1 /\ u = q * P + k
    <3> HIDE DEF u
    <3> QED  BY <2>2, <2>3, DivModNat
  <2> HIDE DEF u, x, P, k
  <2>5. P < np
    <3> SUFFICES ASSUME np <= P PROVE FALSE
      BY <1>1, <2>4
    <3>1. q * np <= q * P /\ q * np \in Nat /\ q * P \in Nat
      BY <1>1, <2>3, <2>4, TimesMonotonic
    <3>2. q * np <= u
      BY <2>3, <2>4, <3>1
    <3>3. tpp * (q * np) <= tpp * u
      BY <1>1, <2>2, <3>1, <3>2, TimesMonotonic
    <3>4. tpp * (q * np) = NC /\ tpp * u \in Nat
      <4>1. tpp * (q * np) = q * (np * tpp)
        BY <1>1
      <4> QED  BY <1>1, <2>1, <2>2, <4>1
    <3> QED  BY <1>1, <2>2, <3>3, <3>4
  <2>6. t \in 0 .. T - 1
    <3>1. (P + 1) * tpp <= np * tpp /\ (P + 1) * tpp = P * tpp + tpp /\ P * tpp \in Nat
      BY <1>1, <2>4, <2>5, TimesMonotonic
    <3> QED  BY <1>1, <2>2, <3>1
  <2>7. PartitionOf(c, t) = P /\ t % tpp = x
    <3>1. t \div tpp = P /\ t % tpp = x
      BY <1>1, <2>2, <2>4, DivModUnique
    <3> QED  BY <3>1 DEF PartitionOf, tpp
  <2> HIDE DEF t
  <2>8. p \in Places(c)
    BY <2>1, <2>4, <2>6 DEF Places, T
  <2>9. Position(c, p) = (P * q + k) * tpp + x
    BY <2>7 DEF Position, q, tpp
  <2>10. Position(c, p) = j
    <3>1. P * q + k = u
      BY <2>3, <2>4
    <3>2. u * tpp + x = j
      BY <1>1, <2>2
    <3> QED  BY <2>9, <3>1, <3>2
  <2> QED  BY <2>8, <2>10
<1> QED  BY <1>2, <1>3

(* The address of the operation of a place, ascending                      *)
Ascending(c, p) ==
  PartitionOf(c, p[1]) * partition_size(c) + thread_chunk_offset(c, p[1], p[2])
    + p[3] * c.access_size

(* An ascending address is that of its position in the memory range.       *)
LEMMA AscendingPosition ==
  ASSUME NEW c \in Configs, Valid(c), EvenlyDivided(c), NEW p \in Places(c)
  PROVE  /\ Position(c, p) \in Nat
         /\ Ascending(c, p) = (Position(c, p) * ops_per_chunk(c) + p[3]) * c.access_size
<1> DEFINE np == num_partitions(c)
           tpp == num_threads_per_partition(c)
           q == Turns(c)
           psize == partition_size(c)
           P == PartitionOf(c, p[1])
           x == p[1] % tpp
           k == p[2]
           i == p[3]
           s == c.min_io_chunk_size
           a == c.access_size
           opc == ops_per_chunk(c)
<1>1. /\ np \in Nat \ {0} /\ tpp \in Nat \ {0} /\ q \in Nat /\ psize \in Nat
      /\ P \in 0 .. np - 1 /\ x \in 0 .. tpp - 1 /\ k \in Nat
      /\ s \in Nat \ {0} /\ a \in Nat \ {0} /\ opc \in Nat \ {0} /\ i \in 0 .. opc - 1
      /\ opc * a = s
  BY SizesOfValid, ChunksOfValid, PlaceTyping, PlaceOfThread, PartitionsOfValid,
     PartitionsFillMemory, ChunksFillMemory
<1>2. np # 1 => psize = (q * tpp) * s
  BY PartitionsFillMemory
<1>3. /\ Position(c, p) = (P * q + k) * tpp + x
      /\ Ascending(c, p) = P * psize + (k * tpp * s + x * s) + i * a
  BY DEF Position, Ascending, thread_chunk_offset
<1> HIDE DEF np, tpp, q, psize, P, x, k, i, s, a, opc
<1>4. P * psize = (P * q * tpp) * s
  <2>1. CASE np = 1
    <3>1. P = 0
      BY <1>1, <2>1
    <3>2. 0 * q * tpp = 0 /\ 0 * psize = 0 /\ 0 * s = 0
      BY <1>1
    <3> QED  BY <3>1, <3>2
  <2>2. CASE np # 1
    BY <1>1, <1>2, <2>2
  <2> QED  BY <2>1, <2>2
<1> DEFINE pos == (P * q + k) * tpp + x
<1>5. pos \in Nat /\ pos = P * q * tpp + k * tpp + x
  <2>1. P * q \in Nat /\ (P * q + k) * tpp = P * q * tpp + k * tpp
    BY <1>1
  <2>2. P * q * tpp \in Nat /\ k * tpp \in Nat
    BY <1>1, <2>1
  <2> QED  BY <1>1, <2>1, <2>2
<1>6. (P * q * tpp) * s + (k * tpp * s + x * s) = pos * s
  <2> DEFINE A == P * q * tpp
             B == k * tpp
  <2>1. A \in Nat /\ B \in Nat
    BY <1>1
  <2>2. pos = A + B + x
    BY <1>5
  <2> HIDE DEF A, B, pos
  <2>3. A * s + (B * s + x * s) = (A + B + x) * s
    BY <1>1, <2>1
  <2> QED  BY <2>2, <2>3 DEF A, B
<1> HIDE DEF pos
<1>7. pos * s + i * a = (pos * opc + i) * a
  BY <1>1, <1>5
<1>8. Ascending(c, p) = (pos * opc + i) * a
  <2>1. P * psize + (k * tpp * s + x * s) = pos * s
    BY <1>4, <1>6
  <2> QED  BY <1>3, <1>7, <2>1
<1> QED  BY <1>3, <1>5, <1>8 DEF pos, a, i, opc

(* The number of the access at an address, from the same end               *)
AccessNumber(c, p) == Position(c, p) * ops_per_chunk(c) + p[3]

(* Every location is that of one place.                                    *)
LEMMA AccessNumberUnique ==
  ASSUME NEW c \in Configs, Valid(c), EvenlyDivided(c),
         NEW m \in 0 .. num_chunks(c) * ops_per_chunk(c) - 1
  PROVE  \E p \in Places(c) : \A r \in Places(c) : AccessNumber(c, r) = m <=> r = p
<1> DEFINE opc == ops_per_chunk(c)
           NC == num_chunks(c)
           j == m \div opc
           i == m % opc
<1>1. opc \in Nat \ {0} /\ NC \in Nat /\ NC * opc \in Nat /\ m \in Nat /\ m + 1 <= NC * opc
  <2>1. opc \in Nat \ {0} /\ NC \in Nat
    BY ChunksOfValid
  <2> HIDE DEF opc, NC
  <2>2. NC * opc \in Nat
    BY <2>1
  <2> QED  BY <2>1, <2>2 DEF opc, NC
<1> HIDE DEF opc, NC
<1>2. j \in Nat /\ i \in 0 .. opc - 1 /\ m = opc * j + i
  BY <1>1, DivModNat
<1> HIDE DEF j, i
<1>3. j \in 0 .. NC - 1
  <2> SUFFICES ASSUME NC <= j PROVE FALSE
    BY <1>1, <1>2
  <2>1. NC * opc <= j * opc /\ j * opc = opc * j /\ opc * j \in Nat
    BY <1>1, <1>2, TimesMonotonic
  <2> QED  BY <1>1, <1>2, <2>1
<1>4. PICK p \in Places(c) : Position(c, p) = j /\ p[3] = i
  BY <1>2, <1>3, PositionTaken DEF opc, NC
<1>5. AccessNumber(c, p) = m
  <2>1. AccessNumber(c, p) = j * opc + i
    BY <1>4 DEF AccessNumber, opc
  <2> QED  BY <1>1, <1>2, <2>1
<1>6. ASSUME NEW r \in Places(c), AccessNumber(c, r) = m
      PROVE  r = p
  <2> DEFINE l == Position(c, r)
             n == r[3]
  <2>1. l \in Nat /\ n \in 0 .. opc - 1 /\ l * opc + n = m
    BY <1>6, AscendingPosition, PlaceTyping DEF AccessNumber, opc
  <2>2. l = j /\ n = i
    <3> HIDE DEF l, n
    <3>1. (l * opc + n) \div opc = l /\ (l * opc + n) % opc = n
      BY <1>1, <2>1, DivModUnique
    <3> QED  BY <2>1, <3>1 DEF j, i
  <2>3. r[1] = p[1] /\ r[2] = p[2] /\ r[3] = p[3]
    BY <1>4, <2>2, PositionUnique
  <2>4. r = <<r[1], r[2], r[3]>> /\ p = <<p[1], p[2], p[3]>>
    BY PlaceTyping
  <2> QED  BY <2>3, <2>4
<1> QED  BY <1>5, <1>6

(* Descending addresses mirror the ascending ones.                         *)
LEMMA AddressOfPlace ==
  ASSUME NEW c \in Configs, Valid(c), EvenlyDivided(c), NEW p \in Places(c)
  PROVE  /\ Ascending(c, p) \in Nat
         /\ op_address(c, p[1], p[2], p[3]) =
              IF c.exec_mode = "Sequential_Desc"
              THEN c.memory_range - c.access_size - Ascending(c, p)
              ELSE Ascending(c, p)
<1> DEFINE np == num_partitions(c)
           P == PartitionOf(c, p[1])
           psize == partition_size(c)
           mem == c.memory_range
           a == c.access_size
           offset == thread_chunk_offset(c, p[1], p[2])
           ia == p[3] * c.access_size
           acc == Ascending(c, p)
<1>1. /\ np \in Nat \ {0} /\ P \in 0 .. np - 1 /\ psize \in Nat /\ mem \in Nat
      /\ a \in Nat \ {0} /\ offset \in Nat /\ ia \in Nat /\ np * psize = mem
  <2>1. /\ np \in Nat \ {0} /\ P \in 0 .. np - 1 /\ psize \in Nat /\ mem \in Nat
        /\ a \in Nat \ {0} /\ np * psize = mem
    BY SizesOfValid, PlaceTyping, PlaceOfThread, PartitionsOfValid, PartitionsFillMemory
  <2>2. offset \in Nat
    BY PlaceTyping, OffsetInMemory DEF EvenlyDivided
  <2>3. ia \in Nat
    <3>1. p[3] \in Nat
      BY PlaceTyping, ChunksOfValid
    <3> HIDE DEF a
    <3>2. p[3] * a \in Nat
      BY <2>1, <3>1
    <3> QED  BY <3>2 DEF a
  <2> QED  BY <2>1, <2>2, <2>3
<1>2. acc = P * psize + offset + ia
  BY DEF Ascending
<1>3. op_address(c, p[1], p[2], p[3]) =
        IF c.exec_mode = "Sequential_Desc" THEN ((np - P) * psize - a) - offset - ia
        ELSE P * psize + offset + ia
  BY DEF op_address, partition_start
<1> HIDE DEF np, P, psize, mem, a, offset, ia, acc
<1>4. P * psize \in Nat /\ (np - P) * psize = mem - P * psize
  BY <1>1
<1>5. acc \in Nat /\ ((np - P) * psize - a) - offset - ia = mem - a - acc
  BY <1>1, <1>2, <1>4
<1> QED  BY <1>2, <1>3, <1>5 DEF mem, a, acc

(* The sequential modes access each location at one place.                 *)
LEMMA LocationAccessedOnce ==
  ASSUME NEW c \in Configs, Valid(c), EvenlyDivided(c),
         NEW n \in 0 .. (c.memory_range \div c.access_size) - 1
  PROVE  \E p \in Places(c) : \A r \in Places(c) :
           op_address(c, r[1], r[2], r[3]) = n * c.access_size <=> r = p
<1> DEFINE a == c.access_size
           mem == c.memory_range
           N == num_chunks(c) * ops_per_chunk(c)
           m == IF c.exec_mode = "Sequential_Desc" THEN N - 1 - n ELSE n
<1>1. a \in Nat \ {0} /\ mem \in Nat /\ N \in Nat /\ mem = N * a /\ n \in 0 .. N - 1
  <2>1. /\ a \in Nat \ {0} /\ mem \in Nat /\ ops_per_chunk(c) \in Nat /\ num_chunks(c) \in Nat
        /\ ops_per_chunk(c) * a = c.min_io_chunk_size
        /\ num_chunks(c) * c.min_io_chunk_size = mem
        /\ n \in 0 .. N - 1
    BY SizesOfValid, ChunksOfValid, ChunksFillMemory
  <2> HIDE DEF a, mem
  <2>2. N \in Nat /\ mem = N * a
    BY <2>1
  <2> QED  BY <2>1, <2>2
<1>2. m \in 0 .. N - 1
  <2> HIDE DEF N
  <2> QED  BY <1>1
<1>3. PICK p \in Places(c) : \A r \in Places(c) : AccessNumber(c, r) = m <=> r = p
  BY <1>2, AccessNumberUnique
<1>4. ASSUME NEW r \in Places(c)
      PROVE  op_address(c, r[1], r[2], r[3]) = n * a <=> AccessNumber(c, r) = m
  <2> DEFINE v == AccessNumber(c, r)
             address == op_address(c, r[1], r[2], r[3])
  <2>1. v \in Nat
    <3> DEFINE j == Position(c, r)
               i == r[3]
               opc == ops_per_chunk(c)
    <3>1. j \in Nat /\ i \in Nat /\ opc \in Nat
      BY AscendingPosition, PlaceTyping, ChunksOfValid
    <3>2. v = j * opc + i
      BY DEF AccessNumber
    <3> HIDE DEF v, j, i, opc
    <3> QED  BY <3>1, <3>2
  <2>2. address = IF c.exec_mode = "Sequential_Desc" THEN mem - a - v * a ELSE v * a
    BY AddressOfPlace, AscendingPosition DEF AccessNumber
  <2> HIDE DEF v, address, a, mem, N
  <2>3. ASSUME NEW u \in Int, NEW w \in Int
        PROVE  u * a = w * a <=> u = w
    <3>1. (u - w) * a = u * a - w * a
      BY <1>1
    <3>2. (u - w) * a = 0 <=> u - w = 0
      BY <1>1
    <3>3. u * a \in Int /\ w * a \in Int
      BY <1>1
    <3> QED  BY <3>1, <3>2, <3>3
  <2>4. CASE c.exec_mode = "Sequential_Desc"
    <3>1. mem - a - v * a = (N - 1 - v) * a
      BY <1>1, <2>1
    <3>2. address = n * a <=> N - 1 - v = n
      <4>1. N - 1 - v \in Int /\ n \in Int
        BY <1>1, <2>1
      <4> QED  BY <2>2, <2>3, <2>4, <3>1, <4>1
    <3>3. N - 1 - v = n <=> v = N - 1 - n
      BY <1>1, <2>1
    <3> QED  BY <2>4, <3>2, <3>3 DEF v, address
  <2>5. CASE c.exec_mode # "Sequential_Desc"
    <3>1. address = n * a <=> v = n
      BY <1>1, <2>1, <2>2, <2>3, <2>5
    <3> QED  BY <2>5, <3>1 DEF v, address
  <2> QED  BY <2>4, <2>5
<1> QED  BY <1>3, <1>4

(* Hence sequential benchmarks access every location once.                 *)
LEMMA SequentialCovered ==
  ASSUME LayoutInv, Generated, ~IsRandom(config)
  PROVE  SequentialCovers
<1> DEFINE c == config
<1>1. /\ c \in Configs /\ Valid(c) /\ thread = c.number_threads
  BY DEF LayoutInv, Generated
<1> SUFFICES ASSUME EvenlyDivided(c), NEW n \in 0 .. c.memory_range \div c.access_size - 1
             PROVE  Cardinality(Accessed(n * c.access_size)) = 1
  BY DEF SequentialCovers, EvenlyDivided
<1> DEFINE location == n * c.access_size
<1>2. PICK p \in Places(c) : \A r \in Places(c) :
        op_address(c, r[1], r[2], r[3]) = location <=> r = p
  BY <1>1, LocationAccessedOnce
<1> DEFINE OpAt(r) == IoOp(r[1], r[2], r[3], "pmem", {op_address(c, r[1], r[2], r[3])})
<1>3. ASSUME NEW o \in io_ops
      PROVE  PlaceOf(o) \in Places(c) /\ o = OpAt(PlaceOf(o))
  <2>1. PICK t \in 0 .. thread - 1 : o \in OpsOfThread(c, t)
    BY DEF LayoutInv
  <2>2. t \in 0 .. c.number_threads - 1
    BY <1>1, <2>1
  <2>3. PlaceOf(o) \in Places(c)
    BY <1>1, <2>1, <2>2, PlacesOfThread
  <2>4. PICK k \in 0 .. num_chunks_per_thread(c, t) - 1, i \in 0 .. ops_per_chunk(c) - 1 :
          o = IoOp(t, k, i, "pmem", {op_address(c, t, k, i)})
    <3> DEFINE Slots == (0 .. num_chunks_per_thread(c, t) - 1) \X (0 .. ops_per_chunk(c) - 1)
               op(x) == IoOp(t, x[1], x[2], "pmem", {op_address(c, t, x[1], x[2])})
    <3>1. OpsOfThread(c, t) = {op(x) : x \in Slots}
      BY DEF OpsOfThread
    <3>2. PICK x \in Slots : o = op(x)
      <4> HIDE DEF Slots, op
      <4> QED  BY <2>1, <3>1
    <3>3. x[1] \in 0 .. num_chunks_per_thread(c, t) - 1 /\ x[2] \in 0 .. ops_per_chunk(c) - 1
      BY <3>2
    <3> QED  BY <3>2, <3>3
  <2>5. PlaceOf(o) = <<t, k, i>>
    BY <2>4 DEF PlaceOf, IoOp
  <2>6. OpAt(<<t, k, i>>) = IoOp(t, k, i, "pmem", {op_address(c, t, k, i)})
    OBVIOUS
  <2> HIDE DEF OpAt
  <2> QED  BY <2>3, <2>4, <2>5, <2>6
<1>4. \A r : OpAt(r).addresses = {op_address(c, r[1], r[2], r[3])}
  BY DEF IoOp
<1> HIDE DEF OpAt, location
<1>5. ASSUME NEW o \in io_ops
      PROVE  location \in o.addresses <=> PlaceOf(o) = p
  BY <1>2, <1>3, <1>4, <1>5
<1>6. PICK o \in io_ops : PlaceOf(o) = p
  BY PlacesGenerated, <1>2
<1>7. Accessed(location) = {o}
  <2>1. ASSUME NEW x \in io_ops, PlaceOf(x) = p PROVE x = o
    BY <1>3, <1>6, <2>1
  <2> QED  BY <1>5, <1>6, <2>1 DEF Accessed
<1> QED  BY <1>7, FS_Singleton DEF location

(* Random ones may access any location of their partition, and these fill  *)
(* the range.                                                              *)
LEMMA RandomCovered ==
  ASSUME LayoutInv, Generated, IsRandom(config)
  PROVE  RandomCovers
<1> DEFINE c == config
           np == num_partitions(c)
           tpp == num_threads_per_partition(c)
           psize == partition_size(c)
           a == c.access_size
           mem == c.memory_range
           T == c.number_threads
<1> SUFFICES ASSUME c.random_distribution = "Uniform", "pmem" \in Targets(c), mem % np = 0, psize < CountModulus * a,
                    num_chunks(c) >= T, NEW n \in 0 .. mem \div a - 1
             PROVE  Accessed(n * a) # {}
  BY DEF RandomCovers
<1>1. c \in Configs /\ Valid(c) /\ thread = T
  BY DEF LayoutInv, Generated
<1>2. /\ np \in Nat \ {0} /\ tpp \in Nat \ {0} /\ T \in Nat \ {0} /\ T = np * tpp
      /\ a \in Nat \ {0} /\ mem \in Nat /\ psize \in Nat /\ psize % a = 0
      /\ CountModulus \in Nat \ {0} /\ num_chunks(c) \in Nat
  BY <1>1, SizesOfValid, PartitionsOfValid, ChunksOfValid, LayoutAssumption
<1>3. psize = mem \div np
  BY DEF partition_size
<1> HIDE DEF np, tpp, psize, a, mem, T
<1> DEFINE w == psize \div a
<1>4. w \in Nat /\ psize = w * a /\ mem = np * (w * a)
  <2>1. w \in Nat /\ psize = a * w + (psize % a)
    BY <1>2, DivModNat
  <2>2. psize = w * a
    BY <1>2, <2>1
  <2>3. psize \in Nat /\ mem = np * psize + (mem % np)
    BY <1>2, <1>3, DivModNat
  <2>4. mem = np * psize
    BY <1>2, <2>3
  <2> QED  BY <2>1, <2>2, <2>4
<1> HIDE DEF w
<1>5. n \in Nat /\ n + 1 <= np * w
  <2>1. mem = a * (np * w) /\ np * w \in Nat
    BY <1>2, <1>4
  <2>2. mem \div a \in Nat /\ a * (mem \div a) <= mem
    BY <1>2, DivModNat
  <2> DEFINE N == mem \div a
  <2> HIDE DEF N
  <2>3. N \in Nat /\ a * N <= a * (np * w) + 0 /\ 0 \in 0 .. a - 1
    BY <1>2, <2>1, <2>2 DEF N
  <2>4. N <= np * w
    BY <1>2, <2>1, <2>3, TimesCancel
  <2> QED  BY <2>1, <2>2, <2>3, <2>4 DEF N
<1>6. w < CountModulus
  <2> SUFFICES ASSUME CountModulus <= w PROVE FALSE
    BY <1>2, <1>4
  <2>1. CountModulus * a <= w * a /\ CountModulus * a \in Nat
    BY <1>2, <1>4, TimesMonotonic
  <2> QED  BY <1>2, <1>4, <2>1
<1>7. w # 0
  BY <1>2, <1>5
<1> DEFINE P == n \div w
           v == n % w
           t == P * tpp + 0
<1>8. P \in Nat /\ v \in 0 .. w - 1 /\ n = w * P + v
  BY <1>4, <1>5, <1>7, DivModNat
<1> HIDE DEF P, v
<1>9. P < np
  <2> SUFFICES ASSUME np <= P PROVE FALSE
    BY <1>2, <1>8
  <2>1. np * w <= P * w /\ P * w = w * P /\ w * P \in Nat /\ np * w \in Nat
    BY <1>2, <1>4, <1>8, TimesMonotonic
  <2> QED  BY <1>5, <1>8, <2>1
<1>10. t \in 0 .. T - 1 /\ t \div tpp = P
  <2>1. (P + 1) * tpp <= np * tpp /\ (P + 1) * tpp = P * tpp + tpp /\ P * tpp \in Nat
    BY <1>2, <1>8, <1>9, TimesMonotonic
  <2>2. 0 \in 0 .. tpp - 1
    BY <1>2
  <2>3. (P * tpp + 0) \div tpp = P
    BY <1>2, <1>8, <2>2, DivModUnique
  <2> QED  BY <1>2, <2>1, <2>3
<1> HIDE DEF t
<1>11. PartitionOf(c, t) = P
  BY <1>10 DEF PartitionOf, tpp
<1> DEFINE s == <<0, 0>>
<1>12. n * a \in RandomAddresses(c, t, s, "pmem")
  <2>1. partition_start(c, t) = P * psize
    BY <1>11 DEF partition_start, psize, IsRandom
  <2>2. num_accesses(c, psize) = w
    <3>1. w % CountModulus = w
      <4>1. 0 \in Nat /\ w \in 0 .. CountModulus - 1
        BY <1>2, <1>4, <1>6
      <4>2. (0 * CountModulus + w) % CountModulus = w
        BY <1>2, <4>1, DivModUnique
      <4>3. 0 * CountModulus + w = w
        BY <1>2, <1>4
      <4> QED  BY <4>2, <4>3
    <3> QED  BY <3>1 DEF num_accesses, w, a
  <2>3. n * a = P * psize + v * a
    BY <1>2, <1>4, <1>8
  <2>4. RandomAddresses(c, t, s, "pmem") = {P * psize + u * a : u \in 0 .. w - 1}
    <3>1. ZipfRegular(c)
      BY DEF ZipfRegular
    <3> QED  BY <1>1, <2>1, <2>2, <3>1, RegularAddresses DEF psize, a
  <2> QED  BY <1>8, <2>3, <2>4
<1>13. num_chunks_per_thread(c, t) >= 1 /\ num_chunks_per_thread(c, t) \in Nat
  <2> DEFINE NC == num_chunks(c)
             q == NC \div T
             e == NC % T
  <2>1. q \in Nat /\ e \in 0 .. T - 1 /\ NC = T * q + e
    <3> HIDE DEF NC
    <3> QED  BY <1>2, DivModNat DEF NC
  <2>2. num_chunks_per_thread(c, t) = q + (IF t < e THEN 1 ELSE 0)
    BY DEF num_chunks_per_thread, T
  <2>3. q # 0
    <3> HIDE DEF q, e
    <3> QED  BY <1>2, <2>1
  <2> HIDE DEF q, e
  <2> QED  BY <2>1, <2>2, <2>3
<1>14. ops_per_chunk(c) \in Nat \ {0}
  BY <1>1, ChunksOfValid
<1> DEFINE o == IoOp(t, 0, 0, "pmem", RandomAddresses(c, t, s, "pmem"))
<1>15. o \in OpsOfThread(c, t)
  <2> DEFINE Slots == (0 .. num_chunks_per_thread(c, t) - 1) \X (0 .. ops_per_chunk(c) - 1)
  <2>1. s \in Slots /\ s[1] = 0 /\ s[2] = 0
    BY <1>13, <1>14
  <2> HIDE DEF s
  <2>2. IoOp(t, s[1], s[2], "pmem", RandomAddresses(c, t, s, "pmem")) \in OpsOfThread(c, t)
    BY <2>1 DEF OpsOfThread
  <2> QED  BY <2>1, <2>2
<1>16. OpsOfThread(c, t) \subseteq io_ops
  BY <1>1, <1>10 DEF LayoutInv, T
<1>17. o.addresses = RandomAddresses(c, t, s, "pmem")
  BY DEF IoOp
<1> HIDE DEF o
<1> QED  BY <1>12, <1>15, <1>16, <1>17 DEF Accessed

(* A sequential benchmark accesses every location of the memory exactly    *)
(* once when its chunks divide evenly, a random one may access all.        *)
THEOREM RangeCovered == Spec => []CoversRange
<1>1. LayoutInv => CoversRange
  BY SequentialCovered, RandomCovered DEF CoversRange
<1> QED  BY <1>1, Generating, PTL
=============================================================================

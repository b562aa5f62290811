------------------------------ MODULE Operations ------------------------------
(***************************************************************************)
(* What one operation does to memory: an iteration of a custom operation   *)
(* chain (CustomOp::all_from_string, the chain's construction in           *)
(* Benchmark::run_custom_ops_in_thread, ChainedOperation::run) or one      *)
(* IoOperation of a raw benchmark (IoOperation::run), down to the stores,  *)
(* flushes and fences of rw_ops in a build with AVX-512, CLWB and          *)
(* CLFLUSHOPT.                                                             *)
(*                                                                         *)
(* Addresses are byte offsets from the start of the thread's partition,    *)
(* which is aligned to a page; memory is a set of cache lines <<p, n>>,    *)
(* p telling PMem from DRAM.  A chain's text is given by the parts between *)
(* its underscores; the read value and the generator of lehmer64 make any  *)
(* 64-bit number, so a read may go to any address the code maps one to.    *)
(***************************************************************************)
EXTENDS Sequences, Functions, Arithmetic

CONSTANTS Jobs,              \* chains and IoOperations under consideration
          PartitionSize,     \* thread_config->partition_size
          DramPartitionSize, \* thread_config->dram_partition_size
          WordSize           \* bound: stands for 2^64

ASSUME OperationsAssumption ==
  /\ WordSize \in Nat
  /\ PartitionSize \in 1 .. WordSize - 1 /\ PartitionSize % 64 = 0
  /\ DramPartitionSize \in 0 .. WordSize - 1 /\ DramPartitionSize % 64 = 0

VARIABLES pc,           \* "parse", "run", "done", "rejected" or "trapped"
          job,          \* the chain or IoOperation
          next,         \* index of the next operation
          current_addr, \* address of the previous access
          read_addr,    \* history: address of the latest read
          touched,      \* history: lines of the previous access
          memory,       \* where the latest content of written lines is
          promised      \* history: lines whose last writer persists them

vars == <<pc, job, next, current_addr, read_addr, touched, memory, promised>>

-----------------------------------------------------------------------------
(* CustomOp::from_string, all_from_string and validate.                    *)

PersistInstructions == {"nocache", "cache", "cacheinv", "none"}

(* Any text; sizes and addresses of an IoOperation are whole cache lines   *)
(* (ChunkLayout).                                                          *)
ASSUME JobsAssumption ==
  \A j \in Jobs :
    \/ /\ j.kind = "chain"
       /\ j.text \in Seq([location : STRING, size : Nat, persist : STRING,
                          offset : Int, parts : Nat])
    \/ /\ j.kind = "io"
       /\ j.op \in [type : {"Read", "Write"}, is_pmem : BOOLEAN, offset : {0},
                    size : PowersOfTwo, persist : PersistInstructions]
       /\ j.op.size >= 64
       /\ j.addresses \in Seq(Nat) \ {<< >>}
       /\ \A i \in 1 .. Len(j.addresses) : j.addresses[i] % 64 = 0

str_to_op_location ==
  [r  |-> <<"Read", TRUE>>, w  |-> <<"Write", TRUE>>, rp |-> <<"Read", TRUE>>,
   wp |-> <<"Write", TRUE>>, rd |-> <<"Read", FALSE>>, wd |-> <<"Write", FALSE>>]

IsWrite(s) == str_to_op_location[s.location][1] = "Write"

(* What from_string accepts: zero passes as a power of two.                *)
Parses(s) ==
  /\ s.parts >= 2
  /\ s.location \in DOMAIN str_to_op_location
  /\ s.size \in PowersOfTwo \cup {0}
  /\ IsWrite(s) => /\ s.parts >= 3 /\ s.persist \in PersistInstructions
                   /\ s.parts = 4 => s.offset % 64 = 0

(* An offset is read from a text of exactly four parts.                    *)
from_string(s) ==
  [type    |-> str_to_op_location[s.location][1],
   is_pmem |-> str_to_op_location[s.location][2],
   size    |-> s.size,
   persist |-> IF IsWrite(s) THEN s.persist ELSE "none",
   offset  |-> IF IsWrite(s) /\ s.parts = 4 THEN s.offset ELSE 0]

(* Defect: the memory type of writes is not compared                       *)
ValidateFirstOnly(ops) == ops[1].type = "Read"

validate(ops) ==
  /\ ops[1].type = "Read"
  /\ \A i \in 2 .. Len(ops) :
       ops[i].type = "Write" => ops[i].is_pmem = ops[i - 1].is_pmem

all_from_string(text) == [i \in 1 .. Len(text) |-> from_string(text[i])]

Accepted(text) ==
  /\ text # << >>
  /\ \A i \in 1 .. Len(text) : Parses(text[i])
  /\ validate(all_from_string(text))

-----------------------------------------------------------------------------
(* rw_ops: which lines an access of a given size touches.  Sizes from 64   *)
(* to 512 are unrolled, others proceed in steps of 512 bytes.              *)

Lines(addr, bytes) == {n \in (addr \div 64) .. ((addr + bytes) \div 64) :
                         addr < 64 * n + 64 /\ 64 * n < addr + bytes}

Unrolled == {64, 128, 256, 512}

StoredLines(addr, size) ==
  Lines(addr, IF size \in Unrolled THEN size ELSE 512 * ((size + 511) \div 512))

(* The reads of a list of addresses advance through an access ...          *)
ReadListLines(addr, size) == StoredLines(addr, size)

(* ... those of a single address load its first 512 bytes in every step.   *)
ReadLines(addr, size) ==
  IF size \in Unrolled THEN Lines(addr, size)
  ELSE IF size = 0 THEN {} ELSE Lines(addr, 512)

(* Defect: only the first line of an access is flushed                     *)
FlushFirstLine(addr, size) == {addr \div 64}

FlushedLines(addr, size) ==
  {(addr + 64 * k) \div 64 : k \in {n \in 0 .. size \div 64 : 64 * n < size}}

(* A store leaves its lines in the cache; a non-temporal store and a flush *)
(* put lines on their way to memory, where a fence waits for them.         *)
Store(m, L) == [unflushed |-> m.unflushed \cup L, unfenced |-> m.unfenced \ L,
                in_memory |-> m.in_memory \ L]

StoreNonTemporal(m, L) ==
  [unflushed |-> m.unflushed \ L, unfenced |-> m.unfenced \cup L,
   in_memory |-> m.in_memory \ L]

Flush(m, L) == [m EXCEPT !.unflushed = @ \ L,
                         !.unfenced = @ \cup (m.unflushed \cap L)]

sfence_barrier(m) == [m EXCEPT !.unfenced = {}, !.in_memory = @ \cup m.unfenced]

At(op, L) == {op.is_pmem} \X L

(* run_write: the function that persist_instruction and size select        *)
run_write(m, op, addr) ==
  LET stored == At(op, StoredLines(addr, op.size))
      flushed == At(op, FlushedLines(addr, op.size))
  IN CASE op.persist = "none"    -> Store(m, stored)
       [] op.persist = "nocache" -> sfence_barrier(StoreNonTemporal(m, stored))
       [] OTHER                  -> sfence_barrier(Flush(Store(m, stored), flushed))

-----------------------------------------------------------------------------
Ops == IF job.kind = "chain" THEN all_from_string(job.text)
       ELSE [i \in 1 .. Len(job.addresses) |-> job.op]

(* Before its first read a chain's address is the seed of the generator:   *)
(* no address at all.                                                      *)
Seed == -WordSize

Init == /\ job \in Jobs
        /\ pc = IF job.kind = "chain" THEN "parse" ELSE "run"
        /\ next = 1
        /\ current_addr = Seed /\ read_addr = Seed
        /\ touched = {} /\ promised = {}
        /\ memory = [unflushed |-> {}, unfenced |-> {}, in_memory |-> {}]

Parse ==
  /\ pc = "parse"
  /\ pc' = IF Accepted(job.text) THEN "run" ELSE "rejected"
  /\ UNCHANGED <<job, next, current_addr, read_addr, touched, memory, promised>>

(* next_: the chain, or the list of addresses, ends with its last element  *)
Advance == /\ next' = next + 1
           /\ pc' = IF next = Len(Ops) THEN "done" ELSE "run"
           /\ UNCHANGED job

Read(addr, L) ==
  /\ current_addr' = addr /\ read_addr' = addr
  /\ touched' = At(Ops[next], L)
  /\ UNCHANGED <<memory, promised>>

Write(addr) ==
  LET op == Ops[next]
      promise == At(op, Lines(addr, op.size))
  IN /\ current_addr' = addr
     /\ touched' = At(op, StoredLines(addr, op.size))
     /\ memory' = run_write(memory, op, addr)
     /\ promised' = IF op.persist = "none" THEN promised \ promise
                                           ELSE promised \cup promise
     /\ UNCHANGED read_addr

max_access_size == Max({op.size : op \in Range(Ops)})

partition_size(op) == IF op.is_pmem THEN PartitionSize ELSE DramPartitionSize

(* Defect: the range is not reduced by the largest access                  *)
WholeRange(op) == partition_size(op)

(* Unsigned: a partition smaller than the largest access wraps.            *)
range_size(op) == (partition_size(op) - max_access_size) % WordSize

(* random_offset % range_size_, rounded down by the mask -access_size_     *)
random_addresses(op) ==
  {IF op.size = 0 THEN 0 ELSE v - (v % op.size) : v \in 0 .. range_size(op) - 1}

Executing(kind) == pc = "run" /\ job.kind = kind

(* 64-byte loads and stores need an aligned address.                       *)
Aligned(op, addr) == op.size = 0 \/ addr % 64 = 0

ChainRead ==
  /\ Executing("chain") /\ Ops[next].type = "Read"
  /\ \E addr \in random_addresses(Ops[next]) :
       /\ Aligned(Ops[next], addr)
       /\ Read(addr, ReadLines(addr, Ops[next].size))
  /\ Advance

ChainWrite ==
  /\ Executing("chain") /\ Ops[next].type = "Write"
  /\ Write(current_addr + Ops[next].offset)
  /\ Advance

(* A signal: a random offset modulo zero, or an unaligned access.          *)
Trap ==
  /\ Executing("chain") /\ Ops[next].type = "Read"
  /\ \/ range_size(Ops[next]) = 0
     \/ \E addr \in random_addresses(Ops[next]) : ~Aligned(Ops[next], addr)
  /\ pc' = "trapped"
  /\ UNCHANGED <<job, next, current_addr, read_addr, touched, memory, promised>>

RunIoOperation ==
  /\ Executing("io")
  /\ LET addr == job.addresses[next]
     IN IF job.op.type = "Read" THEN Read(addr, ReadListLines(addr, job.op.size))
                                ELSE Write(addr)
  /\ Advance

Terminating == pc \in {"done", "rejected", "trapped"} /\ UNCHANGED vars

Next == Parse \/ ChainRead \/ ChainWrite \/ Trap \/ RunIoOperation \/ Terminating

Spec == Init /\ [][Next]_vars

-----------------------------------------------------------------------------
(* Properties.                                                             *)

(* The operation that was executed last                                    *)
LastDone == next - 1
LastRead == Max({i \in 1 .. LastDone : Ops[i].type = "Read"})
InChain == job.kind = "chain" /\ pc \in {"run", "done"} /\ LastDone > 0

(* How far the offsets have moved the address away from the latest read    *)
Offsets == [i \in 1 .. Len(Ops) |-> Ops[i].offset]
Moved == SumOver(Offsets, LastRead + 1 .. LastDone)

WholeLines == \A op \in Range(Ops) : op.size >= 64
FitsPartition == \A op \in Range(Ops) : max_access_size < partition_size(op)

(* benchmark.cpp:176: a chain does not leave its partition, whatever the   *)
(* sizes that are read and written together, but by its offsets.           *)
AccessesInRange ==
  InChain /\ WholeLines /\ FitsPartition =>
    \A l \in touched : /\ 64 * l[2] - Moved >= 0
                       /\ 64 * l[2] + 64 - Moved <= partition_size(Ops[LastDone])

(* No write uses an address nobody has read (the seed), or one read in the *)
(* other memory: its address is that of the latest read, moved by the      *)
(* offsets of all writes since.                                            *)
WritesFollowRead ==
  InChain => /\ \E i \in 1 .. LastDone : Ops[i].type = "Read"
             /\ Ops[LastRead].is_pmem = Ops[LastDone].is_pmem
             /\ read_addr # Seed /\ current_addr = read_addr + Moved

(* All bytes written with a persist instruction have reached memory when   *)
(* the operation ends, and stay there until they are written without one.  *)
Persisted == pc \in {"run", "done"} /\ WholeLines => promised \subseteq memory.in_memory

(* The inductive invariant behind these: what is executed was accepted,    *)
(* ...                                                                     *)
Executes == pc \in {"run", "done"}

ProgressInv ==
  /\ job \in Jobs
  /\ pc \in {"parse", "run", "done", "rejected", "trapped"}
  /\ pc = "parse" => job.kind = "chain" /\ next = 1 /\ promised = {}
  /\ Executes => /\ job.kind = "chain" => Accepted(job.text)
                 /\ next \in 1 .. Len(Ops) + 1
                 /\ pc = "run" => next <= Len(Ops)

(* ... a chain has read an address of its partition before it writes, ...  *)
AddressInv ==
  InChain => /\ \E i \in 1 .. LastDone : Ops[i].type = "Read"
             /\ Ops[LastRead].is_pmem = Ops[LastDone].is_pmem
             /\ read_addr \in random_addresses(Ops[LastRead])
             /\ current_addr = read_addr + Moved

(* ... and with whole lines nothing but the bytes asked for is touched.    *)
LinesInv ==
  /\ InChain /\ WholeLines =>
       /\ current_addr % 64 = 0
       /\ touched \subseteq At(Ops[LastDone], Lines(current_addr, Ops[LastDone].size))
  /\ Persisted

OpsInv == ProgressInv /\ AddressInv /\ LinesInv

(* benchmark_config.hpp:36: <size> is the size of the access.              *)
AccessesItsSize ==
  InChain => touched = At(Ops[LastDone], Lines(current_addr, Ops[LastDone].size))
=============================================================================

--------------------------- MODULE CustomExecution ---------------------------
(***************************************************************************)
(* The threads of a benchmark in Mode::Custom                              *)
(* (Benchmark::run_custom_ops_in_thread).  There is no generation phase    *)
(* and no barrier: threads draw chunks from the signed atomic              *)
(* num_custom_chunks_remaining, execute the operation chain                *)
(* num_ops_per_chunk times per chunk and sample the latency of some        *)
(* iterations.                                                             *)
(* The chain itself is an atomic unit here.                                *)
(***************************************************************************)
EXTENDS Integers, Arithmetic

CONSTANTS NumThreads,       \* config.number_threads
          NumOperations,    \* config.number_operations
          OpsPerChunk,      \* num_ops_per_chunk
          SampleFrequency   \* config.latency_sample_frequency; 0: no samples

ASSUME CustomAssumption ==
  /\ NumThreads \in Nat \ {0} /\ NumOperations \in Nat \ {0}
  /\ OpsPerChunk \in Nat \ {0} /\ SampleFrequency \in Nat

Threads == 0 .. NumThreads - 1

(* single_set_up: a chunk is added for the rest of the operations          *)
NumChunks == (NumOperations \div OpsPerChunk)
               + (IF NumOperations % OpsPerChunk # 0 THEN 1 ELSE 0)

VARIABLES pc,                   \* where each thread is
          num_custom_chunks_remaining,
          iteration,            \* iterations left to run of the chunk
          total_num_ops,        \* counted after each chunk
          custom_op_latencies,  \* number of samples the thread has stored
          total_operation_size, \* the thread's result
          executed              \* history: chains executed by all threads

vars == <<pc, num_custom_chunks_remaining, iteration, total_num_ops,
          custom_op_latencies, total_operation_size, executed>>

Init == /\ pc = [t \in Threads |-> "draw"]
        /\ num_custom_chunks_remaining = NumChunks
        /\ iteration = [t \in Threads |-> 0]
        /\ total_num_ops = [t \in Threads |-> 0]
        /\ custom_op_latencies = [t \in Threads |-> 0]
        /\ total_operation_size = [t \in Threads |-> 0]
        /\ executed = 0

(* Defect: < instead of <= lets one more chunk through                     *)
DrawOneMore(t) ==
  /\ pc[t] = "draw"
  /\ num_custom_chunks_remaining' = num_custom_chunks_remaining - 1
  /\ pc' = [pc EXCEPT ![t] = IF num_custom_chunks_remaining < 0
                             THEN "finish" ELSE "chunk"]
  /\ iteration' = [iteration EXCEPT ![t] = 0]
  /\ UNCHANGED <<total_num_ops, custom_op_latencies, total_operation_size, executed>>

(* Defect: continue instead of break when no chunk is left                 *)
DrawAgain(t) ==
  /\ pc[t] = "draw"
  /\ num_custom_chunks_remaining' = num_custom_chunks_remaining - 1
  /\ pc' = [pc EXCEPT ![t] = IF num_custom_chunks_remaining <= 0
                             THEN "draw" ELSE "chunk"]
  /\ iteration' = [iteration EXCEPT ![t] = 0]
  /\ UNCHANGED <<total_num_ops, custom_op_latencies, total_operation_size, executed>>

(* Defect: a thread that finds no chunk waits for the others to finish     *)
DrawAndWait(t) ==
  /\ pc[t] = "draw"
  /\ num_custom_chunks_remaining > 0 \/ \A u \in Threads \ {t} : pc[u] = "done"
  /\ num_custom_chunks_remaining' = num_custom_chunks_remaining - 1
  /\ pc' = [pc EXCEPT ![t] = IF num_custom_chunks_remaining <= 0
                             THEN "finish" ELSE "chunk"]
  /\ iteration' = [iteration EXCEPT ![t] = 0]
  /\ UNCHANGED <<total_num_ops, custom_op_latencies, total_operation_size, executed>>

(* fetch_sub(1) <= 0 ends the thread                                       *)
Draw(t) ==
  /\ pc[t] = "draw"
  /\ num_custom_chunks_remaining' = num_custom_chunks_remaining - 1
  /\ pc' = [pc EXCEPT ![t] = IF num_custom_chunks_remaining <= 0
                             THEN "finish" ELSE "chunk"]
  /\ iteration' = [iteration EXCEPT ![t] = 0]
  /\ UNCHANGED <<total_num_ops, custom_op_latencies, total_operation_size, executed>>

(* Iterations count from 1, so that the first request is not sampled.      *)
Sampled(i) == SampleFrequency # 0 /\ i % SampleFrequency = 0

(* Defect: counting from 0 samples the first request of each chunk         *)
RunChainFromZero(t) ==
  /\ pc[t] = "chunk" /\ iteration[t] < OpsPerChunk
  /\ executed' = executed + 1
  /\ iteration' = [iteration EXCEPT ![t] = @ + 1]
  /\ custom_op_latencies' = IF Sampled(iteration[t])
                            THEN [custom_op_latencies EXCEPT ![t] = @ + 1]
                            ELSE custom_op_latencies
  /\ UNCHANGED <<pc, num_custom_chunks_remaining, total_num_ops, total_operation_size>>

RunChain(t) ==
  /\ pc[t] = "chunk" /\ iteration[t] < OpsPerChunk
  /\ executed' = executed + 1
  /\ iteration' = [iteration EXCEPT ![t] = @ + 1]
  /\ custom_op_latencies' = IF Sampled(iteration[t] + 1)
                            THEN [custom_op_latencies EXCEPT ![t] = @ + 1]
                            ELSE custom_op_latencies
  /\ UNCHANGED <<pc, num_custom_chunks_remaining, total_num_ops, total_operation_size>>

(* Defect: chunks are counted, not operations                              *)
EndChunkCountingChunks(t) ==
  /\ pc[t] = "chunk" /\ iteration[t] = OpsPerChunk
  /\ pc' = [pc EXCEPT ![t] = "draw"]
  /\ total_num_ops' = [total_num_ops EXCEPT ![t] = @ + 1]
  /\ UNCHANGED <<num_custom_chunks_remaining, iteration, custom_op_latencies,
                 total_operation_size, executed>>

EndChunk(t) ==
  /\ pc[t] = "chunk" /\ iteration[t] = OpsPerChunk
  /\ pc' = [pc EXCEPT ![t] = "draw"]
  /\ total_num_ops' = [total_num_ops EXCEPT ![t] = @ + OpsPerChunk]
  /\ UNCHANGED <<num_custom_chunks_remaining, iteration, custom_op_latencies,
                 total_operation_size, executed>>

StoreResult(t) ==
  /\ pc[t] = "finish"
  /\ pc' = [pc EXCEPT ![t] = "done"]
  /\ total_operation_size' = [total_operation_size EXCEPT ![t] = total_num_ops[t]]
  /\ UNCHANGED <<num_custom_chunks_remaining, iteration, total_num_ops,
                 custom_op_latencies, executed>>

Step(t) == Draw(t) \/ RunChain(t) \/ EndChunk(t) \/ StoreResult(t)

AllDone == \A t \in Threads : pc[t] = "done"

Next == (\E t \in Threads : Step(t)) \/ (AllDone /\ UNCHANGED vars)

Spec == Init /\ [][Next]_vars /\ \A t \in Threads : WF_vars(Step(t))

-----------------------------------------------------------------------------
(* Properties.                                                             *)

TypeOK ==
  /\ pc \in [Threads -> {"draw", "chunk", "finish", "done"}]
  /\ num_custom_chunks_remaining \in Int
  /\ iteration \in [Threads -> 0 .. OpsPerChunk]
  /\ total_num_ops \in [Threads -> Nat]
  /\ custom_op_latencies \in [Threads -> Nat]
  /\ total_operation_size \in [Threads -> Nat]
  /\ executed \in Nat

(* The threads together never execute the chain more often than the chunks *)
(* allow, and the number_operations requested are executed in the end,     *)
(* with less than a chunk on top.                                          *)
EnoughOperations ==
  /\ executed <= NumChunks * OpsPerChunk
  /\ AllDone => /\ executed = NumChunks * OpsPerChunk
                /\ executed >= NumOperations /\ executed < NumOperations + OpsPerChunk

(* What the threads report adds up to what they executed.                  *)
ReportedSizesAddUp ==
  AllDone => SumOver(total_operation_size, Threads) = executed

(* Each thread draws at most once in vain: the counter never goes further  *)
(* below zero than there are threads, which is why it is signed.           *)
CounterBounded == num_custom_chunks_remaining >= -NumThreads

(* A thread's samples are those of whole chunks: each chunk contributes    *)
(* one per SampleFrequency chains, counted anew and never from its first.  *)
SamplesPerChunk ==
  \A t \in Threads : SampleFrequency # 0 /\ pc[t] = "done" =>
    custom_op_latencies[t] =
      (total_num_ops[t] \div OpsPerChunk) * (OpsPerChunk \div SampleFrequency)

(* What the threads have run, and what they have drawn the right to run.   *)
Run == [t \in Threads |->
          total_num_ops[t] + (IF pc[t] = "chunk" THEN iteration[t] ELSE 0)]

Drawn == [t \in Threads |->
            total_num_ops[t] + (IF pc[t] = "chunk" THEN OpsPerChunk ELSE 0)]

(* No chunk is lost or drawn twice.                                        *)
DrawnInv ==
  NumChunks * OpsPerChunk =
    SumOver(Drawn, Threads) + (IF num_custom_chunks_remaining > 0
                               THEN num_custom_chunks_remaining * OpsPerChunk ELSE 0)

(* A thread's samples are those of its chunks and of the one it runs.      *)
SamplesInv ==
  \A t \in Threads : SampleFrequency # 0 =>
    custom_op_latencies[t] =
      (total_num_ops[t] \div OpsPerChunk) * (OpsPerChunk \div SampleFrequency)
        + (IF pc[t] = "chunk" THEN iteration[t] \div SampleFrequency ELSE 0)

(* The inductive invariant behind the properties above.                    *)
IndInv ==
  /\ TypeOK
  /\ executed = SumOver(Run, Threads)
  /\ DrawnInv
  /\ SamplesInv
  /\ \A t \in Threads :
       /\ pc[t] \in {"finish", "done"} => num_custom_chunks_remaining <= 0
       /\ pc[t] = "done" => total_operation_size[t] = total_num_ops[t]

(* Every thread ends.                                                      *)
Termination == <>AllDone
=============================================================================

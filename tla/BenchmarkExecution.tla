-------------------------- MODULE BenchmarkExecution --------------------------
(***************************************************************************)
(* The threads of one raw-operation benchmark, from thread start to thread *)
(* end: Benchmark::run_in_thread with the BenchmarkExecution that they     *)
(* share (src/src/benchmark.cpp, src/src/benchmark.hpp).                   *)
(*                                                                         *)
(* A thread generates its IO chunks into io_operations, takes part in the  *)
(* generation barrier (a mutex-protected counter and a condition variable) *)
(* and then steals chunks from io_operations through the atomic            *)
(* io_position: once each (run_time = 0), or round and round until its     *)
(* deadline.  A chunk is an atomic unit here; which addresses it accesses  *)
(* is ChunkLayout's subject.                                               *)
(***************************************************************************)
EXTENDS Integers, Arithmetic

CONSTANTS NumThreads,        \* config.number_threads
          NumChunks,         \* io_operations.size()
          ChunkSize,         \* access_size * num_ops_per_chunk
          RunTime,           \* config.run_time; 0: fixed-size benchmark
          MaxIoPosition,     \* bound: chunks claimed before the deadline
          MaxSpuriousWakeups \* bound: wakeups nobody notified

ASSUME ExecutionAssumption ==
  /\ NumThreads \in Nat \ {0} /\ NumChunks \in Nat \ {0}
  /\ ChunkSize \in Nat \ {0} /\ RunTime \in Nat
  /\ MaxIoPosition \in Nat /\ MaxSpuriousWakeups \in Nat

Threads == 0 .. NumThreads - 1
Positions == 0 .. NumChunks - 1
NoThread == -1
NoChunk == -1

(* An entry of io_operations: the thread that generated it and the number  *)
(* of the chunk within that thread.  A default-constructed entry has no    *)
(* addresses: running it does nothing.                                     *)
Empty == [thread |-> NoThread, chunk |-> NoChunk]
Chunk == [thread : Threads, chunk : Nat]

VARIABLES pc,                \* where each thread is in run_in_thread
          chunk_num,         \* loop variable of the generation loop
          io_operations,     \* the shared list of chunks
          generation_lock,   \* owner of the mutex
          threads_remaining, \* threads that have not finished generating
          io_position,       \* the atomic work-stealing counter
          work,              \* the position a thread is executing
          expired,           \* steady_clock::now() > execution_end
          num_executed_operations,
          total_operation_size, \* the thread's result, read after join
          executed,          \* history: how often each position was run
          wakeups            \* spurious wakeups so far

vars == <<pc, chunk_num, io_operations, generation_lock, threads_remaining,
          io_position, work, expired, num_executed_operations,
          total_operation_size, executed, wakeups>>

Init ==
  /\ pc = [t \in Threads |-> "generate"]
  /\ chunk_num = [t \in Threads |-> 0]
  /\ io_operations = [p \in Positions |-> Empty]
  /\ generation_lock = NoThread
  /\ threads_remaining = NumThreads
  /\ io_position = 0
  /\ work = [t \in Threads |-> NoChunk]
  /\ expired = [t \in Threads |-> FALSE]
  /\ num_executed_operations = [t \in Threads |-> 0]
  /\ total_operation_size = [t \in Threads |-> 0]
  /\ executed = [p \in Positions |-> 0]
  /\ wakeups = 0

Goto(t, from, to) == pc[t] = from /\ pc' = [pc EXCEPT ![t] = to]

-----------------------------------------------------------------------------
(* Chunk generation.                                                       *)

NumChunksPerThread(t) ==
  NumChunks \div NumThreads + (IF t < NumChunks % NumThreads THEN 1 ELSE 0)

(* Defect: contiguous blocks, which overlap when the division leaves a rest *)
InsertPosInBlocks(t, k) == t * (NumChunks \div NumThreads) + k

InsertPos(t, k) == k * NumThreads + t

GenerateChunk(t) ==
  /\ pc[t] = "generate"
  /\ chunk_num[t] < NumChunksPerThread(t)
  /\ io_operations' = [io_operations EXCEPT
       ![InsertPos(t, chunk_num[t])] = [thread |-> t, chunk |-> chunk_num[t]]]
  /\ chunk_num' = [chunk_num EXCEPT ![t] = @ + 1]
  /\ UNCHANGED <<pc, generation_lock, threads_remaining, io_position, work,
                 expired, num_executed_operations, total_operation_size,
                 executed, wakeups>>

-----------------------------------------------------------------------------
(* The barrier.  The last thread to count down notifies without holding    *)
(* the mutex; the others lock it again and wait for threads_remaining = 0. *)

Lock(t) == generation_lock = NoThread /\ generation_lock' = t
Unlock(t) == generation_lock = t /\ generation_lock' = NoThread

barrierFrame == <<chunk_num, io_operations, io_position, work, expired,
                  num_executed_operations, total_operation_size, executed>>

LockToCountDown(t) ==
  /\ Goto(t, "generate", "count_down")
  /\ chunk_num[t] = NumChunksPerThread(t)
  /\ Lock(t)
  /\ UNCHANGED <<barrierFrame, threads_remaining, wakeups>>

CountDown(t) ==
  /\ Goto(t, "count_down", IF threads_remaining = 1 THEN "notify" ELSE "lock")
  /\ threads_remaining' = threads_remaining - 1
  /\ Unlock(t)
  /\ UNCHANGED <<barrierFrame, wakeups>>

(* Defect: notify_one                                                      *)
NotifyOne(t) ==
  /\ pc[t] = "notify"
  /\ LET W == {u \in Threads : pc[u] = "waiting"}
     IN \E woken \in {S \in SUBSET W : Cardinality(S) = Min({1, Cardinality(W)})} :
          pc' = [u \in Threads |-> CASE u = t -> "begin"
                                     [] u \in woken -> "lock"
                                     [] OTHER -> pc[u]]
  /\ UNCHANGED <<barrierFrame, generation_lock, threads_remaining, wakeups>>

NotifyAll(t) ==
  /\ pc[t] = "notify"
  /\ pc' = [u \in Threads |-> CASE u = t -> "begin"
                                [] pc[u] = "waiting" -> "lock"
                                [] OTHER -> pc[u]]
  /\ UNCHANGED <<barrierFrame, generation_lock, threads_remaining, wakeups>>

LockToWait(t) ==
  /\ Goto(t, "lock", "predicate")
  /\ Lock(t)
  /\ UNCHANGED <<barrierFrame, threads_remaining, wakeups>>

(* Defect: wait() before looking at threads_remaining                      *)
WaitUnconditionally(t) ==
  /\ Goto(t, "predicate", "waiting")
  /\ Unlock(t)
  /\ UNCHANGED <<barrierFrame, threads_remaining, wakeups>>

(* wait(lock, predicate): leave the loop, or release the mutex and join    *)
(* the waiters in one step.                                                *)
CheckPredicate(t) ==
  /\ Goto(t, "predicate", IF threads_remaining = 0 THEN "begin" ELSE "waiting")
  /\ Unlock(t)
  /\ UNCHANGED <<barrierFrame, threads_remaining, wakeups>>

(* Defect: wait(lock) in an if, so that a wakeup alone passes the barrier  *)
WakeupPassesBarrier(t) ==
  /\ Goto(t, "waiting", "begin")
  /\ wakeups < MaxSpuriousWakeups
  /\ wakeups' = wakeups + 1
  /\ UNCHANGED <<barrierFrame, generation_lock, threads_remaining>>

SpuriousWakeup(t) ==
  /\ Goto(t, "waiting", "lock")
  /\ wakeups < MaxSpuriousWakeups
  /\ wakeups' = wakeups + 1
  /\ UNCHANGED <<barrierFrame, generation_lock, threads_remaining>>

-----------------------------------------------------------------------------
(* Execution.                                                              *)

executionFrame == <<chunk_num, io_operations, generation_lock,
                    threads_remaining, wakeups>>

BeginExecution(t) ==
  /\ Goto(t, "begin", "claim")
  /\ UNCHANGED <<executionFrame, io_position, work, expired,
                 num_executed_operations, total_operation_size, executed>>

(* Defect: the counter is read but not advanced while chunks are left      *)
ClaimWithoutAdd(t) ==
  /\ RunTime = 0
  /\ Goto(t, "claim", IF io_position >= NumChunks THEN "finish" ELSE "run")
  /\ work' = [work EXCEPT ![t] = IF io_position >= NumChunks THEN NoChunk
                                                             ELSE io_position]
  /\ UNCHANGED <<executionFrame, io_position, expired, executed,
                 num_executed_operations, total_operation_size>>

(* fetch_add of run_fixed_sized_benchmark, with its early exit             *)
ClaimFixed(t) ==
  /\ RunTime = 0
  /\ Goto(t, "claim", IF io_position >= NumChunks THEN "finish" ELSE "run")
  /\ io_position' = io_position + 1
  /\ work' = [work EXCEPT ![t] = IF io_position >= NumChunks THEN NoChunk
                                                             ELSE io_position]
  /\ UNCHANGED <<executionFrame, expired, num_executed_operations,
                 total_operation_size, executed>>

(* Defect: the last chunk is left out of the rotation                      *)
ClaimAllButLast(t) ==
  /\ RunTime > 0
  /\ io_position < MaxIoPosition \/ expired[t]
  /\ Goto(t, "claim", "run")
  /\ io_position' = io_position + 1
  /\ work' = [work EXCEPT ![t] = io_position % Max({1, NumChunks - 1})]
  /\ UNCHANGED <<executionFrame, expired, num_executed_operations,
                 total_operation_size, executed>>

(* fetch_add of run_duration_based_benchmark                               *)
ClaimDuration(t) ==
  /\ RunTime > 0
  /\ io_position < MaxIoPosition \/ expired[t]
  /\ Goto(t, "claim", "run")
  /\ io_position' = io_position + 1
  /\ work' = [work EXCEPT ![t] = io_position % NumChunks]
  /\ UNCHANGED <<executionFrame, expired, num_executed_operations,
                 total_operation_size, executed>>

(* IoOperation::run of the claimed chunk; a timed benchmark then looks at  *)
(* the clock.                                                              *)
RunChunk(t) ==
  /\ Goto(t, "run", IF RunTime > 0 /\ expired[t] THEN "finish" ELSE "claim")
  /\ executed' = [executed EXCEPT ![work[t]] = @ + 1]
  /\ work' = [work EXCEPT ![t] = NoChunk]
  /\ num_executed_operations' = [num_executed_operations EXCEPT ![t] = @ + 1]
  /\ UNCHANGED <<executionFrame, io_position, expired, total_operation_size>>

(* The thread's execution_end passes at any time after execution_begin.    *)
DeadlinePasses(t) ==
  /\ RunTime > 0 /\ ~expired[t]
  /\ pc[t] \in {"claim", "run"}
  /\ expired' = [expired EXCEPT ![t] = TRUE]
  /\ UNCHANGED <<executionFrame, pc, io_position, work,
                 num_executed_operations, total_operation_size, executed>>

(* Defect: a thread reports all the claims, not those it executed          *)
StoreAllClaims(t) ==
  /\ Goto(t, "finish", "done")
  /\ total_operation_size' = [total_operation_size EXCEPT
                                ![t] = io_position * ChunkSize]
  /\ UNCHANGED <<executionFrame, io_position, work, expired,
                 num_executed_operations, executed>>

StoreResult(t) ==
  /\ Goto(t, "finish", "done")
  /\ total_operation_size' = [total_operation_size EXCEPT
                                ![t] = num_executed_operations[t] * ChunkSize]
  /\ UNCHANGED <<executionFrame, io_position, work, expired,
                 num_executed_operations, executed>>

-----------------------------------------------------------------------------
Step(t) == \/ GenerateChunk(t) \/ LockToCountDown(t) \/ CountDown(t)
           \/ NotifyAll(t) \/ LockToWait(t) \/ CheckPredicate(t)
           \/ BeginExecution(t) \/ ClaimFixed(t) \/ ClaimDuration(t)
           \/ RunChunk(t) \/ StoreResult(t)

AllDone == \A t \in Threads : pc[t] = "done"

Terminating == AllDone /\ UNCHANGED vars

Next == \/ \E t \in Threads : Step(t) \/ SpuriousWakeup(t) \/ DeadlinePasses(t)
        \/ Terminating

(* Every thread keeps being scheduled and time passes.  Nothing makes a    *)
(* spurious wakeup happen, and there are finitely many, so the mutex needs *)
(* no stronger fairness.                                                   *)
Spec == /\ Init /\ [][Next]_vars
        /\ \A t \in Threads : WF_vars(Step(t)) /\ WF_vars(DeadlinePasses(t))

-----------------------------------------------------------------------------
(* Properties.                                                             *)

Generating == {"generate", "count_down"}
Executing == {"begin", "claim", "run", "finish", "done"}
Barrier == {"count_down", "notify", "lock", "predicate", "waiting"}

(* Every variable stays in its domain.                                     *)
TypeOK ==
  /\ pc \in [Threads -> {"generate"} \cup Barrier \cup Executing]
  /\ chunk_num \in [Threads -> Nat]
  /\ io_operations \in [Positions -> Chunk \cup {Empty}]
  /\ generation_lock \in Threads \cup {NoThread}
  /\ threads_remaining \in 0 .. NumThreads
  /\ io_position \in Nat
  /\ work \in [Threads -> Positions \cup {NoChunk}]
  /\ expired \in [Threads -> BOOLEAN]
  /\ num_executed_operations \in [Threads -> Nat]
  /\ total_operation_size \in [Threads -> Nat]
  /\ executed \in [Positions -> Nat]
  /\ wakeups \in Nat

(* No thread starts executing before every chunk of every thread is        *)
(* generated: neither a spurious wakeup, nor the last thread overtaking    *)
(* those still on their way into wait(), lets one pass the barrier early.  *)
GenerationBarrier ==
  \A t \in Threads :
    pc[t] \in Executing => \A p \in Positions : io_operations[p] # Empty

(* A thread sleeps after the last one has counted down only while the      *)
(* notification is still to come, although notify_all runs unlocked.       *)
NoLostWakeup ==
  (threads_remaining = 0 /\ \E t \in Threads : pc[t] = "waiting")
    => \E u \in Threads : pc[u] = "notify"

(* A slot of io_operations is written once: the insert positions of the    *)
(* threads' generation loops, extra chunks included, never collide, and a  *)
(* chunk does not change once threads may be executing it.                 *)
WriteOnce ==
  [][\A p \in Positions :
       io_operations[p] # Empty => io_operations'[p] = io_operations[p]]_vars

Started(p) == executed[p] + Cardinality({t \in Threads : work[t] = p})

(* A fixed-size benchmark never executes a chunk twice, however the        *)
(* threads race on io_position, and has executed them all in the end.      *)
ExactlyOnce ==
  RunTime = 0 => /\ \A p \in Positions : Started(p) <= 1
                 /\ AllDone => \A p \in Positions : executed[p] = 1

(* The threads' results add up to the work done: the chunks in a           *)
(* fixed-size benchmark, whatever was run until the deadlines otherwise.   *)
ReportedSizesAddUp ==
  AllDone => SumOver(total_operation_size, Threads) = ChunkSize * SumOver(executed, Positions)

(* Every thread finishes: none is left behind at the barrier, and none     *)
(* keeps stealing work after its deadline.                                 *)
Termination == <>AllDone

Pool == INSTANCE ChunkPool WITH
          Chunks <- Positions,
          Rounds <- IF RunTime = 0 THEN 1 ELSE 0,
          open <- threads_remaining = 0,
          taken <- [p \in Positions |-> Started(p)],
          holds <- work,
          completed <- executed

(* The threads implement the pool of chunks: nothing is handed out before  *)
(* the barrier, chunks are handed out in rounds, and a fixed-size          *)
(* benchmark completes them all.                                           *)
ImplementsPool == Pool!PoolSpec

-----------------------------------------------------------------------------
(* The inductive invariant behind the safety properties, in named parts.   *)

LockInv ==
  \A t \in Threads : generation_lock = t <=> pc[t] \in {"count_down", "predicate"}

CountInv ==
  threads_remaining = Cardinality({t \in Threads : pc[t] \in Generating})

(* A thread has filled exactly the slots of its first chunk_num chunks.    *)
GenerationInv ==
  \A t \in Threads :
    /\ chunk_num[t] <= NumChunksPerThread(t)
    /\ pc[t] # "generate" => chunk_num[t] = NumChunksPerThread(t)
    /\ \A k \in 0 .. NumChunksPerThread(t) - 1 :
         io_operations[InsertPos(t, k)] =
           IF k < chunk_num[t] THEN [thread |-> t, chunk |-> k] ELSE Empty

BarrierInv ==
  /\ \A t \in Threads : pc[t] \in {"notify"} \cup Executing => threads_remaining = 0
  /\ NoLostWakeup

(* Below io_position every chunk is being executed by one thread or was    *)
(* executed once; above it, none was.                                      *)
WorkInv ==
  /\ \A t \in Threads : work[t] # NoChunk <=> pc[t] = "run"
  /\ RunTime = 0 =>
       /\ \A t \in Threads : work[t] < io_position
       /\ \A t, u \in Threads : work[t] = work[u] /\ t # u => work[t] = NoChunk
       /\ \A p \in Positions :
            executed[p] = IF p < io_position /\ \A t \in Threads : work[t] # p
                          THEN 1 ELSE 0
       /\ \A t \in Threads : pc[t] \in {"finish", "done"} => io_position >= NumChunks

(* A timed benchmark has started each chunk once per full round, and those *)
(* below io_position once more in the current one.                         *)
RoundsInv ==
  RunTime > 0 => \A p \in Positions :
    Started(p) = (io_position \div NumChunks)
                   + (IF p < io_position % NumChunks THEN 1 ELSE 0)

(* Every execution of a chunk was counted by exactly one thread, and a     *)
(* thread that is done has reported its count.                             *)
ResultInv ==
  /\ SumOver(num_executed_operations, Threads) = SumOver(executed, Positions)
  /\ \A t \in Threads : pc[t] = "done" =>
       total_operation_size[t] = num_executed_operations[t] * ChunkSize

(* What the proofs show every step to preserve: who owns the mutex, what   *)
(* threads_remaining counts, which slots are filled, when the barrier is   *)
(* open, which chunks below io_position are done and who counted them.     *)
IndInv == /\ TypeOK /\ LockInv /\ CountInv /\ GenerationInv /\ BarrierInv
          /\ WorkInv /\ RoundsInv /\ ResultInv
=============================================================================

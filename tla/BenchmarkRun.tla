------------------------------ MODULE BenchmarkRun ------------------------------
(***************************************************************************)
(* The main thread around one benchmark: SingleBenchmark::run and          *)
(* ParallelBenchmark::run (spawn all threads, look at thread_error before  *)
(* each join), and what BenchmarkSuite::run_benchmarks and main do with    *)
(* the outcome.  The benchmark's threads are those of BenchmarkExecution,  *)
(* reduced to where they stand with respect to the generation barrier; a   *)
(* memory access of a thread may fault, which runs the handler installed   *)
(* by signal(SIGSEGV, ...).                                                *)
(***************************************************************************)
EXTENDS Integers

CONSTANTS NumThreadsOne, \* number_threads of the (first) config
          NumThreadsTwo, \* of a ParallelBenchmark's second config; 0: single
          Custom         \* the pools in Mode::Custom, which have no barrier

ASSUME RunAssumption ==
  NumThreadsOne \in Nat \ {0} /\ NumThreadsTwo \in Nat /\ Custom \subseteq {1, 2}

NumAllThreads == NumThreadsOne + NumThreadsTwo
Threads == 1 .. NumAllThreads
Pool(t) == IF t <= NumThreadsOne THEN 1 ELSE 2

(* A thread may fault before it counts down at the barrier or after.       *)
Faulting == {"faulting_early", "faulting"}

VARIABLES main,         \* where the main thread is
          next,         \* the next thread to spawn, or the one to join
          state,        \* where each thread is
          thread_error, \* set by thread_error_handler, never reset
          mapped        \* pmem_data_, dram_data_ and executions_ are alive

run_vars == <<main, next, state, thread_error, mapped>>

RunInit ==
  /\ main = "spawn"
  /\ next = 1
  /\ state = [t \in Threads |-> "unborn"]
  /\ thread_error = FALSE
  /\ mapped = TRUE

-----------------------------------------------------------------------------
(* The main thread: run().                                                 *)

(* Defect: the last thread of the loop is not spawned                      *)
SpawnAllButLast ==
  /\ main = "spawn"
  /\ IF next = NumAllThreads
     THEN main' = "check" /\ next' = 1 /\ UNCHANGED state
     ELSE /\ state' = [state EXCEPT ![next] = "generating"]
          /\ next' = next + 1 /\ UNCHANGED main
  /\ UNCHANGED <<thread_error, mapped>>

(* All pools are spawned before the first join.                            *)
Spawn ==
  /\ main = "spawn"
  /\ state' = [state EXCEPT ![next] = "generating"]
  /\ IF next = NumAllThreads THEN main' = "check" /\ next' = 1
                             ELSE main' = main /\ next' = next + 1
  /\ UNCHANGED <<thread_error, mapped>>

(* Defect: thread_error is looked at before the first join only            *)
CheckErrorOnce ==
  /\ main = "check"
  /\ main' = IF thread_error /\ next = 1 THEN "failed" ELSE "joining"
  /\ UNCHANGED <<next, state, thread_error, mapped>>

CheckError ==
  /\ main = "check"
  /\ main' = IF thread_error THEN "failed" ELSE "joining"
  /\ UNCHANGED <<next, state, thread_error, mapped>>

(* Defect: only the first pool is joined                                   *)
JoinFirstPool ==
  /\ main = "joining" /\ state[next] = "finished"
  /\ IF next = NumThreadsOne THEN main' = "succeeded" /\ next' = next
                             ELSE main' = "check" /\ next' = next + 1
  /\ UNCHANGED <<state, thread_error, mapped>>

Join ==
  /\ main = "joining" /\ state[next] = "finished"
  /\ IF next = NumAllThreads THEN main' = "succeeded" /\ next' = next
                             ELSE main' = "check" /\ next' = next + 1
  /\ UNCHANGED <<state, thread_error, mapped>>

-----------------------------------------------------------------------------
(* The main thread after run().                                            *)

(* Results are read and the data is unmapped.                              *)
Complete ==
  /\ main = "succeeded"
  /\ main' = "completed"
  /\ mapped' = FALSE
  /\ UNCHANGED <<next, state, thread_error>>

(* had_error: the earlier results are written, then the data is unmapped   *)
(* and the executions are destroyed, whatever the threads are doing.       *)
TearDownFailed ==
  /\ main = "failed"
  /\ main' = "torn_down"
  /\ mapped' = FALSE
  /\ UNCHANGED <<next, state, thread_error>>

(* crash_exit throws out of run_benchmarks.  That destroys the benchmarks  *)
(* with their pools_: threads next .. NumAllThreads were not joined, and   *)
(* destroying a joinable std::thread terminates the process, so that only  *)
(* an empty rest would let main's handler clean up.                        *)
CrashExit ==
  /\ main = "torn_down"
  /\ main' = IF next <= NumAllThreads THEN "terminated" ELSE "cleaned_up"
  /\ UNCHANGED <<next, state, thread_error, mapped>>

-----------------------------------------------------------------------------
(* The benchmark's threads, while there is a process.                      *)

Alive == main # "terminated"

ThreadGoes(t, from, to) ==
  /\ Alive /\ state[t] = from
  /\ state' = [state EXCEPT ![t] = to]
  /\ UNCHANGED <<main, next, mapped>>

Generate(t) == /\ Pool(t) \notin Custom
               /\ ThreadGoes(t, "generating", "generated")
               /\ UNCHANGED thread_error

(* The barrier opens when all threads of the pool have generated.          *)
PassBarrier(t) ==
  /\ \A u \in Threads : Pool(u) = Pool(t) => state[u] \notin {"unborn", "generating", "faulting_early"}
  /\ ThreadGoes(t, "generated", "executing")
  /\ UNCHANGED thread_error

StartCustom(t) == /\ Pool(t) \in Custom
                  /\ ThreadGoes(t, "generating", "executing")
                  /\ UNCHANGED thread_error

FinishThread(t) == ThreadGoes(t, "executing", "finished") /\ UNCHANGED thread_error

(* Defect: the handler ends the faulting thread                            *)
FaultEndsThread(t) == ThreadGoes(t, "executing", "finished") /\ thread_error' = TRUE

(* A memory access of an executing thread may fault, and one of a thread   *)
(* that generates: utils::zipf can search past its table.  Once the        *)
(* executions are destroyed (tear_down's executions_.clear()), so may any  *)
(* access to io_operations or the barrier.                                 *)
Fault(t) ==
  /\ Alive
  /\ \/ /\ state[t] = "executing" \/ (~mapped /\ state[t] = "generated")
        /\ state' = [state EXCEPT ![t] = "faulting"]
     \/ /\ state[t] = "generating" /\ (Pool(t) \notin Custom \/ ~mapped)
        /\ state' = [state EXCEPT ![t] = "faulting_early"]
  /\ thread_error' = TRUE
  /\ UNCHANGED <<main, next, mapped>>

(* The handler returns to the faulting instruction, which faults again.    *)
Refault(t) == /\ Alive /\ state[t] \in Faulting
              /\ thread_error' = TRUE
              /\ UNCHANGED <<main, next, state, mapped>>

-----------------------------------------------------------------------------
Main == \/ Spawn \/ CheckError \/ Join
        \/ Complete \/ TearDownFailed \/ CrashExit

Proceed(t) == Generate(t) \/ PassBarrier(t) \/ StartCustom(t) \/ FinishThread(t)

Ended == main \in {"completed", "terminated", "cleaned_up"} /\ UNCHANGED run_vars

RunNext ==
  \/ Main
  \/ \E t \in Threads : Proceed(t) \/ Fault(t) \/ Refault(t)
  \/ Ended

(* All threads are scheduled; nothing forces a fault.                      *)
RunSpec ==
  /\ RunInit /\ [][RunNext]_run_vars
  /\ WF_run_vars(Main)
  /\ \A t \in Threads : WF_run_vars(Proceed(t))

-----------------------------------------------------------------------------
(* Properties.                                                             *)

TypeOK ==
  /\ main \in {"spawn", "check", "joining", "succeeded", "completed",
               "failed", "torn_down", "terminated", "cleaned_up"}
  /\ next \in Threads
  /\ state \in [Threads -> {"unborn", "generating", "generated", "executing",
                            "finished"} \cup Faulting]
  /\ thread_error \in BOOLEAN
  /\ mapped \in BOOLEAN

(* run() returns true only when every thread of every pool has finished    *)
(* and none has faulted: results are then read, and data unmapped, with    *)
(* nobody using them.                                                      *)
SuccessMeansFinished ==
  main \in {"succeeded", "completed"} =>
    ~thread_error /\ \A t \in Threads : state[t] = "finished"

(* Without a fault the benchmark completes: all threads are spawned before *)
(* a join could wait for one that waits at the barrier.                    *)
FaultFreeCompletes == [](~thread_error) => <>(main = "completed")

(* A thread of the pool will never count down.                             *)
BarrierBlocked(pool) ==
  \E u \in Threads : Pool(u) = pool /\ state[u] = "faulting_early"

(* A fault ends the run at the join that main is in, at the latest: main   *)
(* fails right after it, or hangs in it because that thread faults too, or *)
(* because it waits at the barrier for one that faulted on its way there.  *)
FaultStopsRun ==
  \A t \in Threads :
    (thread_error /\ main = "joining" /\ next = t)
      ~> \/ main = "terminated"
         \/ /\ main = "joining" /\ next = t
            /\ \/ state[t] \in Faulting
               \/ state[t] = "generated" /\ BarrierBlocked(Pool(t))

(* benchmark.hpp:130: run() returns false if an error was encountered.     *)
ErrorReturnsFalse == thread_error ~> main \notin {"spawn", "check", "joining"}

(* The inductive invariant: threads from next on are still to be spawned,  *)
(* or threads before next are joined; thread_error is set exactly if some  *)
(* thread has faulted; a successful run has joined all threads.            *)
RunInv ==
  /\ TypeOK
  /\ main = "spawn" => \A t \in Threads : t >= next => state[t] = "unborn"
  /\ main # "spawn" => \A t \in Threads : t < next => state[t] = "finished"
  /\ \A t \in Threads : state[t] \in Faulting => thread_error
  /\ thread_error => \E t \in Threads : state[t] \in Faulting
  /\ main \in {"succeeded", "completed"} => \A t \in Threads : state[t] = "finished"
=============================================================================

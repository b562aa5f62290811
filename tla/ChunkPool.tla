------------------------------ MODULE ChunkPool ------------------------------
(***************************************************************************)
(* What a benchmark promises about its pre-generated IO chunks, without    *)
(* the mutex, the condition variable and the atomic counter that keep the  *)
(* promise (BenchmarkExecution.tla):                                       *)
(*   - no chunk is handed out before the pool is open, i.e., generated;    *)
(*   - chunks are handed out in rounds: none is handed out again before    *)
(*     every other chunk was handed out as often;                          *)
(*   - a thread holds at most one chunk and completes the one it holds;    *)
(*   - with a bounded number of rounds (a benchmark without run_time has   *)
(*     one) all chunks are eventually handed out, and completed.           *)
(***************************************************************************)
EXTENDS Naturals

CONSTANTS Threads,     \* the benchmark's threads
          Chunks,      \* the chunks they share
          NoChunk,     \* held by an idle thread
          Rounds       \* how often each chunk is handed out; 0: no limit

VARIABLES open,        \* all chunks are generated
          taken,       \* taken[c]: how often chunk c was handed out
          holds,       \* holds[t]: the chunk thread t is executing
          completed    \* completed[c]: how often chunk c was executed

poolVars == <<open, taken, holds, completed>>

PoolInit == /\ open = FALSE
            /\ taken = [c \in Chunks |-> 0]
            /\ holds = [t \in Threads |-> NoChunk]
            /\ completed = [c \in Chunks |-> 0]

Open == /\ ~open
        /\ open' = TRUE
        /\ UNCHANGED <<taken, holds, completed>>

Take(t, c) == /\ open
              /\ holds[t] = NoChunk
              /\ \A d \in Chunks : taken[c] <= taken[d]
              /\ Rounds # 0 => taken[c] < Rounds
              /\ taken' = [taken EXCEPT ![c] = @ + 1]
              /\ holds' = [holds EXCEPT ![t] = c]
              /\ UNCHANGED <<open, completed>>

Complete(t) == /\ holds[t] # NoChunk
               /\ completed' = [completed EXCEPT ![holds[t]] = @ + 1]
               /\ holds' = [holds EXCEPT ![t] = NoChunk]
               /\ UNCHANGED <<open, taken>>

PoolNext == \/ Open
            \/ \E t \in Threads : Complete(t) \/ \E c \in Chunks : Take(t, c)

(* A benchmark with a run_time may stop taking chunks at any point: only a *)
(* bounded number of rounds has to be used up.                             *)
TakeBounded == Rounds # 0 /\ \E t \in Threads, c \in Chunks : Take(t, c)

(* What never happens, whatever is scheduled                               *)
PoolSafety == PoolInit /\ [][PoolNext]_poolVars

PoolSpec == /\ PoolSafety
            /\ WF_poolVars(Open)
            /\ WF_poolVars(TakeBounded)
            /\ \A t \in Threads : WF_poolVars(Complete(t))
=============================================================================

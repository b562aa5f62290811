----------------------- MODULE BenchmarkExecutionProofs -----------------------
(***************************************************************************)
(* Proofs about BenchmarkExecution, for every number of threads and        *)
(* chunks, every run_time and every bound.                                 *)
(***************************************************************************)
EXTENDS BenchmarkExecution, OperatorProofs

-----------------------------------------------------------------------------
(* Arithmetic of the insert positions.                                     *)

(* Every natural number has one quotient and remainder.                    *)
LEMMA DivMod ==
  ASSUME NEW n \in Nat \ {0}, NEW a \in Nat
  PROVE  /\ a \div n \in Nat
         /\ a % n \in 0 .. n - 1
         /\ a = (a \div n) * n + (a % n)
  OBVIOUS

(* Multiplication is monotonic.                                            *)
LEMMA MulMonotonic ==
  ASSUME NEW n \in Nat \ {0}, NEW a \in Int, NEW b \in Int, a < b
  PROVE  a * n + n <= b * n
<1>1. (a + 1) * n <= b * n
  OBVIOUS
<1>2. (a + 1) * n = a * n + n
  OBVIOUS
<1> QED  BY <1>1, <1>2

(* Two threads never compute the same insert position, nor one thread the  *)
(* same position for two of its chunks.                                    *)
LEMMA InsertPosInjective ==
  ASSUME NEW t \in Threads, NEW u \in Threads, NEW k \in Nat, NEW l \in Nat,
         InsertPos(t, k) = InsertPos(u, l)
  PROVE  t = u /\ k = l
<1> USE ExecutionAssumption DEF Threads, InsertPos
<1>1. ~(k < l)
  <2>1. k < l => k * NumThreads + NumThreads <= l * NumThreads
    BY MulMonotonic
  <2>2. k * NumThreads \in Int /\ l * NumThreads \in Int
    OBVIOUS
  <2> QED  BY <2>1, <2>2
<1>2. ~(l < k)
  <2>1. l < k => l * NumThreads + NumThreads <= k * NumThreads
    BY MulMonotonic
  <2>2. k * NumThreads \in Int /\ l * NumThreads \in Int
    OBVIOUS
  <2> QED  BY <2>1, <2>2
<1>3. k = l
  BY <1>1, <1>2
<1>4. k * NumThreads = l * NumThreads /\ k * NumThreads \in Int
  BY <1>3
<1> QED  BY <1>3, <1>4

(* A thread generates a natural number of chunks.                          *)
LEMMA NumChunksPerThreadType ==
  ASSUME NEW t \in Threads
  PROVE  NumChunksPerThread(t) \in Nat
BY ExecutionAssumption, DivMod DEF NumChunksPerThread, Threads

(* The generation loops stay within io_operations ...                      *)
LEMMA InsertPosInBounds ==
  ASSUME NEW t \in Threads, NEW k \in 0 .. NumChunksPerThread(t) - 1
  PROVE  InsertPos(t, k) \in Positions
<1> DEFINE q == NumChunks \div NumThreads
           r == NumChunks % NumThreads
<1>1. q \in Nat /\ r \in 0 .. NumThreads - 1 /\ NumChunks = q * NumThreads + r
  BY DivMod, ExecutionAssumption
<1>2. k \in Nat /\ k < NumChunksPerThread(t)
  BY NumChunksPerThreadType
<1>3. k < q \/ (k = q /\ t < r)
  BY <1>1, <1>2 DEF NumChunksPerThread, Threads
<1>4. k * NumThreads \in Nat /\ q * NumThreads \in Nat
  BY <1>1, <1>2, ExecutionAssumption
<1>5. k < q => k * NumThreads + NumThreads <= q * NumThreads
  BY <1>1, <1>2, MulMonotonic, ExecutionAssumption
<1>6. k = q => k * NumThreads = q * NumThreads
  OBVIOUS
<1> HIDE DEF q, r
<1>7. t \in 0 .. NumThreads - 1
  BY DEF Threads
<1> QED
  BY <1>1, <1>3, <1>4, <1>5, <1>6, <1>7, ExecutionAssumption
  DEF InsertPos, Positions

(* ... and fill every slot of it.                                          *)
LEMMA InsertPosSurjective ==
  ASSUME NEW p \in Positions
  PROVE  \E t \in Threads : \E k \in 0 .. NumChunksPerThread(t) - 1 :
           InsertPos(t, k) = p
<1> DEFINE q == NumChunks \div NumThreads
           r == NumChunks % NumThreads
           k == p \div NumThreads
           t == p % NumThreads
<1>1. q \in Nat /\ r \in 0 .. NumThreads - 1 /\ NumChunks = q * NumThreads + r
  BY DivMod, ExecutionAssumption
<1>2. p \in Nat /\ p < NumChunks
  BY ExecutionAssumption DEF Positions
<1>3. k \in Nat /\ t \in 0 .. NumThreads - 1 /\ p = k * NumThreads + t
  BY <1>2, DivMod, ExecutionAssumption
<1>4. NumChunksPerThread(t) = q + (IF t < r THEN 1 ELSE 0)
  BY DEF NumChunksPerThread
<1>5. k * NumThreads \in Nat /\ q * NumThreads \in Nat
  BY <1>1, <1>3, ExecutionAssumption
<1> HIDE DEF q, r, k, t
<1>6. q < k => q * NumThreads + NumThreads <= k * NumThreads
  BY <1>1, <1>3, MulMonotonic, ExecutionAssumption
<1>7. k = q => k * NumThreads = q * NumThreads
  OBVIOUS
<1>8. k < q \/ (k = q /\ t < r)
  BY <1>1, <1>2, <1>3, <1>5, <1>6, <1>7, ExecutionAssumption
<1>9. k \in 0 .. NumChunksPerThread(t) - 1
  BY <1>1, <1>3, <1>4, <1>8
<1>10. t \in Threads /\ InsertPos(t, k) = p
  BY <1>3 DEF Threads, InsertPos
<1> QED  BY <1>9, <1>10
-----------------------------------------------------------------------------
(* Every step preserves every part of the inductive invariant.             *)

(* Cardinalities of sets of threads are meaningful.                        *)
LEMMA ThreadsFinite == IsFiniteSet(Threads)
BY FS_Interval, ExecutionAssumption DEF Threads

(* The threads still generating are finitely many, and a thread about to   *)
(* count down is one of them.                                              *)
LEMMA StillGenerating ==
  ASSUME TypeOK, CountInv, NEW t \in Threads, pc[t] \in Generating
  PROVE  threads_remaining > 0
<1> DEFINE S == {u \in Threads : pc[u] \in Generating}
<1>2. IsFiniteSet(S) /\ Cardinality(S) \in Nat
  BY ThreadsFinite, FS_Subset, FS_CardinalityType
<1>3. S # {}
  OBVIOUS
<1>4. Cardinality(S) # 0
  BY <1>2, <1>3, FS_EmptySet
<1> QED  BY <1>2, <1>4 DEF CountInv

(* Every step keeps the variables in their domains. *)
LEMMA TypeStep ==
  ASSUME TypeOK, CountInv, WorkInv, [Next]_vars
  PROVE  TypeOK'
<1> USE DEF TypeOK, Executing, Barrier
<1>1. ASSUME NEW t \in Threads, GenerateChunk(t)
     PROVE  TypeOK'
  <2>1. [thread |-> t, chunk |-> chunk_num[t]] \in Chunk
    BY DEF Chunk
  <2>2. io_operations' \in [Positions -> Chunk \cup {Empty}]
    BY <1>1, <2>1 DEF GenerateChunk
  <2> QED  BY <1>1, <2>2 DEF GenerateChunk
<1>2. ASSUME NEW t \in Threads, LockToCountDown(t)
     PROVE  TypeOK'
  BY <1>2 DEF LockToCountDown, Goto, Lock, barrierFrame
<1>3. ASSUME NEW t \in Threads, CountDown(t)
     PROVE  TypeOK'
  <2>1. threads_remaining > 0
    BY <1>3, StillGenerating DEF CountDown, Goto, Generating
  <2>2. threads_remaining - 1 \in 0 .. NumThreads
    BY <2>1, ExecutionAssumption
  <2> QED  BY <1>3, <2>2 DEF CountDown, Goto, Unlock, barrierFrame
<1>4. ASSUME NEW t \in Threads, NotifyAll(t)
     PROVE  TypeOK'
  BY <1>4 DEF NotifyAll, barrierFrame
<1>5. ASSUME NEW t \in Threads, LockToWait(t)
     PROVE  TypeOK'
  BY <1>5 DEF LockToWait, Goto, Lock, barrierFrame
<1>6. ASSUME NEW t \in Threads, CheckPredicate(t)
     PROVE  TypeOK'
  BY <1>6 DEF CheckPredicate, Goto, Unlock, barrierFrame
<1>7. ASSUME NEW t \in Threads, BeginExecution(t)
     PROVE  TypeOK'
  BY <1>7 DEF BeginExecution, Goto, executionFrame
<1>8. ASSUME NEW t \in Threads, ClaimFixed(t)
     PROVE  TypeOK'
  <2>1. work' \in [Threads -> Positions \cup {NoChunk}]
    BY <1>8, ExecutionAssumption DEF ClaimFixed, Positions
  <2> QED  BY <1>8, <2>1 DEF ClaimFixed, Goto, executionFrame
<1>9. ASSUME NEW t \in Threads, ClaimDuration(t)
     PROVE  TypeOK'
  <2>1. io_position % NumChunks \in Positions
    BY DivMod, ExecutionAssumption DEF Positions
  <2>2. work' \in [Threads -> Positions \cup {NoChunk}]
    BY <1>9, <2>1 DEF ClaimDuration
  <2> QED  BY <1>9, <2>2 DEF ClaimDuration, Goto, executionFrame
<1>10. ASSUME NEW t \in Threads, RunChunk(t)
     PROVE  TypeOK'
  <2>1. executed' \in [Positions -> Nat]
    <3>1. work[t] \in Positions
      BY <1>10 DEF RunChunk, Goto, WorkInv
    <3> QED  BY <1>10, <3>1 DEF RunChunk
  <2>2. num_executed_operations' \in [Threads -> Nat]
    BY <1>10 DEF RunChunk
  <2> QED  BY <1>10, <2>1, <2>2 DEF RunChunk, Goto, executionFrame
<1>11. ASSUME NEW t \in Threads, StoreResult(t)
     PROVE  TypeOK'
  <2>1. num_executed_operations[t] * ChunkSize \in Nat
    BY ExecutionAssumption
  <2>2. total_operation_size' \in [Threads -> Nat]
    BY <1>11, <2>1 DEF StoreResult
  <2> QED  BY <1>11, <2>2 DEF StoreResult, Goto, executionFrame
<1>12. ASSUME NEW t \in Threads, SpuriousWakeup(t)
     PROVE  TypeOK'
  BY <1>12 DEF SpuriousWakeup, Goto, barrierFrame
<1>13. ASSUME NEW t \in Threads, DeadlinePasses(t)
     PROVE  TypeOK'
  BY <1>13 DEF DeadlinePasses, executionFrame
<1>14. CASE UNCHANGED vars
  BY <1>14 DEF vars
<1> QED
  BY <1>1, <1>2, <1>3, <1>4, <1>5, <1>6, <1>7, <1>8, <1>9, <1>10, <1>11, <1>12, <1>13, <1>14
  DEF Next, Step, Terminating

(* The threads inside the two critical sections own the mutex. *)
LEMMA LockStep ==
  ASSUME TypeOK, LockInv, [Next]_vars
  PROVE  LockInv'
<1> USE DEF TypeOK, LockInv, Threads, NoThread
<1>1. ASSUME NEW t \in Threads, GenerateChunk(t)
     PROVE  LockInv'
  BY <1>1 DEF GenerateChunk
<1>2. ASSUME NEW t \in Threads, LockToCountDown(t)
     PROVE  LockInv'
  BY <1>2 DEF LockToCountDown, Goto, Lock, barrierFrame
<1>3. ASSUME NEW t \in Threads, CountDown(t)
     PROVE  LockInv'
  BY <1>3 DEF CountDown, Goto, Unlock, barrierFrame
<1>4. ASSUME NEW t \in Threads, NotifyAll(t)
     PROVE  LockInv'
  BY <1>4 DEF NotifyAll, barrierFrame
<1>5. ASSUME NEW t \in Threads, LockToWait(t)
     PROVE  LockInv'
  BY <1>5 DEF LockToWait, Goto, Lock, barrierFrame
<1>6. ASSUME NEW t \in Threads, CheckPredicate(t)
     PROVE  LockInv'
  BY <1>6 DEF CheckPredicate, Goto, Unlock, barrierFrame
<1>7. ASSUME NEW t \in Threads, BeginExecution(t)
     PROVE  LockInv'
  BY <1>7 DEF BeginExecution, Goto, executionFrame
<1>8. ASSUME NEW t \in Threads, ClaimFixed(t)
     PROVE  LockInv'
  BY <1>8 DEF ClaimFixed, Goto, executionFrame
<1>9. ASSUME NEW t \in Threads, ClaimDuration(t)
     PROVE  LockInv'
  BY <1>9 DEF ClaimDuration, Goto, executionFrame
<1>10. ASSUME NEW t \in Threads, RunChunk(t)
     PROVE  LockInv'
  BY <1>10 DEF RunChunk, Goto, executionFrame
<1>11. ASSUME NEW t \in Threads, StoreResult(t)
     PROVE  LockInv'
  BY <1>11 DEF StoreResult, Goto, executionFrame
<1>12. ASSUME NEW t \in Threads, SpuriousWakeup(t)
     PROVE  LockInv'
  BY <1>12 DEF SpuriousWakeup, Goto, barrierFrame
<1>13. ASSUME NEW t \in Threads, DeadlinePasses(t)
     PROVE  LockInv'
  BY <1>13 DEF DeadlinePasses, executionFrame
<1>14. CASE UNCHANGED vars
  BY <1>14 DEF vars
<1> QED
  BY <1>1, <1>2, <1>3, <1>4, <1>5, <1>6, <1>7, <1>8, <1>9, <1>10, <1>11, <1>12, <1>13, <1>14
  DEF Next, Step, Terminating

(* A step that changes neither the counter nor the set of generating       *)
(* threads preserves CountInv.                                             *)
LEMMA SameGenerating ==
  ASSUME CountInv, threads_remaining' = threads_remaining,
         \A u \in Threads : pc'[u] \in Generating <=> pc[u] \in Generating
  PROVE  CountInv'
<1>1. {u \in Threads : pc'[u] \in Generating} = {u \in Threads : pc[u] \in Generating}
  OBVIOUS
<1> QED  BY <1>1 DEF CountInv

(* threads_remaining counts the threads that are still generating. *)
LEMMA CountStep ==
  ASSUME TypeOK, CountInv, [Next]_vars
  PROVE  CountInv'
<1> USE DEF TypeOK, Generating
<1>1. ASSUME NEW t \in Threads, GenerateChunk(t)
     PROVE  CountInv'
  BY <1>1, SameGenerating DEF GenerateChunk
<1>2. ASSUME NEW t \in Threads, LockToCountDown(t)
     PROVE  CountInv'
  BY <1>2, SameGenerating DEF LockToCountDown, Goto, Lock, barrierFrame
<1>3. ASSUME NEW t \in Threads, CountDown(t)
     PROVE  CountInv'
  <2> DEFINE S == {u \in Threads : pc[u] \in Generating}
  <2>1. {u \in Threads : pc'[u] \in Generating} = S \ {t}
    BY <1>3 DEF CountDown, Goto
  <2>2. t \in S
    BY <1>3 DEF CountDown, Goto
  <2>3. IsFiniteSet(S)
    BY ThreadsFinite, FS_Subset
  <2>4. Cardinality(S \ {t}) = Cardinality(S) - 1
    BY <2>2, <2>3, FS_RemoveElement
  <2>5. threads_remaining' = threads_remaining - 1
    BY <1>3 DEF CountDown
  <2> QED  BY <2>1, <2>4, <2>5 DEF CountInv
<1>4. ASSUME NEW t \in Threads, NotifyAll(t)
     PROVE  CountInv'
  BY <1>4, SameGenerating DEF NotifyAll, barrierFrame
<1>5. ASSUME NEW t \in Threads, LockToWait(t)
     PROVE  CountInv'
  BY <1>5, SameGenerating DEF LockToWait, Goto, Lock, barrierFrame
<1>6. ASSUME NEW t \in Threads, CheckPredicate(t)
     PROVE  CountInv'
  BY <1>6, SameGenerating DEF CheckPredicate, Goto, Unlock, barrierFrame
<1>7. ASSUME NEW t \in Threads, BeginExecution(t)
     PROVE  CountInv'
  BY <1>7, SameGenerating DEF BeginExecution, Goto, executionFrame
<1>8. ASSUME NEW t \in Threads, ClaimFixed(t)
     PROVE  CountInv'
  BY <1>8, SameGenerating DEF ClaimFixed, Goto, executionFrame
<1>9. ASSUME NEW t \in Threads, ClaimDuration(t)
     PROVE  CountInv'
  BY <1>9, SameGenerating DEF ClaimDuration, Goto, executionFrame
<1>10. ASSUME NEW t \in Threads, RunChunk(t)
     PROVE  CountInv'
  BY <1>10, SameGenerating DEF RunChunk, Goto, executionFrame
<1>11. ASSUME NEW t \in Threads, StoreResult(t)
     PROVE  CountInv'
  BY <1>11, SameGenerating DEF StoreResult, Goto, executionFrame
<1>12. ASSUME NEW t \in Threads, SpuriousWakeup(t)
     PROVE  CountInv'
  BY <1>12, SameGenerating DEF SpuriousWakeup, Goto, barrierFrame
<1>13. ASSUME NEW t \in Threads, DeadlinePasses(t)
     PROVE  CountInv'
  BY <1>13, SameGenerating DEF DeadlinePasses, executionFrame
<1>14. CASE UNCHANGED vars
  BY <1>14, SameGenerating DEF vars
<1> QED
  BY <1>1, <1>2, <1>3, <1>4, <1>5, <1>6, <1>7, <1>8, <1>9, <1>10, <1>11, <1>12, <1>13, <1>14
  DEF Next, Step, Terminating

(* The barrier opens with the last count-down, and stays open. *)
LEMMA BarrierStep ==
  ASSUME TypeOK, CountInv, BarrierInv, [Next]_vars
  PROVE  BarrierInv'
<1> USE DEF TypeOK, BarrierInv, NoLostWakeup, Executing
<1>1. ASSUME NEW t \in Threads, GenerateChunk(t)
     PROVE  BarrierInv'
  BY <1>1 DEF GenerateChunk
<1>2. ASSUME NEW t \in Threads, LockToCountDown(t)
     PROVE  BarrierInv'
  BY <1>2 DEF LockToCountDown, Goto, Lock, barrierFrame
<1>3. ASSUME NEW t \in Threads, CountDown(t)
     PROVE  BarrierInv'
  <2>1. threads_remaining > 0
    BY <1>3, StillGenerating DEF CountDown, Goto, Generating
  <2>2. \A u \in Threads : pc[u] \notin {"notify"} \cup Executing
    BY <2>1
  <2>3. CASE threads_remaining = 1
    BY <1>3, <2>2, <2>3 DEF CountDown, Goto
  <2>4. CASE threads_remaining # 1
    BY <1>3, <2>1, <2>2, <2>4 DEF CountDown, Goto
  <2> QED  BY <2>3, <2>4
<1>4. ASSUME NEW t \in Threads, NotifyAll(t)
     PROVE  BarrierInv'
  BY <1>4 DEF NotifyAll, barrierFrame
<1>5. ASSUME NEW t \in Threads, LockToWait(t)
     PROVE  BarrierInv'
  BY <1>5 DEF LockToWait, Goto, Lock, barrierFrame
<1>6. ASSUME NEW t \in Threads, CheckPredicate(t)
     PROVE  BarrierInv'
  BY <1>6 DEF CheckPredicate, Goto, Unlock, barrierFrame
<1>7. ASSUME NEW t \in Threads, BeginExecution(t)
     PROVE  BarrierInv'
  BY <1>7 DEF BeginExecution, Goto, executionFrame
<1>8. ASSUME NEW t \in Threads, ClaimFixed(t)
     PROVE  BarrierInv'
  BY <1>8 DEF ClaimFixed, Goto, executionFrame
<1>9. ASSUME NEW t \in Threads, ClaimDuration(t)
     PROVE  BarrierInv'
  BY <1>9 DEF ClaimDuration, Goto, executionFrame
<1>10. ASSUME NEW t \in Threads, RunChunk(t)
     PROVE  BarrierInv'
  BY <1>10 DEF RunChunk, Goto, executionFrame
<1>11. ASSUME NEW t \in Threads, StoreResult(t)
     PROVE  BarrierInv'
  BY <1>11 DEF StoreResult, Goto, executionFrame
<1>12. ASSUME NEW t \in Threads, SpuriousWakeup(t)
     PROVE  BarrierInv'
  BY <1>12 DEF SpuriousWakeup, Goto, barrierFrame
<1>13. ASSUME NEW t \in Threads, DeadlinePasses(t)
     PROVE  BarrierInv'
  BY <1>13 DEF DeadlinePasses, executionFrame
<1>14. CASE UNCHANGED vars
  BY <1>14 DEF vars
<1> QED
  BY <1>1, <1>2, <1>3, <1>4, <1>5, <1>6, <1>7, <1>8, <1>9, <1>10, <1>11, <1>12, <1>13, <1>14
  DEF Next, Step, Terminating

(* Threads fill their own slots in order, and nobody else's. *)
LEMMA GenerationStep ==
  ASSUME TypeOK, GenerationInv, [Next]_vars
  PROVE  GenerationInv'
<1> USE DEF TypeOK, GenerationInv
<1>1. ASSUME NEW t \in Threads, GenerateChunk(t)
     PROVE  GenerationInv'
  <2> DEFINE c == chunk_num[t]
  <2>1. c \in 0 .. NumChunksPerThread(t) - 1
    BY <1>1, NumChunksPerThreadType DEF GenerateChunk
  <2>2. InsertPos(t, c) \in Positions
    BY <2>1, InsertPosInBounds
  <2>3. /\ io_operations' = [io_operations EXCEPT
              ![InsertPos(t, c)] = [thread |-> t, chunk |-> c]]
        /\ chunk_num' = [chunk_num EXCEPT ![t] = c + 1]
        /\ pc' = pc
    BY <1>1 DEF GenerateChunk
  <2>4. SUFFICES ASSUME NEW u \in Threads
                 PROVE  /\ chunk_num'[u] <= NumChunksPerThread(u)
                        /\ pc'[u] # "generate" => chunk_num'[u] = NumChunksPerThread(u)
                        /\ \A k \in 0 .. NumChunksPerThread(u) - 1 :
                             io_operations'[InsertPos(u, k)] =
                               IF k < chunk_num'[u]
                               THEN [thread |-> u, chunk |-> k] ELSE Empty
    OBVIOUS
  <2>5. c + 1 <= NumChunksPerThread(t) /\ pc[t] = "generate"
    BY <2>1, <1>1, NumChunksPerThreadType DEF GenerateChunk
  <2>6. /\ chunk_num'[u] <= NumChunksPerThread(u)
        /\ pc'[u] # "generate" => chunk_num'[u] = NumChunksPerThread(u)
    BY <2>3, <2>5
  <2>7. ASSUME NEW k \in 0 .. NumChunksPerThread(u) - 1
        PROVE  io_operations'[InsertPos(u, k)] =
                 IF k < chunk_num'[u] THEN [thread |-> u, chunk |-> k] ELSE Empty
    <3>1. k \in Nat /\ c \in Nat /\ InsertPos(u, k) \in Positions
      BY NumChunksPerThreadType, InsertPosInBounds
    <3>2. CASE u = t /\ k = c
      BY <2>2, <2>3, <3>1, <3>2
    <3>3. CASE ~(u = t /\ k = c)
      <4>1. InsertPos(u, k) # InsertPos(t, c)
        BY <3>1, <3>3, InsertPosInjective
      <4>2. io_operations'[InsertPos(u, k)] = io_operations[InsertPos(u, k)]
        BY <2>3, <3>1, <4>1
      <4>3. k < chunk_num'[u] <=> k < chunk_num[u]
        <5>1. CASE u = t
          <6>1. chunk_num'[t] = c + 1
            BY <2>3
          <6> QED  BY <3>1, <3>3, <5>1, <6>1
        <5>2. CASE u # t
          BY <2>3, <5>2
        <5> QED  BY <5>1, <5>2
      <4> QED  BY <4>2, <4>3
    <3> QED  BY <3>2, <3>3
  <2> QED  BY <2>6, <2>7
<1>2. ASSUME NEW t \in Threads, LockToCountDown(t)
     PROVE  GenerationInv'
  BY <1>2 DEF LockToCountDown, Goto, Lock, barrierFrame
<1>3. ASSUME NEW t \in Threads, CountDown(t)
     PROVE  GenerationInv'
  BY <1>3 DEF CountDown, Goto, Unlock, barrierFrame
<1>4. ASSUME NEW t \in Threads, NotifyAll(t)
     PROVE  GenerationInv'
  BY <1>4 DEF NotifyAll, barrierFrame
<1>5. ASSUME NEW t \in Threads, LockToWait(t)
     PROVE  GenerationInv'
  BY <1>5 DEF LockToWait, Goto, Lock, barrierFrame
<1>6. ASSUME NEW t \in Threads, CheckPredicate(t)
     PROVE  GenerationInv'
  BY <1>6 DEF CheckPredicate, Goto, Unlock, barrierFrame
<1>7. ASSUME NEW t \in Threads, BeginExecution(t)
     PROVE  GenerationInv'
  BY <1>7 DEF BeginExecution, Goto, executionFrame
<1>8. ASSUME NEW t \in Threads, ClaimFixed(t)
     PROVE  GenerationInv'
  BY <1>8 DEF ClaimFixed, Goto, executionFrame
<1>9. ASSUME NEW t \in Threads, ClaimDuration(t)
     PROVE  GenerationInv'
  BY <1>9 DEF ClaimDuration, Goto, executionFrame
<1>10. ASSUME NEW t \in Threads, RunChunk(t)
     PROVE  GenerationInv'
  BY <1>10 DEF RunChunk, Goto, executionFrame
<1>11. ASSUME NEW t \in Threads, StoreResult(t)
     PROVE  GenerationInv'
  BY <1>11 DEF StoreResult, Goto, executionFrame
<1>12. ASSUME NEW t \in Threads, SpuriousWakeup(t)
     PROVE  GenerationInv'
  BY <1>12 DEF SpuriousWakeup, Goto, barrierFrame
<1>13. ASSUME NEW t \in Threads, DeadlinePasses(t)
     PROVE  GenerationInv'
  BY <1>13 DEF DeadlinePasses, executionFrame
<1>14. CASE UNCHANGED vars
  BY <1>14 DEF vars
<1> QED
  BY <1>1, <1>2, <1>3, <1>4, <1>5, <1>6, <1>7, <1>8, <1>9, <1>10, <1>11, <1>12, <1>13, <1>14
  DEF Next, Step, Terminating

(* A fixed-size benchmark hands out the chunks below io_position once. *)
LEMMA WorkStep ==
  ASSUME TypeOK, WorkInv, [Next]_vars
  PROVE  WorkInv'
<1> USE ExecutionAssumption DEF TypeOK, WorkInv, Positions, NoChunk
<1>1. ASSUME NEW t \in Threads, GenerateChunk(t)
     PROVE  WorkInv'
  BY <1>1 DEF GenerateChunk
<1>2. ASSUME NEW t \in Threads, LockToCountDown(t)
     PROVE  WorkInv'
  BY <1>2 DEF LockToCountDown, Goto, Lock, barrierFrame
<1>3. ASSUME NEW t \in Threads, CountDown(t)
     PROVE  WorkInv'
  BY <1>3 DEF CountDown, Goto, Unlock, barrierFrame
<1>4. ASSUME NEW t \in Threads, NotifyAll(t)
     PROVE  WorkInv'
  BY <1>4 DEF NotifyAll, barrierFrame
<1>5. ASSUME NEW t \in Threads, LockToWait(t)
     PROVE  WorkInv'
  BY <1>5 DEF LockToWait, Goto, Lock, barrierFrame
<1>6. ASSUME NEW t \in Threads, CheckPredicate(t)
     PROVE  WorkInv'
  BY <1>6 DEF CheckPredicate, Goto, Unlock, barrierFrame
<1>7. ASSUME NEW t \in Threads, BeginExecution(t)
     PROVE  WorkInv'
  BY <1>7 DEF BeginExecution, Goto, executionFrame
<1>8. ASSUME NEW t \in Threads, ClaimFixed(t)
     PROVE  WorkInv'
  <2>1. /\ RunTime = 0 /\ pc[t] = "claim" /\ work[t] = NoChunk
        /\ io_position' = io_position + 1 /\ executed' = executed
    BY <1>8 DEF ClaimFixed, Goto
  <2>2. CASE io_position >= NumChunks
    <3>1. /\ work' = [work EXCEPT ![t] = NoChunk]
          /\ pc' = [pc EXCEPT ![t] = "finish"]
      BY <1>8, <2>2, Zenon DEF ClaimFixed, Goto
    <3>2. \A u \in Threads : work'[u] = work[u]
      BY <2>1, <3>1
    <3>3. \A p \in Positions : p < io_position /\ p < io_position'
      BY <2>1, <2>2
    <3> QED  BY <2>1, <2>2, <3>1, <3>2, <3>3
  <2>3. CASE ~(io_position >= NumChunks)
    <3>1. /\ work' = [work EXCEPT ![t] = io_position]
          /\ pc' = [pc EXCEPT ![t] = "run"]
      BY <1>8, <2>3, Zenon DEF ClaimFixed, Goto
    <3>2. \A u \in Threads : work'[u] # NoChunk <=> pc'[u] = "run"
      BY <3>1
    <3>3. \A u \in Threads : work'[u] < io_position'
      BY <2>1, <3>1
    <3>4. \A u, v \in Threads : work'[u] = work'[v] /\ u # v => work'[u] = NoChunk
      BY <2>1, <3>1
    <3>5. ASSUME NEW p \in Positions
          PROVE  executed'[p] = IF p < io_position' /\ \A u \in Threads : work'[u] # p
                                THEN 1 ELSE 0
      <4>1. CASE p = io_position
        <5>1. executed[p] = 0 /\ work'[t] = p
          BY <2>1, <3>1, <4>1
        <5> QED  BY <2>1, <5>1
      <4>2. CASE p # io_position
        <5>1. p < io_position' <=> p < io_position
          BY <2>1, <4>2
        <5>2. \A u \in Threads : work'[u] = p <=> work[u] = p
          BY <2>1, <3>1, <4>2
        <5>3. executed[p] = IF p < io_position /\ \A u \in Threads : work[u] # p
                            THEN 1 ELSE 0
          BY <2>1
        <5> QED  BY <2>1, <5>1, <5>2, <5>3
      <4> QED  BY <4>1, <4>2
    <3>6. \A u \in Threads : pc'[u] \in {"finish", "done"} => io_position' >= NumChunks
      BY <2>1, <3>1
    <3> QED  BY <3>2, <3>3, <3>4, <3>5, <3>6
  <2> QED  BY <2>2, <2>3
<1>9. ASSUME NEW t \in Threads, ClaimDuration(t)
     PROVE  WorkInv'
  BY <1>9 DEF ClaimDuration, Goto, executionFrame
<1>10. ASSUME NEW t \in Threads, RunChunk(t)
     PROVE  WorkInv'
  <2>1. /\ pc[t] = "run" /\ work[t] \in Positions
        /\ work' = [work EXCEPT ![t] = NoChunk]
        /\ executed' = [executed EXCEPT ![work[t]] = @ + 1]
        /\ pc' = [pc EXCEPT ![t] = pc'[t]] /\ pc'[t] \in {"claim", "finish"}
        /\ RunTime = 0 => pc'[t] = "claim"
        /\ io_position' = io_position
    BY <1>10 DEF RunChunk, Goto
  <2>2. \A u \in Threads : work'[u] # NoChunk <=> pc'[u] = "run"
    BY <2>1
  <2>3. ASSUME RunTime = 0
        PROVE  /\ \A u \in Threads : work'[u] < io_position'
               /\ \A u, v \in Threads : work'[u] = work'[v] /\ u # v => work'[u] = NoChunk
               /\ \A u \in Threads : pc'[u] \in {"finish", "done"} => io_position' >= NumChunks
    BY <2>1, <2>3
  <2>4. ASSUME RunTime = 0, NEW p \in Positions
        PROVE  executed'[p] = IF p < io_position' /\ \A u \in Threads : work'[u] # p
                              THEN 1 ELSE 0
    <3>1. executed[p] = IF p < io_position /\ \A u \in Threads : work[u] # p
                        THEN 1 ELSE 0
      BY <2>4
    <3>2. CASE p = work[t]
      <4>1. executed'[p] = 1
        BY <2>1, <3>1, <3>2
      <4>2. p < io_position /\ \A u \in Threads : work'[u] # p
        BY <2>1, <2>4, <3>2
      <4> QED  BY <2>1, <4>1, <4>2
    <3>3. CASE p # work[t]
      <4>1. executed'[p] = executed[p]
        BY <2>1, <3>3
      <4>2. \A u \in Threads : work'[u] = p <=> work[u] = p
        BY <2>1, <3>3
      <4> QED  BY <2>1, <3>1, <4>1, <4>2
    <3> QED  BY <3>2, <3>3
  <2> QED  BY <2>2, <2>3, <2>4
<1>11. ASSUME NEW t \in Threads, StoreResult(t)
     PROVE  WorkInv'
  BY <1>11 DEF StoreResult, Goto, executionFrame
<1>12. ASSUME NEW t \in Threads, SpuriousWakeup(t)
     PROVE  WorkInv'
  BY <1>12 DEF SpuriousWakeup, Goto, barrierFrame
<1>13. ASSUME NEW t \in Threads, DeadlinePasses(t)
     PROVE  WorkInv'
  BY <1>13 DEF DeadlinePasses, executionFrame
<1>14. CASE UNCHANGED vars
  BY <1>14 DEF vars
<1> QED
  BY <1>1, <1>2, <1>3, <1>4, <1>5, <1>6, <1>7, <1>8, <1>9, <1>10, <1>11, <1>12, <1>13, <1>14
  DEF Next, Step, Terminating

-----------------------------------------------------------------------------
(* How often a chunk was started, and who counted it.                      *)

(* The round and the position in it advance by one.                        *)
LEMMA NextRound ==
  ASSUME NEW n \in Nat \ {0}, NEW a \in Nat
  PROVE  IF a % n = n - 1
         THEN (a + 1) \div n = (a \div n) + 1 /\ (a + 1) % n = 0
         ELSE (a + 1) \div n = a \div n /\ (a + 1) % n = (a % n) + 1
<1> DEFINE q == a \div n  r == a % n
<1>1. q \in Nat /\ r \in 0 .. n - 1 /\ a = q * n + r
  BY DivMod
<1>2. ASSUME NEW d \in Nat, NEW m \in 0 .. n - 1, a + 1 = d * n + m
      PROVE  (a + 1) \div n = d /\ (a + 1) % n = m
  BY <1>2
<1>3. (q + 1) * n = q * n + n /\ q * n \in Nat
  BY <1>1
<1> HIDE DEF q, r
<1>4. CASE r = n - 1
  <2>1. a + 1 = (q + 1) * n + 0
    BY <1>1, <1>3, <1>4
  <2>2. (a + 1) \div n = q + 1 /\ (a + 1) % n = 0
    BY <1>1, <1>2, <2>1
  <2> QED  BY <1>4, <2>2 DEF q, r
<1>5. CASE r # n - 1
  <2>1. a + 1 = q * n + (r + 1) /\ r + 1 \in 0 .. n - 1
    BY <1>1, <1>3, <1>5
  <2>2. (a + 1) \div n = q /\ (a + 1) % n = r + 1
    BY <1>1, <1>2, <2>1
  <2> QED  BY <1>5, <2>2 DEF q, r
<1> QED  BY <1>4, <1>5

(* The threads at a chunk are finitely many.                               *)
LEMMA StartedType ==
  ASSUME TypeOK, NEW p \in Positions
  PROVE  /\ IsFiniteSet({t \in Threads : work[t] = p})
         /\ Cardinality({t \in Threads : work[t] = p}) \in Nat
         /\ Started(p) \in Nat
<1>1. IsFiniteSet({t \in Threads : work[t] = p})
  BY ThreadsFinite, FS_Subset
<1> QED  BY <1>1, FS_CardinalityType DEF Started, TypeOK

(* A thread that claims a chunk starts this one and no other ...           *)
LEMMA StartedByClaim ==
  ASSUME TypeOK, NEW t \in Threads, work[t] = NoChunk, NEW c \in Positions,
         work' = [work EXCEPT ![t] = c], executed' = executed,
         NEW p \in Positions
  PROVE  Started(p)' = IF p = c THEN Started(p) + 1 ELSE Started(p)
<1> DEFINE R == {u \in Threads : work[u] = p}
           S == {u \in Threads : work'[u] = p}
<1>1. IsFiniteSet(R) /\ Cardinality(R) \in Nat /\ t \notin R
  BY StartedType, ExecutionAssumption DEF Positions, NoChunk
<1>2. S = IF p = c THEN R \cup {t} ELSE R
  BY ExecutionAssumption DEF TypeOK, Positions, NoChunk
<1>3. Cardinality(S) = IF p = c THEN Cardinality(R) + 1 ELSE Cardinality(R)
  BY <1>1, <1>2, FS_AddElement
<1> QED  BY <1>1, <1>3 DEF Started, TypeOK

(* ... and does not start it again when it executes it.                    *)
LEMMA StartedByRun ==
  ASSUME TypeOK, NEW t \in Threads, work[t] \in Positions,
         work' = [work EXCEPT ![t] = NoChunk],
         executed' = [executed EXCEPT ![work[t]] = @ + 1],
         NEW p \in Positions
  PROVE  Started(p)' = Started(p)
<1> DEFINE R == {u \in Threads : work[u] = p}
           S == {u \in Threads : work'[u] = p}
<1>1. IsFiniteSet(R) /\ Cardinality(R) \in Nat
  BY StartedType
<1>2. S = R \ {t}
  BY ExecutionAssumption DEF TypeOK, Positions, NoChunk
<1>5. t \in R <=> p = work[t]
  OBVIOUS
<1>6. Cardinality(R \ {t}) = IF t \in R THEN Cardinality(R) - 1 ELSE Cardinality(R)
  BY <1>1, FS_RemoveElement
<1>3. Cardinality(S) = IF p = work[t] THEN Cardinality(R) - 1 ELSE Cardinality(R)
  BY <1>2, <1>5, <1>6
<1>4. executed'[p] = IF p = work[t] THEN executed[p] + 1 ELSE executed[p]
  BY DEF TypeOK
<1> QED  BY <1>1, <1>3, <1>4 DEF Started, TypeOK

(* No other step starts a chunk.                                           *)
LEMMA StartedOtherwise ==
  ASSUME NEW p, work' = work, executed' = executed
  PROVE  Started(p)' = Started(p)
BY DEF Started

(* What a step does to the claims: only these three actions touch them.    *)
LEMMA ClaimsChange ==
  ASSUME TypeOK, WorkInv, [Next]_vars
  PROVE  \/ \E t \in Threads : ClaimFixed(t) \/ ClaimDuration(t) \/ RunChunk(t)
         \/ UNCHANGED <<work, executed, io_position, num_executed_operations>>
BY DEF Next, Step, Terminating, vars, GenerateChunk, LockToCountDown, CountDown,
       NotifyAll, LockToWait, CheckPredicate, BeginExecution, StoreResult,
       SpuriousWakeup, DeadlinePasses, barrierFrame, executionFrame

(* In a timed benchmark the chunks are handed out in rounds. *)
LEMMA RoundsStep ==
  ASSUME TypeOK, WorkInv, RoundsInv, [Next]_vars
  PROVE  RoundsInv'
<1> SUFFICES ASSUME RunTime > 0, NEW p \in Positions
             PROVE  Started(p)' = (io_position' \div NumChunks)
                                    + (IF p < io_position' % NumChunks THEN 1 ELSE 0)
  BY DEF RoundsInv
<1>1. Started(p) = (io_position \div NumChunks)
                     + (IF p < io_position % NumChunks THEN 1 ELSE 0)
  BY DEF RoundsInv
<1>2. ASSUME NEW t \in Threads, ClaimDuration(t)
      PROVE  Started(p)' = (io_position' \div NumChunks)
                             + (IF p < io_position' % NumChunks THEN 1 ELSE 0)
  <2> DEFINE q == io_position \div NumChunks
             c == io_position % NumChunks
  <2>1. q \in Nat /\ c \in Positions /\ c \in 0 .. NumChunks - 1
    BY DivMod, ExecutionAssumption DEF TypeOK, Positions
  <2>2. /\ work[t] = NoChunk /\ work' = [work EXCEPT ![t] = c]
        /\ executed' = executed /\ io_position' = io_position + 1
    BY <1>2 DEF ClaimDuration, Goto, WorkInv
  <2>3. Started(p)' = IF p = c THEN Started(p) + 1 ELSE Started(p)
    BY <2>1, <2>2, StartedByClaim
  <2>4. IF c = NumChunks - 1
        THEN io_position' \div NumChunks = q + 1 /\ io_position' % NumChunks = 0
        ELSE io_position' \div NumChunks = q /\ io_position' % NumChunks = c + 1
    BY <2>2, NextRound, ExecutionAssumption DEF TypeOK
  <2>5. p \in 0 .. NumChunks - 1
    BY DEF Positions
  <2> HIDE DEF q, c
  <2>6. Started(p) = q + (IF p < c THEN 1 ELSE 0)
    BY <1>1 DEF q, c
  <2> QED  BY <2>1, <2>3, <2>4, <2>5, <2>6, ExecutionAssumption
<1>3. ASSUME NEW t \in Threads, RunChunk(t)
      PROVE  Started(p)' = Started(p) /\ io_position' = io_position
  <2>1. work[t] \in Positions
    BY <1>3 DEF RunChunk, Goto, WorkInv, TypeOK
  <2> QED  BY <1>3, <2>1, StartedByRun DEF RunChunk
<1>4. \A t \in Threads : ~ClaimFixed(t)
  BY DEF ClaimFixed
<1>5. CASE UNCHANGED <<work, executed, io_position>>
  BY <1>1, <1>5, StartedOtherwise
<1> QED  BY <1>1, <1>2, <1>3, <1>4, <1>5, ClaimsChange

(* Executed chunks and counted operations go up together, and reports      *)
(* repeat the count.                                                       *)
LEMMA ResultStep ==
  ASSUME TypeOK, WorkInv, ResultInv, [Next]_vars
  PROVE  ResultInv'
<1> DEFINE counted == num_executed_operations
           Reports == \A t \in Threads : pc[t] = "done" =>
                        total_operation_size[t] = counted[t] * ChunkSize
<1>1. SumOver(counted, Threads) = SumOver(executed, Positions) /\ Reports
  BY DEF ResultInv
<1>2. IsFiniteSet(Positions)
  BY FS_Interval, ExecutionAssumption DEF Positions
<1>3. SumOver(counted', Threads) = SumOver(executed', Positions)
  <2>1. ASSUME NEW t \in Threads, RunChunk(t)
        PROVE  SumOver(counted', Threads) = SumOver(executed', Positions)
    <3>1. /\ work[t] \in Positions
          /\ executed' = [executed EXCEPT ![work[t]] = @ + 1]
          /\ counted' = [counted EXCEPT ![t] = @ + 1]
      BY <2>1 DEF RunChunk, Goto, WorkInv, TypeOK
    <3>5. /\ \A p \in Positions : executed[p] \in Int /\ executed'[p] \in Int
          /\ \A p \in Positions \ {work[t]} : executed[p] = executed'[p]
      BY <3>1 DEF TypeOK
    <3>6. /\ \A u \in Threads : counted[u] \in Int /\ counted'[u] \in Int
          /\ \A u \in Threads \ {t} : counted[u] = counted'[u]
      BY <3>1 DEF TypeOK
    <3>2. SumOver(executed', Positions)
            = SumOver(executed, Positions) + (executed'[work[t]] - executed[work[t]])
      <4> DEFINE p == work[t]
      <4>1. p \in Positions
        BY <3>1
      <4> HIDE DEF p
      <4>2. \A q \in Positions \ {p} : executed[q] = executed'[q]
        BY <3>5 DEF p
      <4>3. SumOver(executed', Positions) = SumOver(executed, Positions) + (executed'[p] - executed[p])
        BY <1>2, <3>5, <4>1, <4>2, SumUpdate
      <4> QED  BY <4>3 DEF p
    <3>3. SumOver(counted', Threads) = SumOver(counted, Threads) + (counted'[t] - counted[t])
      BY ThreadsFinite, <3>6, SumUpdate
    <3>4. executed'[work[t]] - executed[work[t]] = 1 /\ counted'[t] - counted[t] = 1
      BY <3>1 DEF TypeOK
    <3> QED  BY <1>1, <3>2, <3>3, <3>4
  <2>2. CASE UNCHANGED <<executed, num_executed_operations>>
    BY <1>1, <2>2
  <2>3. \A t \in Threads : ClaimFixed(t) \/ ClaimDuration(t) =>
          UNCHANGED <<executed, num_executed_operations>>
    BY DEF ClaimFixed, ClaimDuration
  <2> QED  BY <2>1, <2>2, <2>3, ClaimsChange
<1>4. Reports'
  <2>1. ASSUME NEW t \in Threads, RunChunk(t)
        PROVE  Reports'
    BY <1>1, <2>1 DEF RunChunk, Goto, TypeOK
  <2>2. ASSUME NEW t \in Threads, StoreResult(t)
        PROVE  Reports'
    BY <1>1, <2>2 DEF StoreResult, Goto, TypeOK
  <2>3. CASE /\ UNCHANGED <<num_executed_operations, total_operation_size>>
             /\ \A t \in Threads : pc'[t] = "done" => pc[t] = "done"
    BY <1>1, <2>3
  <2>4. \/ \E t \in Threads : RunChunk(t) \/ StoreResult(t)
        \/ /\ UNCHANGED <<num_executed_operations, total_operation_size>>
           /\ \A t \in Threads : pc'[t] = "done" => pc[t] = "done"
    BY DEF TypeOK, Next, Step, Terminating, vars, Goto, GenerateChunk, LockToCountDown,
           CountDown, NotifyAll, LockToWait, CheckPredicate, BeginExecution,
           ClaimFixed, ClaimDuration, SpuriousWakeup, DeadlinePasses,
           barrierFrame, executionFrame
  <2> QED  BY <2>1, <2>2, <2>3, <2>4
<1>5. \A t \in Threads : pc'[t] = "done" =>
        total_operation_size'[t] = num_executed_operations'[t] * ChunkSize
  BY <1>4
<1> QED  BY <1>3, <1>5 DEF ResultInv

-----------------------------------------------------------------------------
(* The inductive invariant.                                                *)

(* Thread start establishes the inductive invariant ...                    *)
LEMMA InitIndInv == Init => IndInv
<1> SUFFICES ASSUME Init PROVE IndInv
  OBVIOUS
<1> USE ExecutionAssumption DEF Init
<1>1. TypeOK
  BY DEF TypeOK, Threads, Positions, NoThread, NoChunk, Empty
<1>2. LockInv
  BY DEF LockInv, Threads, NoThread
<1>3. CountInv
  <2>1. {t \in Threads : pc[t] \in Generating} = Threads
    BY DEF Generating
  <2>2. Cardinality(Threads) = NumThreads
    BY FS_Interval DEF Threads
  <2> QED  BY <2>1, <2>2 DEF CountInv
<1>4. GenerationInv
  BY NumChunksPerThreadType, InsertPosInBounds DEF GenerationInv
<1>5. BarrierInv
  BY DEF BarrierInv, NoLostWakeup, Executing
<1>6. WorkInv
  BY DEF WorkInv, Positions, NoChunk
<1>7. \A p \in Positions : {t \in Threads : work[t] = p} = {}
  BY DEF Positions, NoChunk
<1>8. RoundsInv
  <2>1. 0 \div NumChunks = 0 /\ 0 % NumChunks = 0
    OBVIOUS
  <2>2. ASSUME NEW p \in Positions
        PROVE  Started(p) = 0
    <3>1. Cardinality({t \in Threads : work[t] = p}) = 0
      BY <1>7, FS_EmptySet
    <3> QED  BY <3>1 DEF Started
  <2>3. \A p \in Positions : ~(p < 0)
    BY DEF Positions
  <2> QED  BY <2>1, <2>2, <2>3 DEF RoundsInv
<1>9. ResultInv
  <2>1. IsFiniteSet(Positions)
    BY FS_Interval DEF Positions
  <2>2. SumOver(num_executed_operations, Threads) = 0
    BY ThreadsFinite, SumZero
  <2>3. SumOver(executed, Positions) = 0
    BY <2>1, SumZero
  <2> QED  BY <2>2, <2>3 DEF ResultInv
<1> QED  BY <1>1, <1>2, <1>3, <1>4, <1>5, <1>6, <1>8, <1>9 DEF IndInv

(* ... and every step of every thread preserves it.                        *)
LEMMA NextIndInv == IndInv /\ [Next]_vars => IndInv'
BY TypeStep, LockStep, CountStep, GenerationStep, BarrierStep, WorkStep,
   RoundsStep, ResultStep DEF IndInv

(* The inductive invariant holds in every reachable state, for any number  *)
(* of threads and chunks, with and without a run_time.                     *)
THEOREM Invariance == Spec => []IndInv
BY InitIndInv, NextIndInv, PTL DEF Spec

-----------------------------------------------------------------------------
(* The properties.                                                         *)

(* Types are respected; in particular threads_remaining, an unsigned       *)
(* 16-bit counter in the code, never wraps below zero.                     *)
THEOREM TypeCorrect == Spec => []TypeOK
BY Invariance, PTL DEF IndInv

(* No thread executes before all of io_operations is generated.            *)
THEOREM BarrierSafe == Spec => []GenerationBarrier
<1>1. IndInv => GenerationBarrier
  <2> SUFFICES ASSUME IndInv, NEW t \in Threads, pc[t] \in Executing,
                      NEW p \in Positions
               PROVE  io_operations[p] # Empty
    BY DEF GenerationBarrier
  <2>1. threads_remaining = 0
    BY DEF IndInv, BarrierInv
  <2>2. PICK u \in Threads :
               \E k \in 0 .. NumChunksPerThread(u) - 1 : InsertPos(u, k) = p
    BY InsertPosSurjective
  <2>3. PICK k \in 0 .. NumChunksPerThread(u) - 1 : InsertPos(u, k) = p
    BY <2>2
  <2>4. pc[u] # "generate"
    BY <2>1, StillGenerating DEF IndInv, Generating
  <2>5. io_operations[p] = [thread |-> u, chunk |-> k]
    BY <2>3, <2>4, NumChunksPerThreadType DEF IndInv, GenerationInv
  <2>6. u # NoThread
    BY ExecutionAssumption DEF Threads, NoThread
  <2> QED  BY <2>5, <2>6 DEF Empty
<1> QED  BY <1>1, Invariance, PTL

(* No thread is left sleeping at the barrier without a notification to come. *)
THEOREM WakeupSafe == Spec => []NoLostWakeup
<1>1. IndInv => NoLostWakeup
  BY DEF IndInv, BarrierInv
<1> QED  BY <1>1, Invariance, PTL

(* No slot of io_operations is written twice.                              *)
THEOREM GenerationRaceFree == Spec => WriteOnce
<1> DEFINE Kept == \A p \in Positions :
                     io_operations[p] # Empty => io_operations'[p] = io_operations[p]
<1>1. IndInv /\ [Next]_vars => [Kept]_vars
  <2> SUFFICES ASSUME IndInv, Next
               PROVE  Kept
    BY DEF vars
  <2>1. ASSUME NEW t \in Threads, GenerateChunk(t)
        PROVE  Kept
    <3> DEFINE c == chunk_num[t]
    <3>1. c \in Nat /\ c \in 0 .. NumChunksPerThread(t) - 1
      BY <2>1, NumChunksPerThreadType DEF IndInv, TypeOK, GenerateChunk
    <3>2. io_operations[InsertPos(t, c)] = Empty
      <4>1. \A k \in 0 .. NumChunksPerThread(t) - 1 :
              io_operations[InsertPos(t, k)] =
                IF k < chunk_num[t] THEN [thread |-> t, chunk |-> k] ELSE Empty
        BY DEF IndInv, GenerationInv
      <4>2. ~(c < chunk_num[t])
        BY <3>1
      <4> QED  BY <3>1, <4>1, <4>2, Zenon
    <3> QED  BY <2>1, <3>2 DEF IndInv, TypeOK, GenerateChunk
  <2>2. CASE io_operations' = io_operations
    BY <2>2
  <2>3. (\E t \in Threads : GenerateChunk(t)) \/ io_operations' = io_operations
    BY DEF Next, Step, Terminating, vars, LockToCountDown, CountDown, NotifyAll,
           LockToWait, CheckPredicate, BeginExecution, ClaimFixed, ClaimDuration,
           RunChunk, StoreResult, SpuriousWakeup, DeadlinePasses,
           barrierFrame, executionFrame
  <2> QED  BY <2>1, <2>2, <2>3
<1> QED  BY <1>1, Invariance, PTL DEF Spec, WriteOnce

(* In a fixed-size benchmark a position of io_operations is started at     *)
(* most once, and was executed exactly once when all threads are done.     *)
THEOREM StealingExactlyOnce == Spec => []ExactlyOnce
<1>1. IndInv => ExactlyOnce
  <2> SUFFICES ASSUME IndInv, RunTime = 0, NEW p \in Positions
               PROVE  Started(p) <= 1 /\ (AllDone => executed[p] = 1)
    BY DEF ExactlyOnce
  <2> DEFINE R == {t \in Threads : work[t] = p}
  <2>1. p # NoChunk
    BY ExecutionAssumption DEF Positions, NoChunk
  <2>2. executed[p] = IF p < io_position /\ \A t \in Threads : work[t] # p THEN 1 ELSE 0
    BY DEF IndInv, WorkInv
  <2>3. CASE R = {}
    <3>1. Cardinality(R) = 0
      BY <2>3, FS_EmptySet
    <3>2. Started(p) <= 1
      BY <2>2, <3>1 DEF Started
    <3>3. AllDone => executed[p] = 1
      <4> SUFFICES ASSUME AllDone PROVE executed[p] = 1
        OBVIOUS
      <4>1. 0 \in Threads
        BY ExecutionAssumption DEF Threads
      <4>2. io_position >= NumChunks
        BY <4>1 DEF IndInv, WorkInv, AllDone
      <4>3. p < io_position
        BY <4>2, ExecutionAssumption DEF Positions, IndInv, TypeOK
      <4> QED  BY <2>2, <2>3, <4>3
    <3> QED  BY <3>2, <3>3
  <2>4. CASE R # {}
    <3>1. PICK t \in Threads : work[t] = p
      BY <2>4
    <3>2. R = {t}
      BY <2>1, <3>1 DEF IndInv, WorkInv
    <3>3. Cardinality(R) = 1
      BY <3>2, FS_Singleton
    <3>4. Started(p) <= 1
      BY <2>2, <3>1, <3>3 DEF Started
    <3>5. ~AllDone
      BY <2>1, <3>1 DEF IndInv, WorkInv, AllDone
    <3> QED  BY <3>4, <3>5
  <2> QED  BY <2>3, <2>4
<1> QED  BY <1>1, Invariance, PTL

(* The sizes that the threads report add up to what was executed, however  *)
(* the chunks were divided among them.                                     *)
THEOREM SizesAddUp == Spec => []ReportedSizesAddUp
<1>1. IndInv => ReportedSizesAddUp
  <2> SUFFICES ASSUME IndInv, AllDone
               PROVE  SumOver(total_operation_size, Threads) = ChunkSize * SumOver(executed, Positions)
    BY DEF ReportedSizesAddUp
  <2>1. \A t \in Threads : /\ num_executed_operations[t] \in Int
                           /\ total_operation_size[t] = ChunkSize * num_executed_operations[t]
    BY ExecutionAssumption DEF IndInv, ResultInv, TypeOK, AllDone
  <2>2. SumOver(total_operation_size, Threads) = ChunkSize * SumOver(num_executed_operations, Threads)
    BY <2>1, ThreadsFinite, SumScale, ExecutionAssumption
  <2> QED  BY <2>2 DEF IndInv, ResultInv
<1> QED  BY <1>1, Invariance, PTL

-----------------------------------------------------------------------------
(* The refinement: what the threads do to the chunks, seen from outside,   *)
(* is what ChunkPool allows.                                               *)

taken == [p \in Positions |-> Started(p)]
Rounds == IF RunTime = 0 THEN 1 ELSE 0

(* The pool hands out a chunk when a thread claims it: the barrier is open *)
(* and no chunk was handed out less often.                                 *)
LEMMA ClaimIsTake ==
  ASSUME TypeOK, BarrierInv, NEW t \in Threads, pc[t] = "claim", work[t] = NoChunk,
         NEW c \in Positions, work' = [work EXCEPT ![t] = c],
         UNCHANGED <<executed, threads_remaining>>,
         \A p \in Positions : Started(c) <= Started(p),
         RunTime = 0 => Started(c) = 0
  PROVE  Pool!Take(t, c)
<1>1. threads_remaining = 0
  BY DEF BarrierInv, Executing
<1>2. taken' = [taken EXCEPT ![c] = @ + 1]
  <2>1. \A p \in Positions : Started(p)' = IF p = c THEN Started(p) + 1 ELSE Started(p)
    BY StartedByClaim
  <2> QED  BY <2>1 DEF taken
<1>3. \A p \in Positions : taken[c] <= taken[p]
  BY DEF taken
<1>4. Rounds # 0 => taken[c] < Rounds
  BY DEF taken, Rounds
<1> QED  BY <1>1, <1>2, <1>3, <1>4 DEF Pool!Take, taken, Rounds

(* Executing a chunk completes it in the pool.                             *)
LEMMA RunIsComplete ==
  ASSUME TypeOK, WorkInv, NEW t \in Threads, RunChunk(t)
  PROVE  Pool!Complete(t)
<1>1. /\ work[t] \in Positions /\ work[t] # NoChunk
      /\ work' = [work EXCEPT ![t] = NoChunk]
      /\ executed' = [executed EXCEPT ![work[t]] = @ + 1]
      /\ threads_remaining' = threads_remaining
  BY DEF RunChunk, Goto, WorkInv, TypeOK, executionFrame
<1>2. \A p \in Positions : Started(p)' = Started(p)
  BY <1>1, StartedByRun
<1> QED  BY <1>1, <1>2 DEF Pool!Complete

(* A step that is none of these changes nothing of the pool, except that   *)
(* the last count-down opens it.                                           *)
LEMMA OtherStepOfPool ==
  ASSUME work' = work, executed' = executed,
         threads_remaining' = 0 <=> threads_remaining = 0
  PROVE  UNCHANGED Pool!poolVars
<1>1. \A p \in Positions : Started(p)' = Started(p)
  BY StartedOtherwise
<1> QED  BY <1>1 DEF Pool!poolVars

(* The last thread to count down opens the pool; the others do not change  *)
(* it.                                                                     *)
LEMMA CountDownOpens ==
  ASSUME TypeOK, CountInv, NEW t \in Threads, CountDown(t)
  PROVE  Pool!Open \/ UNCHANGED Pool!poolVars
<1>1. /\ threads_remaining > 0 /\ threads_remaining' = threads_remaining - 1
      /\ work' = work /\ executed' = executed
  BY StillGenerating DEF CountDown, Goto, Generating, barrierFrame
<1>2. \A p \in Positions : Started(p)' = Started(p)
  BY <1>1, StartedOtherwise
<1>3. CASE threads_remaining = 1
  BY <1>1, <1>2, <1>3 DEF Pool!Open
<1>4. CASE threads_remaining # 1
  <2>1. ~(threads_remaining = 0) /\ ~(threads_remaining' = 0)
    BY <1>1, <1>4 DEF TypeOK
  <2> QED  BY <1>1, <2>1, OtherStepOfPool
<1> QED  BY <1>3, <1>4

(* In a fixed-size benchmark a claim takes a chunk nobody has taken yet,   *)
(* or none.                                                                *)
LEMMA FixedClaim ==
  ASSUME IndInv, NEW t \in Threads, ClaimFixed(t)
  PROVE  Pool!PoolNext \/ UNCHANGED Pool!poolVars
<1>1. /\ RunTime = 0 /\ pc[t] = "claim" /\ work[t] = NoChunk
      /\ executed' = executed /\ threads_remaining' = threads_remaining
  BY DEF ClaimFixed, Goto, IndInv, WorkInv, executionFrame
<1>2. CASE io_position >= NumChunks
  <2>1. work' = [work EXCEPT ![t] = NoChunk]
    BY <1>2, Zenon DEF ClaimFixed
  <2>2. work' = work
    BY <1>1, <2>1 DEF IndInv, TypeOK
  <2> QED  BY <1>1, <2>2, OtherStepOfPool
<1>3. CASE ~(io_position >= NumChunks)
  <2>1. work' = [work EXCEPT ![t] = io_position]
    BY <1>3, Zenon DEF ClaimFixed
  <2>2. io_position \in Positions
    BY <1>3, ExecutionAssumption DEF IndInv, TypeOK, Positions
  <2>3. Started(io_position) = 0
    <3>1. executed[io_position] = 0
      BY <1>1, <2>2 DEF IndInv, WorkInv, TypeOK
    <3>2. \A u \in Threads : work[u] # io_position
      BY <1>1 DEF IndInv, WorkInv, TypeOK
    <3>3. {u \in Threads : work[u] = io_position} = {}
      BY <3>2
    <3> QED  BY <3>1, <3>3, FS_EmptySet DEF Started
  <2>4. \A p \in Positions : Started(io_position) <= Started(p)
    <3>1. \A p \in Positions : Started(p) \in Nat
      BY StartedType DEF IndInv
    <3> QED  BY <2>3, <3>1
  <2>5. Pool!Take(t, io_position)
    BY <1>1, <2>1, <2>2, <2>3, <2>4, ClaimIsTake DEF IndInv
  <2> QED  BY <2>2, <2>5 DEF Pool!PoolNext
<1> QED  BY <1>2, <1>3

(* In a timed benchmark a claim takes a chunk of the current round, which  *)
(* no other chunk was taken less often than.                               *)
LEMMA DurationClaim ==
  ASSUME IndInv, NEW t \in Threads, ClaimDuration(t)
  PROVE  Pool!PoolNext
<1> DEFINE c == io_position % NumChunks
<1>1. /\ RunTime > 0 /\ pc[t] = "claim" /\ work[t] = NoChunk
      /\ work' = [work EXCEPT ![t] = c]
      /\ executed' = executed /\ threads_remaining' = threads_remaining
  BY DEF ClaimDuration, Goto, IndInv, WorkInv, executionFrame
<1>2. /\ c \in Positions /\ c \in Nat /\ io_position \div NumChunks \in Nat
  <2>1. io_position \in Nat /\ NumChunks \in Nat \ {0}
    BY ExecutionAssumption DEF IndInv, TypeOK
  <2>2. c \in 0 .. NumChunks - 1 /\ io_position \div NumChunks \in Nat
    BY <2>1
  <2> QED  BY <2>1, <2>2 DEF Positions
<1>3. \A p \in Positions : Started(p) = (io_position \div NumChunks) + (IF p < c THEN 1 ELSE 0)
  BY <1>1 DEF IndInv, RoundsInv
<1>4. \A p \in Positions : Started(c) <= Started(p)
  <2> HIDE DEF c
  <2> QED  BY <1>2, <1>3
<1>5. RunTime # 0
  BY <1>1
<1> HIDE DEF c
<1>6. Pool!Take(t, c)
  BY <1>1, <1>2, <1>4, <1>5, ClaimIsTake DEF IndInv
<1> QED  BY <1>2, <1>6 DEF Pool!PoolNext

(* Every step of the threads is a step of the pool or leaves it unchanged: *)
(* nothing is handed out before the barrier, a chunk is not handed out     *)
(* again before all the others were, and what is handed out is completed   *)
(* by the thread that has it, once.                                        *)
THEOREM ImplementsPoolSafety == Spec => Pool!PoolSafety
<1>1. Init => Pool!PoolInit
  <2> SUFFICES ASSUME Init PROVE Pool!PoolInit
    OBVIOUS
  <2>1. ASSUME NEW p \in Positions
        PROVE  Started(p) = 0
    <3>1. {t \in Threads : work[t] = p} = {}
      BY DEF Init, Positions, NoChunk
    <3> QED  BY <3>1, FS_EmptySet DEF Started, Init
  <2> QED  BY <2>1, ExecutionAssumption DEF Init, Pool!PoolInit
<1>2. IndInv /\ [Next]_vars => [Pool!PoolNext]_(Pool!poolVars)
  <2> SUFFICES ASSUME IndInv, [Next]_vars
               PROVE  Pool!PoolNext \/ UNCHANGED Pool!poolVars
    OBVIOUS
  <2>1. ASSUME NEW t \in Threads, RunChunk(t)
        PROVE  Pool!PoolNext
    BY <2>1, RunIsComplete DEF IndInv, Pool!PoolNext
  <2>2. ASSUME NEW t \in Threads, CountDown(t)
        PROVE  Pool!PoolNext \/ UNCHANGED Pool!poolVars
    BY <2>2, CountDownOpens DEF IndInv, Pool!PoolNext
  <2>3. CASE UNCHANGED <<work, executed, threads_remaining>>
    BY <2>3, OtherStepOfPool
  <2>4. \/ \E t \in Threads : ClaimFixed(t) \/ ClaimDuration(t) \/ RunChunk(t) \/ CountDown(t)
        \/ UNCHANGED <<work, executed, threads_remaining>>
    BY DEF Next, Step, Terminating, vars, GenerateChunk, LockToCountDown, NotifyAll,
           LockToWait, CheckPredicate, BeginExecution, StoreResult, SpuriousWakeup,
           DeadlinePasses, barrierFrame, executionFrame
  <2> QED  BY <2>1, <2>2, <2>3, <2>4, FixedClaim, DurationClaim
<1> QED  BY <1>1, <1>2, Invariance, PTL DEF Spec, Pool!PoolSafety
=============================================================================

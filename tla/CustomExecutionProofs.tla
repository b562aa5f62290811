------------------------- MODULE CustomExecutionProofs -------------------------
(***************************************************************************)
(* Proofs about CustomExecution and CustomResults, for every number of     *)
(* threads, operations, chunk size and sample frequency.                   *)
(***************************************************************************)
EXTENDS CustomResults, OperatorProofs

(* The threads that found no chunk left                                    *)
Stopped == {t \in Threads : pc[t] \in {"finish", "done"}}

(* The inductive invariant: below zero, the counter has been decremented   *)
(* once by each of as many stopped threads.                                *)
CounterInv ==
  /\ TypeOK
  /\ -num_custom_chunks_remaining <= Cardinality(Stopped)

(* Sets of threads are finite, with at most NumThreads elements.           *)
LEMMA StoppedFinite ==
  /\ IsFiniteSet(Stopped)
  /\ Cardinality(Stopped) \in Nat
  /\ Cardinality(Stopped) <= NumThreads
<1>1. IsFiniteSet(Threads) /\ Cardinality(Threads) = NumThreads
  BY FS_Interval, CustomAssumption DEF Threads
<1>2. Stopped \in SUBSET Threads
  BY DEF Stopped
<1> QED  BY <1>1, <1>2, FS_Subset, FS_CardinalityType

(* The same after a step.                                                  *)
LEMMA StoppedFiniteNext ==
  /\ IsFiniteSet(Stopped')
  /\ Cardinality(Stopped') \in Nat
<1>1. IsFiniteSet(Threads)
  BY FS_Interval, CustomAssumption DEF Threads
<1>2. Stopped' \in SUBSET Threads
  BY DEF Stopped
<1> QED  BY <1>1, <1>2, FS_Subset, FS_CardinalityType

(* The counter starts at the number of chunks, which is not negative.      *)
LEMMA InitCounterInv == Init => CounterInv
<1> SUFFICES ASSUME Init PROVE CounterInv
  OBVIOUS
<1>1. NumChunks \in Nat
  BY CustomAssumption DEF NumChunks
<1>2. TypeOK
  BY <1>1, CustomAssumption DEF Init, TypeOK
<1>3. num_custom_chunks_remaining = NumChunks
  BY DEF Init
<1> QED  BY <1>1, <1>2, <1>3, StoppedFinite DEF CounterInv

(* Drawing in vain decrements the counter and stops the thread.            *)
LEMMA DrawCounterInv ==
  ASSUME CounterInv, NEW t \in Threads, Draw(t)
  PROVE  CounterInv'
<1> USE DEF CounterInv, TypeOK, Draw
<1>1. TypeOK'
  BY CustomAssumption
<1>2. num_custom_chunks_remaining' = num_custom_chunks_remaining - 1
  OBVIOUS
<1>3. CASE num_custom_chunks_remaining <= 0
  <2>1. t \notin Stopped
    BY DEF Stopped
  <2>2. Stopped' = Stopped \cup {t}
    BY <1>3 DEF Stopped
  <2>3. Cardinality(Stopped') = Cardinality(Stopped) + 1
    BY <2>1, <2>2, StoppedFinite, FS_AddElement
  <2> QED  BY <1>1, <1>2, <2>3, StoppedFinite
<1>4. CASE num_custom_chunks_remaining > 0
  BY <1>1, <1>2, <1>4, StoppedFiniteNext
<1> QED  BY <1>3, <1>4

(* A thread at work neither touches the counter nor stops; one that stores *)
(* its result stays stopped.                                               *)
LEMMA OtherCounterInv ==
  ASSUME CounterInv, NEW t \in Threads,
         RunChain(t) \/ EndChunk(t) \/ StoreResult(t)
  PROVE  CounterInv'
<1> USE DEF CounterInv, TypeOK
<1>1. TypeOK' /\ UNCHANGED num_custom_chunks_remaining
  <2>1. CASE RunChain(t)
    BY <2>1, CustomAssumption DEF RunChain
  <2>2. CASE EndChunk(t)
    BY <2>2, CustomAssumption DEF EndChunk
  <2>3. CASE StoreResult(t)
    BY <2>3 DEF StoreResult
  <2> QED  BY <2>1, <2>2, <2>3
<1>2. Stopped' = Stopped
  <2>1. CASE RunChain(t)
    BY <2>1 DEF RunChain, Stopped
  <2>2. CASE EndChunk(t)
    BY <2>2 DEF EndChunk, Stopped
  <2>3. CASE StoreResult(t)
    BY <2>3 DEF StoreResult, Stopped
  <2> QED  BY <2>1, <2>2, <2>3
<1> QED  BY <1>1, <1>2

(* The invariant of the counter holds in every reachable state.            *)
LEMMA CounterInvariance == Init /\ [][Next]_vars => []CounterInv
<1>1. CounterInv /\ [Next]_vars => CounterInv'
  <2> SUFFICES ASSUME CounterInv, [Next]_vars PROVE CounterInv'
    OBVIOUS
  <2>1. ASSUME NEW t \in Threads, Step(t)
        PROVE  CounterInv'
    BY <2>1, DrawCounterInv, OtherCounterInv DEF Step
  <2>2. CASE UNCHANGED vars
    BY <2>2 DEF CounterInv, TypeOK, Stopped, vars
  <2> QED  BY <2>1, <2>2 DEF Next
<1> QED  BY <1>1, InitCounterInv, PTL

(* The variables keep their types; of the counters only the shared one can *)
(* become negative.                                                        *)
THEOREM TypeCorrect == Spec => []TypeOK
<1>1. CounterInv => TypeOK
  BY DEF CounterInv
<1> QED  BY <1>1, CounterInvariance, PTL DEF Spec

(* The work counter of custom operations stays above -NumThreads: with the *)
(* sign it has in the code it cannot wrap around and restart the work.     *)
THEOREM CounterSafe == Spec => []CounterBounded
<1>1. CounterInv => CounterBounded
  BY StoppedFinite, CustomAssumption DEF CounterInv, TypeOK, CounterBounded
<1> QED  BY <1>1, CounterInvariance, PTL DEF Spec
-----------------------------------------------------------------------------
(* Chunks, chains and samples.                                             *)

(* There are finitely many threads.                                        *)
LEMMA ThreadsFinite == IsFiniteSet(Threads)
BY FS_Interval, CustomAssumption DEF Threads

(* Chunks and operations are counted in naturals.                          *)
LEMMA ChunksType == NumChunks \in Nat /\ NumChunks * OpsPerChunk \in Nat
BY CustomAssumption DEF NumChunks

(* The chunks cover the operations, with less than a chunk on top.         *)
LEMMA ChunksCover ==
  /\ NumChunks * OpsPerChunk >= NumOperations
  /\ NumChunks * OpsPerChunk < NumOperations + OpsPerChunk
<1> DEFINE q == NumOperations \div OpsPerChunk
           r == NumOperations % OpsPerChunk
<1>1. /\ OpsPerChunk \in Nat \ {0} /\ q \in Nat /\ r \in 0 .. OpsPerChunk - 1
      /\ NumOperations = q * OpsPerChunk + r
  BY CustomAssumption
<1>2. NumChunks = q + (IF r # 0 THEN 1 ELSE 0)
  BY DEF NumChunks
<1> HIDE DEF q, r
<1>3. (q + 1) * OpsPerChunk = q * OpsPerChunk + OpsPerChunk /\ q * OpsPerChunk \in Nat
  BY <1>1
<1>4. CASE r = 0
  BY <1>1, <1>2, <1>3, <1>4
<1>5. CASE r # 0
  BY <1>1, <1>2, <1>3, <1>5
<1> QED  BY <1>4, <1>5

(* No thread has run more than it has drawn.                               *)
LEMMA SumsType ==
  ASSUME TypeOK
  PROVE  /\ \A t \in Threads : /\ Run[t] \in Int /\ Drawn[t] \in Int
                              /\ Run[t] <= Drawn[t]
         /\ SumOver(Run, Threads) \in Int /\ SumOver(Drawn, Threads) \in Int
         /\ SumOver(Run, Threads) <= SumOver(Drawn, Threads)
<1>1. \A t \in Threads : /\ Run[t] \in Int /\ Drawn[t] \in Int
                        /\ Run[t] <= Drawn[t]
  BY CustomAssumption DEF TypeOK, Run, Drawn
<1> QED  BY <1>1, ThreadsFinite, SumType, SumMonotonic

(* The summands are numbers in the next state, too.                        *)
LEMMA SumsTypeNext ==
  ASSUME TypeOK'
  PROVE  \A t \in Threads : Run'[t] \in Int /\ Drawn'[t] \in Int
BY CustomAssumption DEF TypeOK, Run, Drawn

(* A step of one thread changes the sums by what it changes of its own.    *)
LEMMA SumsChange ==
  ASSUME TypeOK, TypeOK', NEW t \in Threads,
         \A u \in Threads \ {t} : Run'[u] = Run[u] /\ Drawn'[u] = Drawn[u]
  PROVE  /\ SumOver(Run', Threads) = SumOver(Run, Threads) + (Run'[t] - Run[t])
         /\ SumOver(Drawn', Threads) = SumOver(Drawn, Threads) + (Drawn'[t] - Drawn[t])
<1>1. \A u \in Threads : Run[u] \in Int /\ Run'[u] \in Int
  BY SumsType, SumsTypeNext
<1>2. \A u \in Threads : Drawn[u] \in Int /\ Drawn'[u] \in Int
  BY SumsType, SumsTypeNext
<1>3. \A u \in Threads \ {t} : Run[u] = Run'[u]
  OBVIOUS
<1>4. \A u \in Threads \ {t} : Drawn[u] = Drawn'[u]
  OBVIOUS
<1>5. SumOver(Run', Threads) = SumOver(Run, Threads) + (Run'[t] - Run[t])
  BY <1>1, <1>3, ThreadsFinite, SumUpdate
<1>6. SumOver(Drawn', Threads) = SumOver(Drawn, Threads) + (Drawn'[t] - Drawn[t])
  BY <1>2, <1>4, ThreadsFinite, SumUpdate
<1> QED  BY <1>5, <1>6

(* Every SampleFrequency-th chain completes one more sample.               *)
LEMMA NextSample ==
  ASSUME NEW f \in Nat \ {0}, NEW n \in Nat
  PROVE  (n + 1) \div f = (n \div f) + (IF (n + 1) % f = 0 THEN 1 ELSE 0)
<1>1. /\ n \div f \in Nat /\ n % f \in 0 .. f - 1 /\ n = f * (n \div f) + (n % f)
      /\ (n + 1) \div f \in Nat /\ (n + 1) % f \in 0 .. f - 1
      /\ n + 1 = f * ((n + 1) \div f) + ((n + 1) % f)
  OBVIOUS
<1> DEFINE a == n \div f
           b == (n + 1) \div f
           x == n % f
           y == (n + 1) % f
<1>2. /\ a \in Nat /\ b \in Nat /\ x \in 0 .. f - 1 /\ y \in 0 .. f - 1
      /\ f * a + x + 1 = f * b + y
  BY <1>1
<1> HIDE DEF a, b, x, y
<1>3. f * a \in Nat /\ f * b \in Nat /\ f * (a + 1) = f * a + f
  BY <1>2
<1>4. b \in {a, a + 1}
  <2>1. ASSUME b < a PROVE FALSE
    <3>1. f * (b + 1) <= f * a /\ f * (b + 1) = f * b + f
      BY <1>2, <2>1
    <3> QED  BY <1>2, <1>3, <3>1
  <2>2. ASSUME b > a + 1 PROVE FALSE
    <3>1. f * (a + 2) <= f * b /\ f * (a + 2) = f * a + f + f
      BY <1>2, <2>2
    <3> QED  BY <1>2, <1>3, <3>1
  <2> QED  BY <1>2, <2>1, <2>2
<1>5. b = a + (IF y = 0 THEN 1 ELSE 0)
  <2>1. CASE b = a
    BY <1>2, <1>3, <2>1
  <2>2. CASE b = a + 1
    BY <1>2, <1>3, <2>2
  <2> QED  BY <1>4, <2>1, <2>2
<1> QED  BY <1>5 DEF a, b, y

(* A further chunk adds one to the number of whole chunks.                 *)
LEMMA NextChunk ==
  ASSUME NEW f \in Nat \ {0}, NEW n \in Nat
  PROVE  (n + f) \div f = (n \div f) + 1
OBVIOUS

-----------------------------------------------------------------------------
(* The inductive invariant.                                                *)

(* At first all operations are in the counter.                             *)
LEMMA InitIndInv == Init => IndInv
<1> SUFFICES ASSUME Init PROVE IndInv
  OBVIOUS
<1>1. TypeOK
  BY InitCounterInv DEF CounterInv
<1>2. \A t \in Threads : Run[t] = 0 /\ Drawn[t] = 0
  BY DEF Init, Run, Drawn
<1>3. SumOver(Run, Threads) = 0 /\ SumOver(Drawn, Threads) = 0
  BY <1>2, ThreadsFinite, SumZero
<1>4. executed = SumOver(Run, Threads)
  BY <1>3 DEF Init
<1>5. DrawnInv
  BY <1>3, ChunksType, CustomAssumption DEF Init, DrawnInv
<1>6. SamplesInv
  <2>1. ASSUME SampleFrequency # 0
        PROVE  0 = (0 \div OpsPerChunk) * (OpsPerChunk \div SampleFrequency) + 0
    <3>1. OpsPerChunk \div SampleFrequency \in Nat /\ 0 \div OpsPerChunk = 0
      BY <2>1, CustomAssumption
    <3> QED  BY <3>1
  <2> QED  BY <2>1 DEF Init, SamplesInv
<1> QED  BY <1>1, <1>4, <1>5, <1>6 DEF IndInv, Init

(* A draw that finds a chunk takes it from the counter, ...                *)
LEMMA DrawIndInv ==
  ASSUME IndInv, TypeOK', NEW t \in Threads, Draw(t)
  PROVE  IndInv'
<1>1. /\ pc[t] = "draw" /\ num_custom_chunks_remaining \in Int
      /\ num_custom_chunks_remaining' = num_custom_chunks_remaining - 1
      /\ OpsPerChunk \in Nat \ {0} /\ total_num_ops[t] \in Nat
  BY CustomAssumption DEF Draw, IndInv, TypeOK
<1>2. \A u \in Threads \ {t} : Run'[u] = Run[u] /\ Drawn'[u] = Drawn[u]
  BY DEF Draw, IndInv, TypeOK, Run, Drawn
<1>3. /\ SumOver(Run', Threads) = SumOver(Run, Threads) + (Run'[t] - Run[t])
      /\ SumOver(Drawn', Threads) = SumOver(Drawn, Threads) + (Drawn'[t] - Drawn[t])
      /\ SumOver(Run, Threads) \in Int /\ SumOver(Drawn, Threads) \in Int
  BY <1>2, SumsChange, SumsType DEF IndInv
<1>4. Run[t] = total_num_ops[t] /\ Drawn[t] = total_num_ops[t]
  BY <1>1 DEF Run, Drawn
<1>5. executed' = SumOver(Run, Threads)'
  <2>1. Run'[t] = total_num_ops[t]
    BY <1>1 DEF Draw, IndInv, TypeOK, Run
  <2> QED  BY <1>1, <1>3, <1>4, <2>1 DEF Draw, IndInv
<1>6. DrawnInv'
  <2> DEFINE n == num_custom_chunks_remaining
  <2>1. CASE n > 0
    <3>1. Drawn'[t] = total_num_ops[t] + OpsPerChunk
      BY <1>1, <2>1 DEF Draw, IndInv, TypeOK, Drawn
    <3>2. SumOver(Drawn', Threads) = SumOver(Drawn, Threads) + OpsPerChunk
      BY <1>1, <1>3, <1>4, <3>1
    <3>3. NumChunks * OpsPerChunk = SumOver(Drawn, Threads) + n * OpsPerChunk
      BY <2>1 DEF IndInv, DrawnInv
    <3>4. n * OpsPerChunk = (n - 1) * OpsPerChunk + OpsPerChunk
      BY <1>1
    <3>5. (n - 1) * OpsPerChunk = IF n - 1 > 0 THEN (n - 1) * OpsPerChunk ELSE 0
      BY <1>1, <2>1
    <3>6. (n - 1) * OpsPerChunk \in Int
      BY <1>1
    <3> QED  BY <1>1, <1>3, <3>2, <3>3, <3>4, <3>5, <3>6, ChunksType DEF DrawnInv
  <2>2. CASE ~(n > 0)
    <3>1. Drawn'[t] = total_num_ops[t]
      BY <1>1, <2>2 DEF Draw, IndInv, TypeOK, Drawn
    <3>2. SumOver(Drawn', Threads) = SumOver(Drawn, Threads)
      BY <1>1, <1>3, <1>4, <3>1
    <3> QED  BY <1>1, <2>2, <3>2 DEF IndInv, DrawnInv
  <2> QED  BY <2>1, <2>2
<1>7. SamplesInv'
  <2> SUFFICES ASSUME SampleFrequency # 0, NEW u \in Threads
               PROVE  custom_op_latencies'[u] =
                        (total_num_ops'[u] \div OpsPerChunk) * (OpsPerChunk \div SampleFrequency)
                          + (IF pc'[u] = "chunk" THEN iteration'[u] \div SampleFrequency ELSE 0)
    BY DEF SamplesInv
  <2>1. custom_op_latencies[u] =
          (total_num_ops[u] \div OpsPerChunk) * (OpsPerChunk \div SampleFrequency)
            + (IF pc[u] = "chunk" THEN iteration[u] \div SampleFrequency ELSE 0)
    BY DEF IndInv, SamplesInv
  <2>2. total_num_ops' = total_num_ops /\ custom_op_latencies' = custom_op_latencies
    BY DEF Draw
  <2>3. CASE u = t
    <3>1. pc[u] # "chunk" /\ iteration'[u] = 0 /\ 0 \div SampleFrequency = 0
      BY <1>1, <2>3, CustomAssumption DEF Draw, IndInv, TypeOK
    <3> QED  BY <2>1, <2>2, <3>1
  <2>4. CASE u # t
    <3>1. pc'[u] = pc[u] /\ iteration'[u] = iteration[u]
      BY <2>4 DEF Draw, IndInv, TypeOK
    <3> QED  BY <2>1, <2>2, <3>1
  <2> QED  BY <2>3, <2>4
<1>8. \A u \in Threads :
        /\ pc'[u] \in {"finish", "done"} => num_custom_chunks_remaining' <= 0
        /\ pc'[u] = "done" => total_operation_size'[u] = total_num_ops'[u]
  BY <1>1 DEF Draw, IndInv, TypeOK
<1> QED  BY <1>5, <1>6, <1>7, <1>8 DEF IndInv

(* ... a run of the chain counts as one and is sampled when it is due, ... *)
LEMMA RunChainIndInv ==
  ASSUME IndInv, TypeOK', NEW t \in Threads, RunChain(t)
  PROVE  IndInv'
<1>1. /\ pc[t] = "chunk" /\ iteration[t] \in Nat /\ total_num_ops[t] \in Nat
      /\ OpsPerChunk \in Nat \ {0} /\ executed \in Nat
  BY CustomAssumption DEF RunChain, IndInv, TypeOK
<1>2. /\ \A u \in Threads \ {t} : Run'[u] = Run[u] /\ Drawn'[u] = Drawn[u]
      /\ Run'[t] = Run[t] + 1 /\ Drawn'[t] = Drawn[t]
  BY <1>1 DEF RunChain, IndInv, TypeOK, Run, Drawn
<1>3. \A u \in Threads : Run[u] \in Int /\ Drawn[u] \in Int
  BY SumsType DEF IndInv
<1>4. /\ SumOver(Run', Threads) = SumOver(Run, Threads) + (Run'[t] - Run[t])
      /\ SumOver(Drawn', Threads) = SumOver(Drawn, Threads) + (Drawn'[t] - Drawn[t])
      /\ SumOver(Run, Threads) \in Int /\ SumOver(Drawn, Threads) \in Int
  BY <1>2, SumsChange, SumsType DEF IndInv
<1>5. executed' = SumOver(Run, Threads)'
  BY <1>2, <1>3, <1>4 DEF RunChain, IndInv
<1>6. DrawnInv'
  <2>1. SumOver(Drawn', Threads) = SumOver(Drawn, Threads)
    BY <1>2, <1>3, <1>4
  <2> QED  BY <2>1 DEF RunChain, IndInv, DrawnInv
<1>7. SamplesInv'
  <2> SUFFICES ASSUME SampleFrequency # 0, NEW u \in Threads
               PROVE  custom_op_latencies'[u] =
                        (total_num_ops'[u] \div OpsPerChunk) * (OpsPerChunk \div SampleFrequency)
                          + (IF pc'[u] = "chunk" THEN iteration'[u] \div SampleFrequency ELSE 0)
    BY DEF SamplesInv
  <2>1. custom_op_latencies[u] =
          (total_num_ops[u] \div OpsPerChunk) * (OpsPerChunk \div SampleFrequency)
            + (IF pc[u] = "chunk" THEN iteration[u] \div SampleFrequency ELSE 0)
    BY DEF IndInv, SamplesInv
  <2>2. pc' = pc /\ total_num_ops' = total_num_ops
    BY DEF RunChain
  <2>3. CASE u = t
    <3> DEFINE whole == (total_num_ops[t] \div OpsPerChunk) * (OpsPerChunk \div SampleFrequency)
               i == iteration[t]
    <3>1. whole \in Nat /\ i \div SampleFrequency \in Nat
      <4>1. SampleFrequency \in Nat \ {0}
        BY CustomAssumption
      <4>2. /\ total_num_ops[t] \div OpsPerChunk \in Nat /\ OpsPerChunk \div SampleFrequency \in Nat
            /\ i \div SampleFrequency \in Nat
        BY <1>1, <4>1
      <4> QED  BY <4>2
    <3>2. iteration'[t] = i + 1
      BY DEF RunChain, IndInv, TypeOK
    <3>3. custom_op_latencies'[t] =
            custom_op_latencies[t] + (IF (i + 1) % SampleFrequency = 0 THEN 1 ELSE 0)
      BY DEF RunChain, IndInv, TypeOK, Sampled
    <3>4. (i + 1) \div SampleFrequency =
            (i \div SampleFrequency) + (IF (i + 1) % SampleFrequency = 0 THEN 1 ELSE 0)
      BY <1>1, NextSample, CustomAssumption
    <3>5. custom_op_latencies[t] = whole + (i \div SampleFrequency)
      BY <1>1, <2>1, <2>3
    <3> HIDE DEF whole
    <3>6. custom_op_latencies'[t] = whole + ((i + 1) \div SampleFrequency)
      BY <3>1, <3>3, <3>4, <3>5
    <3> QED  BY <1>1, <2>2, <2>3, <3>2, <3>6 DEF whole
  <2>4. CASE u # t
    <3>1. custom_op_latencies'[u] = custom_op_latencies[u] /\ iteration'[u] = iteration[u]
      BY <2>4 DEF RunChain, IndInv, TypeOK
    <3> QED  BY <2>1, <2>2, <3>1
  <2> QED  BY <2>3, <2>4
<1> QED  BY <1>5, <1>6, <1>7 DEF IndInv, RunChain

(* ... and the end of a chunk counts what was run of it, which is all.     *)
LEMMA EndChunkIndInv ==
  ASSUME IndInv, TypeOK', NEW t \in Threads, EndChunk(t)
  PROVE  IndInv'
<1>1. /\ pc[t] = "chunk" /\ iteration[t] = OpsPerChunk /\ total_num_ops[t] \in Nat
      /\ OpsPerChunk \in Nat \ {0} /\ executed \in Nat
  BY CustomAssumption DEF EndChunk, IndInv, TypeOK
<1>2. \A u \in Threads : Run'[u] = Run[u] /\ Drawn'[u] = Drawn[u]
  BY <1>1 DEF EndChunk, IndInv, TypeOK, Run, Drawn
<1>3. \A u \in Threads : Run[u] \in Int /\ Drawn[u] \in Int
  BY SumsType DEF IndInv
<1>4. SumOver(Run', Threads) = SumOver(Run, Threads) /\ SumOver(Drawn', Threads) = SumOver(Drawn, Threads)
  BY <1>2, <1>3, ThreadsFinite, SumAgree
<1>5. executed' = SumOver(Run, Threads)'
  BY <1>4 DEF EndChunk, IndInv
<1>6. DrawnInv'
  BY <1>4 DEF EndChunk, IndInv, DrawnInv
<1>7. SamplesInv'
  <2> SUFFICES ASSUME SampleFrequency # 0, NEW u \in Threads
               PROVE  custom_op_latencies'[u] =
                        (total_num_ops'[u] \div OpsPerChunk) * (OpsPerChunk \div SampleFrequency)
                          + (IF pc'[u] = "chunk" THEN iteration'[u] \div SampleFrequency ELSE 0)
    BY DEF SamplesInv
  <2>1. custom_op_latencies[u] =
          (total_num_ops[u] \div OpsPerChunk) * (OpsPerChunk \div SampleFrequency)
            + (IF pc[u] = "chunk" THEN iteration[u] \div SampleFrequency ELSE 0)
    BY DEF IndInv, SamplesInv
  <2>2. custom_op_latencies' = custom_op_latencies
    BY DEF EndChunk
  <2>3. CASE u = t
    <3> DEFINE q == total_num_ops[t] \div OpsPerChunk
               s == OpsPerChunk \div SampleFrequency
    <3>1. q \in Nat /\ s \in Nat
      BY <1>1, <2>1, CustomAssumption
    <3>2. total_num_ops'[t] \div OpsPerChunk = q + 1 /\ pc'[t] = "draw"
      BY <1>1, NextChunk DEF EndChunk, IndInv, TypeOK
    <3>3. custom_op_latencies[t] = q * s + s
      BY <1>1, <2>1, <2>3
    <3> HIDE DEF q, s
    <3>4. custom_op_latencies[t] = (q + 1) * s + 0
      BY <3>1, <3>3
    <3> QED  BY <2>2, <2>3, <3>2, <3>4 DEF s
  <2>4. CASE u # t
    <3>1. /\ total_num_ops'[u] = total_num_ops[u] /\ iteration'[u] = iteration[u]
          /\ pc'[u] = pc[u]
      BY <2>4 DEF EndChunk, IndInv, TypeOK
    <3> QED  BY <2>1, <2>2, <3>1
  <2> QED  BY <2>3, <2>4
<1>8. \A u \in Threads :
        /\ pc'[u] \in {"finish", "done"} => num_custom_chunks_remaining' <= 0
        /\ pc'[u] = "done" => total_operation_size'[u] = total_num_ops'[u]
  BY DEF EndChunk, IndInv, TypeOK
<1> QED  BY <1>5, <1>6, <1>7, <1>8 DEF IndInv

(* A thread that is done has reported what it has run.                     *)
LEMMA StoreResultIndInv ==
  ASSUME IndInv, TypeOK', NEW t \in Threads, StoreResult(t)
  PROVE  IndInv'
<1>1. /\ pc[t] = "finish" /\ num_custom_chunks_remaining <= 0
      /\ pc' = [pc EXCEPT ![t] = "done"]
      /\ total_operation_size' = [total_operation_size EXCEPT ![t] = total_num_ops[t]]
      /\ UNCHANGED <<num_custom_chunks_remaining, iteration, total_num_ops,
                     custom_op_latencies, executed>>
  BY DEF StoreResult, IndInv
<1>2. \A u \in Threads : pc'[u] = "chunk" <=> pc[u] = "chunk"
  BY <1>1 DEF IndInv, TypeOK
<1>3. Run' = Run /\ Drawn' = Drawn
  BY <1>1, <1>2 DEF Run, Drawn
<1>4. executed' = SumOver(Run, Threads)' /\ DrawnInv'
  BY <1>1, <1>3 DEF IndInv, DrawnInv
<1>5. SamplesInv'
  BY <1>1, <1>2 DEF IndInv, SamplesInv
<1>6. \A u \in Threads :
        /\ pc'[u] \in {"finish", "done"} => num_custom_chunks_remaining' <= 0
        /\ pc'[u] = "done" => total_operation_size'[u] = total_num_ops'[u]
  BY <1>1 DEF IndInv, TypeOK
<1> QED  BY <1>4, <1>5, <1>6 DEF IndInv

(* Every step preserves the invariant.                                     *)
LEMMA NextIndInv == IndInv /\ TypeOK' /\ [Next]_vars => IndInv'
<1> SUFFICES ASSUME IndInv, TypeOK', [Next]_vars PROVE IndInv'
  OBVIOUS
<1>1. ASSUME NEW t \in Threads, Step(t)
      PROVE  IndInv'
  BY <1>1, DrawIndInv, RunChainIndInv, EndChunkIndInv, StoreResultIndInv DEF Step
<1>2. CASE UNCHANGED vars
  BY <1>2 DEF IndInv, TypeOK, DrawnInv, SamplesInv, Run, Drawn, vars
<1> QED  BY <1>1, <1>2 DEF Next

(* The invariant of the chunks holds in every reachable state.             *)
LEMMA Invariance == Init /\ [][Next]_vars => []IndInv
<1>1. CounterInv => TypeOK
  BY DEF CounterInv
<1> QED  BY <1>1, InitIndInv, NextIndInv, CounterInvariance, PTL

(* However the chunks fall to the threads, they run no more chains than    *)
(* the chunks have, and in the end all of them: the operations requested   *)
(* and less than a chunk on top.                                           *)
THEOREM OperationsExecuted == Spec => []EnoughOperations
<1>1. IndInv => EnoughOperations
  <2> SUFFICES ASSUME IndInv PROVE EnoughOperations
    OBVIOUS
  <2> DEFINE left == IF num_custom_chunks_remaining > 0
                     THEN num_custom_chunks_remaining * OpsPerChunk ELSE 0
  <2>1. left \in Nat
    BY CustomAssumption DEF IndInv, TypeOK
  <2>2. executed = SumOver(Run, Threads) /\ NumChunks * OpsPerChunk = SumOver(Drawn, Threads) + left
    BY DEF IndInv, DrawnInv
  <2>3. /\ SumOver(Run, Threads) <= SumOver(Drawn, Threads)
        /\ SumOver(Run, Threads) \in Int /\ SumOver(Drawn, Threads) \in Int
    BY SumsType DEF IndInv
  <2>4. ASSUME AllDone PROVE executed = NumChunks * OpsPerChunk
    <3>1. \A t \in Threads : Run[t] \in Int /\ Run[t] = Drawn[t]
      BY <2>4, SumsType DEF AllDone, Run, Drawn, IndInv
    <3>2. SumOver(Run, Threads) = SumOver(Drawn, Threads)
      BY <3>1, ThreadsFinite, SumAgree
    <3>3. 0 \in Threads
      BY CustomAssumption DEF Threads
    <3>4. left = 0
      BY <2>4, <3>3 DEF AllDone, IndInv, TypeOK
    <3> HIDE DEF left
    <3> QED  BY <2>2, <2>3, <3>2, <3>4
  <2> HIDE DEF left
  <2>5. executed <= NumChunks * OpsPerChunk
    BY <2>1, <2>2, <2>3
  <2> QED  BY <2>4, <2>5, ChunksCover DEF EnoughOperations
<1> QED  BY <1>1, Invariance, PTL DEF Spec

(* What the threads store as their results is what they have executed.     *)
THEOREM SizesAddUp == Spec => []ReportedSizesAddUp
<1>1. IndInv => ReportedSizesAddUp
  <2> SUFFICES ASSUME IndInv, AllDone PROVE SumOver(total_operation_size, Threads) = executed
    BY DEF ReportedSizesAddUp
  <2>1. \A t \in Threads : Run[t] \in Int /\ Run[t] = total_operation_size[t]
    BY DEF AllDone, Run, IndInv, TypeOK
  <2> QED  BY <2>1, ThreadsFinite, SumAgree DEF IndInv
<1> QED  BY <1>1, Invariance, PTL DEF Spec

(* The samples of a thread are those of its whole chunks, whatever the     *)
(* sample frequency: iterations are counted anew in each chunk.            *)
THEOREM SamplesOfChunks == Spec => []SamplesPerChunk
<1>1. IndInv => SamplesPerChunk
  <2> SUFFICES ASSUME IndInv, NEW t \in Threads, SampleFrequency # 0, pc[t] = "done"
               PROVE  custom_op_latencies[t] =
                        (total_num_ops[t] \div OpsPerChunk) * (OpsPerChunk \div SampleFrequency)
    BY DEF SamplesPerChunk
  <2>1. (total_num_ops[t] \div OpsPerChunk) * (OpsPerChunk \div SampleFrequency) \in Int
    BY CustomAssumption DEF IndInv, TypeOK
  <2> QED  BY <2>1 DEF IndInv, SamplesInv
<1> QED  BY <1>1, Invariance, PTL DEF Spec

-----------------------------------------------------------------------------
(* Readings of the clock.                                                  *)

(* The fold over a sequence of samples is their sum.                       *)
LEMMA TotalIsSum ==
  ASSUME NEW s
  PROVE  Total(s) = SumOver(s, DOMAIN s)
BY DEF Total, FoldSeq, FoldFunction, FoldFunctionOnSet, SumOver, MapThenSumSet

(* A sample adds its latency to the total.                                 *)
LEMMA TotalAppended ==
  ASSUME NEW s \in Seq(Nat), NEW v \in Nat
  PROVE  Total(s) \in Int /\ Total(Append(s, v)) = Total(s) + v
<1> DEFINE n == Len(s)
           a == Append(s, v)
           S == 1 .. n + 1
<1>1. /\ n \in Nat /\ DOMAIN s = 1 .. n /\ DOMAIN a = S
      /\ a[n + 1] = v /\ \A i \in 1 .. n : a[i] = s[i] /\ s[i] \in Nat
  OBVIOUS
<1> HIDE DEF n, a
<1>2. IsFiniteSet(1 .. n) /\ IsFiniteSet(S)
  BY <1>1, FS_Interval
<1>3. S \ {n + 1} = 1 .. n /\ n + 1 \in S
  BY <1>1
<1>4. \A i \in S : a[i] \in Int
  BY <1>1
<1> HIDE DEF S
<1>5. SumOver(a, S) = a[n + 1] + SumOver(a, 1 .. n)
  <2>1. SumOver(a, S) = a[n + 1] + SumOver(a, S \ {n + 1})
    BY <1>2, <1>3, <1>4, SumRemove
  <2> QED  BY <1>3, <2>1
<1>6. SumOver(a, 1 .. n) = SumOver(s, 1 .. n) /\ SumOver(s, 1 .. n) \in Int
  <2>1. \A i \in 1 .. n : s[i] \in Int /\ a[i] \in Int /\ a[i] = s[i]
    BY <1>1
  <2> QED  BY <1>2, <2>1, SumAgree, SumType
<1>7. Total(a) = SumOver(a, S) /\ Total(s) = SumOver(s, 1 .. n)
  BY <1>1, TotalIsSum
<1>8. Total(a) = Total(s) + v /\ Total(s) \in Int
  BY <1>1, <1>5, <1>6, <1>7
<1> QED  BY <1>8 DEF a

(* Without samples the total is 0.                                         *)
LEMMA TotalEmpty == Total(<<>>) = 0
<1>1. DOMAIN <<>> = {}
  OBVIOUS
<1> QED  BY <1>1, TotalIsSum, SumEmpty

(* The clock only adds to the steps of CustomExecution: all that is proved *)
(* of these holds for the timed threads, too.                              *)
LEMMA TimedSteps ==
  TimedSpec => Init /\ [][Next]_vars
<1>1. TimedInit => Init
  BY DEF TimedInit
<1>2. [TimedNext]_timed_vars => [Next]_vars
  BY DEF TimedNext, TimedStep, Start, TimedDraw, RunUnsampled, StartSample, RunSampled,
         TimedEndChunk, TimedStoreResult, Tick, Report, Reported, timed_vars, Next, Step
<1> QED  BY <1>1, <1>2, PTL DEF TimedSpec

(* At first no clock was read.                                             *)
LEMMA InitTimedInv == TimedInit => TimedInv
<1> SUFFICES ASSUME TimedInit PROVE TimedInv
  OBVIOUS
<1>1. \A t \in Threads :
        /\ pc[t] = "draw" /\ start_ts[t] = Unread /\ op_start[t] = Unread
        /\ latencies[t] = <<>>
  BY DEF TimedInit, Init
<1>2. \A t \in Threads : Latency(t) = 0
  BY <1>1, TotalEmpty DEF Latency
<1>3. ClockInv
  BY <1>1, <1>2 DEF ClockInv, SamplesInOrder, TimedInit, Started, Unread
<1> QED  BY <1>3 DEF TimedInv, ResultsInv, TimedInit

(* A thread's step reads the clock for that thread only.                   *)
LEMMA StepReadsOwn ==
  ASSUME TypeOK, ClockInv, NEW t \in Threads, TimedStep(t)
  PROVE  /\ clock' = clock /\ results' = results
         /\ start_ts' \in [Threads -> {Unread} \cup Nat]
         /\ end_ts' \in [Threads -> {Unread} \cup Nat]
         /\ op_start' \in [Threads -> {Unread} \cup Nat]
         /\ latencies' \in [Threads -> Seq(Nat)]
         /\ \A u \in Threads \ {t} :
              /\ pc'[u] = pc[u] /\ iteration'[u] = iteration[u]
              /\ start_ts'[u] = start_ts[u] /\ end_ts'[u] = end_ts[u]
              /\ op_start'[u] = op_start[u] /\ latencies'[u] = latencies[u]
<1> USE DEF ClockInv, TypeOK
<1>1. CASE Start(t)
  BY <1>1 DEF Start, vars
<1>2. CASE TimedDraw(t)
  BY <1>2 DEF TimedDraw, Draw, clock_vars
<1>3. CASE RunUnsampled(t)
  BY <1>3 DEF RunUnsampled, RunChain, clock_vars
<1>4. CASE StartSample(t)
  BY <1>4 DEF StartSample, vars
<1>5. CASE RunSampled(t)
  <2>1. op_start[t] \in Nat /\ op_start[t] <= clock
    BY <1>5 DEF RunSampled, SamplesInOrder
  <2>2. clock - op_start[t] \in Nat
    BY <2>1
  <2> QED  BY <1>5, <2>2 DEF RunSampled, RunChain
<1>6. CASE TimedEndChunk(t)
  BY <1>6 DEF TimedEndChunk, EndChunk, clock_vars
<1>7. CASE TimedStoreResult(t)
  BY <1>7 DEF TimedStoreResult, StoreResult
<1> QED  BY <1>1, <1>2, <1>3, <1>4, <1>5, <1>6, <1>7 DEF TimedStep

(* Its samples stay in order.                                              *)
LEMMA StepInOrder ==
  ASSUME TypeOK, ClockInv, NEW t \in Threads, TimedStep(t)
  PROVE  SamplesInOrder(t)'
<1>1. /\ pc \in [Threads -> {"draw", "chunk", "finish", "done"}]
      /\ iteration \in [Threads -> 0 .. OpsPerChunk]
      /\ clock \in Nat
      /\ start_ts \in [Threads -> {Unread} \cup Nat]
      /\ end_ts \in [Threads -> {Unread} \cup Nat]
      /\ op_start \in [Threads -> {Unread} \cup Nat]
      /\ latencies \in [Threads -> Seq(Nat)]
  BY DEF TypeOK, ClockInv
<1>2. SamplesInOrder(t)
  BY DEF ClockInv
<1>3. Latency(t) \in Int /\ latencies[t] \in Seq(Nat)
  BY <1>1, TotalAppended DEF Latency
<1>4. CASE Start(t)
  <2>1. /\ pc[t] = "draw" /\ op_start[t] = Unread /\ latencies[t] = <<>>
        /\ start_ts'[t] = clock /\ clock' = clock
        /\ UNCHANGED <<pc, op_start, latencies>>
    BY <1>1, <1>2, <1>4 DEF Start, SamplesInOrder, Started, vars
  <2>2. Latency(t)' = 0
    BY <2>1, TotalEmpty DEF Latency
  <2> QED  BY <1>1, <2>1, <2>2 DEF SamplesInOrder, Started, Unread
<1>5. ASSUME Started(t), UNCHANGED clock_vars, pc'[t] # "done", pc[t] # "done",
             op_start[t] = Unread
      PROVE  SamplesInOrder(t)'
  BY <1>2, <1>5 DEF SamplesInOrder, Started, clock_vars, Latency
<1>6. CASE TimedDraw(t)
  <2>1. pc[t] = "draw" /\ pc'[t] # "done" /\ op_start[t] = Unread
    BY <1>1, <1>2, <1>6 DEF TimedDraw, Draw, SamplesInOrder
  <2> QED  BY <1>5, <1>6, <2>1 DEF TimedDraw
<1>7. CASE RunUnsampled(t)
  <2>1. pc[t] = "chunk" /\ pc'[t] # "done" /\ op_start[t] = Unread /\ Started(t)
    BY <1>1, <1>2, <1>7 DEF RunUnsampled, RunChain, SamplesInOrder
  <2> QED  BY <1>5, <1>7, <2>1 DEF RunUnsampled
<1>8. CASE StartSample(t)
  <2>1. /\ pc[t] = "chunk" /\ Started(t) /\ clock' = clock
        /\ op_start'[t] = clock /\ UNCHANGED <<pc, iteration, start_ts, latencies>>
        /\ iteration[t] < OpsPerChunk /\ NextSampled(t)
    BY <1>1, <1>2, <1>8 DEF StartSample, SamplesInOrder, vars
  <2> QED  BY <1>1, <1>2, <2>1 DEF SamplesInOrder, Started, Latency, NextSampled
<1>9. CASE RunSampled(t)
  <2> DEFINE sample == clock - op_start[t]
  <2>1. /\ pc[t] = "chunk" /\ pc'[t] = "chunk" /\ Started(t) /\ clock' = clock
        /\ op_start'[t] = Unread /\ start_ts' = start_ts
        /\ latencies'[t] = Append(latencies[t], sample)
    BY <1>1, <1>2, <1>9 DEF RunSampled, RunChain, SamplesInOrder
  <2>2. /\ op_start[t] \in Nat /\ op_start[t] <= clock
        /\ start_ts[t] + Latency(t) <= op_start[t]
    BY <1>1, <1>2, <1>9 DEF RunSampled, SamplesInOrder
  <2>3. sample \in Nat
    BY <1>1, <2>2
  <2>4. Latency(t)' = Latency(t) + sample
    BY <1>3, <2>1, <2>3, TotalAppended DEF Latency
  <2>5. start_ts[t] \in Int
    BY <1>1 DEF Unread
  <2>6. start_ts[t] + Latency(t)' <= clock
    BY <1>1, <1>3, <2>2, <2>4, <2>5
  <2> HIDE DEF sample
  <2> QED  BY <2>1, <2>6 DEF SamplesInOrder, Started
<1>10. CASE TimedEndChunk(t)
  <2>1. /\ pc[t] = "chunk" /\ pc'[t] = "draw" /\ op_start[t] = Unread /\ Started(t)
    BY <1>1, <1>2, <1>10 DEF TimedEndChunk, EndChunk, SamplesInOrder
  <2> QED  BY <1>5, <1>10, <2>1 DEF TimedEndChunk
<1>11. CASE TimedStoreResult(t)
  <2>1. /\ pc[t] = "finish" /\ pc'[t] = "done" /\ Started(t) /\ op_start[t] = Unread
        /\ end_ts'[t] = clock /\ UNCHANGED <<clock, start_ts, op_start, latencies>>
    BY <1>1, <1>2, <1>11 DEF TimedStoreResult, StoreResult, SamplesInOrder
  <2> QED  BY <1>1, <1>2, <2>1 DEF SamplesInOrder, Started, Unread, Latency
<1> QED  BY <1>4, <1>6, <1>7, <1>8, <1>9, <1>10, <1>11 DEF TimedStep

(* After the last thread has stored its result nothing that is reported    *)
(* changes.                                                                *)
LEMMA DoneStays ==
  ASSUME TypeOK, ClockInv, AllDone, NEW t \in Threads
  PROVE  ~TimedStep(t)
<1>1. pc[t] = "done" /\ Started(t) /\ op_start[t] = Unread
  BY DEF AllDone, ClockInv, SamplesInOrder
<1> QED  BY <1>1 DEF TimedStep, Start, Started, TimedDraw, Draw, RunUnsampled, RunChain,
              StartSample, RunSampled, TimedEndChunk, EndChunk, TimedStoreResult, StoreResult

(* Every step preserves the order of the readings.                         *)
LEMMA NextTimedInv ==
  ASSUME TypeOK, TimedInv, [TimedNext]_timed_vars
  PROVE  TimedInv'
<1>1. ASSUME NEW t \in Threads, TimedStep(t)
      PROVE  TimedInv'
  <2>1. ClockInv
    BY DEF TimedInv
  <2>2. \A u \in Threads \ {t} : SamplesInOrder(u)'
    BY <1>1, <2>1, StepReadsOwn
       DEF ClockInv, SamplesInOrder, Started, Latency, NextSampled
  <2>3. ClockInv'
    BY <1>1, <2>1, <2>2, StepReadsOwn, StepInOrder DEF ClockInv
  <2>4. results = <<>> /\ results' = results
    BY <1>1, <2>1, StepReadsOwn, DoneStays DEF TimedInv, ResultsInv
  <2> QED  BY <2>3, <2>4 DEF TimedInv, ResultsInv
<1>2. CASE Tick
  <2>1. ClockInv'
    <3>1. clock \in Nat /\ clock' = clock + 1
      BY <1>2 DEF Tick, TimedInv, ClockInv
    <3>2. ASSUME NEW t \in Threads
          PROVE  SamplesInOrder(t)'
      <4>1. /\ SamplesInOrder(t) /\ latencies[t] \in Seq(Nat)
            /\ start_ts[t] \in {Unread} \cup Nat /\ op_start[t] \in {Unread} \cup Nat
        BY DEF TimedInv, ClockInv
      <4>2. Latency(t) \in Int
        BY <4>1, TotalAppended DEF Latency
      <4>3. UNCHANGED <<pc, iteration, start_ts, end_ts, op_start, latencies>>
        BY <1>2 DEF Tick, vars
      <4> QED  BY <3>1, <4>1, <4>2, <4>3
               DEF SamplesInOrder, Started, Latency, NextSampled, Unread
    <3> QED  BY <1>2, <3>1, <3>2 DEF Tick, TimedInv, ClockInv
  <2> QED  BY <1>2, <2>1 DEF Tick, TimedInv, ResultsInv
<1>3. CASE Report
  <2>1. /\ AllDone /\ results' = <<get_custom_results>>
        /\ UNCHANGED <<vars, clock, start_ts, end_ts, op_start, latencies>>
    BY <1>3 DEF Report
  <2>2. ClockInv'
    BY <2>1 DEF TimedInv, ClockInv, SamplesInOrder, Started, Latency, NextSampled, vars
  <2>3. AllDone' /\ get_custom_results' = get_custom_results
    BY <2>1 DEF AllDone, vars, get_custom_results, execution_time, thread_ops_per_s
  <2> QED  BY <2>1, <2>2, <2>3 DEF TimedInv, ResultsInv
<1>4. CASE UNCHANGED timed_vars
  <2>1. UNCHANGED <<vars, clock, start_ts, end_ts, op_start, latencies, results>>
    BY <1>4 DEF timed_vars, clock_vars
  <2>2. ClockInv'
    BY <2>1 DEF TimedInv, ClockInv, SamplesInOrder, Started, Latency, NextSampled, vars
  <2>3. AllDone' = AllDone /\ get_custom_results' = get_custom_results
    BY <2>1 DEF AllDone, vars, get_custom_results, execution_time, thread_ops_per_s
  <2> QED  BY <2>1, <2>2, <2>3 DEF TimedInv, ResultsInv
<1> QED  BY <1>1, <1>2, <1>3, <1>4 DEF TimedNext, Reported

(* Every state of a benchmark in Mode::Custom, with its clock.             *)
THEOREM ClockReadInOrder == TimedSpec => []TimedInv
<1>1. TimedSpec => []TypeOK
  <2>1. IndInv => TypeOK
    BY DEF IndInv
  <2> QED  BY <2>1, TimedSteps, Invariance, PTL
<1> QED  BY <1>1, InitTimedInv, NextTimedInv, PTL DEF TimedSpec

(* A rate over at least as long a time as those of its parts is at most    *)
(* their sum.                                                              *)
LEMMA RatesAddUp ==
  ASSUME NEW S, IsFiniteSet(S), NEW n, NEW d, NEW whole \in Nat,
         \A t \in S : n[t] \in Nat /\ d[t] \in Nat \ {0} /\ d[t] <= whole
  PROVE  SumOver(n, S) * Product(d, S) <=
           whole * SumOver([t \in S |-> n[t] * Product(d, S \ {t})], S)
<1> DEFINE P == Product(d, S)
           parts == [t \in S |-> n[t] * Product(d, S \ {t})]
           f == [t \in S |-> P * n[t]]
           g == [t \in S |-> whole * parts[t]]
<1>1. P \in Nat \ {0}
  BY ProductType
<1>2. \A t \in S : Product(d, S \ {t}) \in Nat \ {0} /\ P = d[t] * Product(d, S \ {t})
  <2> TAKE t \in S
  <2>1. IsFiniteSet(S \ {t}) /\ \A x \in S \ {t} : d[x] \in Nat \ {0}
    BY FS_RemoveElement
  <2> QED  BY <2>1, ProductType, ProductRemove
<1>3. ASSUME NEW t \in S
      PROVE  parts[t] \in Nat /\ f[t] \in Nat /\ g[t] \in Nat /\ f[t] <= g[t]
  <2> DEFINE Q == Product(d, S \ {t})
             k == n[t] * Q
  <2>1. Q \in Nat \ {0} /\ P = d[t] * Q /\ n[t] \in Nat /\ d[t] \in Nat /\ d[t] <= whole
    BY <1>2
  <2>2. parts[t] = k /\ g[t] = whole * k /\ f[t] = P * n[t]
    OBVIOUS
  <2> HIDE DEF Q, P, parts, f, g
  <2>3. k \in Nat
    BY <2>1
  <2>4. P * n[t] = d[t] * k
    BY <2>1
  <2> HIDE DEF k
  <2>5. d[t] * k <= whole * k /\ d[t] * k \in Nat /\ whole * k \in Nat
    BY <2>1, <2>3
  <2> QED  BY <2>2, <2>3, <2>4, <2>5
<1>4. SumOver(f, S) <= SumOver(g, S)
  <2>1. \A t \in S : f[t] \in Int /\ g[t] \in Int /\ f[t] <= g[t]
    BY <1>3
  <2> HIDE DEF f, g
  <2> QED  BY <2>1, SumMonotonic
<1>5. SumOver(f, S) = P * SumOver(n, S)
  <2>1. \A t \in S : n[t] \in Int /\ f[t] = P * n[t]
    OBVIOUS
  <2> HIDE DEF P, f
  <2> QED  BY <1>1, <2>1, SumScale
<1>6. SumOver(g, S) = whole * SumOver(parts, S)
  <2>1. \A t \in S : parts[t] \in Int /\ g[t] = whole * parts[t]
    BY <1>3
  <2> HIDE DEF parts, g
  <2> QED  BY <2>1, SumScale
<1>7. SumOver(n, S) \in Int
  BY SumType
<1> HIDE DEF P, parts, f, g
<1>8. SumOver(n, S) * P = P * SumOver(n, S)
  BY <1>1, <1>7
<1> QED  BY <1>4, <1>5, <1>6, <1>8 DEF P, parts

(* The results of the benchmark relate to those of its threads:            *)
(* get_custom_results_as_json measures from the first start to the last    *)
(* end, which is no less than any thread's own time, and a thread's time   *)
(* holds all of its samples.                                               *)
THEOREM ThroughputRelates == TimedSpec => []ThroughputAddsUp
<1>1. TypeOK /\ TimedInv => ThroughputAddsUp
  <2> SUFFICES ASSUME TypeOK, TimedInv PROVE ThroughputAddsUp
    OBVIOUS
  <2> SUFFICES ASSUME results # <<>>
               PROVE  /\ (\A t \in Threads : thread_ops_per_s(t).d > 0) =>
                           AtMostSum(get_custom_results.total, get_custom_results.threads)
                      /\ \A t \in Threads :
                           /\ Total(latencies[t]) <= end_ts[t] - start_ts[t]
                           /\ end_ts[t] - start_ts[t] <= execution_time
    <3>1. CASE results = <<>>
      BY <3>1 DEF ThroughputAddsUp
    <3>2. CASE results # <<>>
      <4>1. results = <<get_custom_results>>
        BY <3>2 DEF TimedInv, ResultsInv
      <4>2. \A i \in DOMAIN results : results[i] = get_custom_results
        BY <4>1
      <4>3. /\ get_custom_results.total.d = execution_time
            /\ \A t \in Threads :
                 /\ get_custom_results.threads[t] = thread_ops_per_s(t)
                 /\ get_custom_results.threads[t].d = end_ts[t] - start_ts[t]
        BY DEF get_custom_results, thread_ops_per_s, Rate
      <4> QED  BY <3>2, <4>2, <4>3 DEF ThroughputAddsUp
    <3> QED  BY <3>1, <3>2
  <2>1. AllDone
    BY DEF TimedInv, ResultsInv
  <2>2. ASSUME NEW t \in Threads
        PROVE  /\ start_ts[t] \in Int /\ end_ts[t] \in Int
               /\ Total(latencies[t]) <= end_ts[t] - start_ts[t]
    <3>1. /\ SamplesInOrder(t) /\ latencies[t] \in Seq(Nat) /\ pc[t] = "done"
          /\ start_ts[t] \in {Unread} \cup Nat /\ end_ts[t] \in {Unread} \cup Nat
      BY <2>1 DEF TimedInv, ClockInv, AllDone
    <3>2. Latency(t) \in Int
      BY <3>1, TotalAppended DEF Latency
    <3>3. start_ts[t] + Latency(t) <= end_ts[t]
      BY <3>1 DEF SamplesInOrder
    <3>4. start_ts[t] \in Int /\ end_ts[t] \in Int
      BY <3>1 DEF Unread
    <3>5. Latency(t) <= end_ts[t] - start_ts[t]
      BY <3>2, <3>3, <3>4
    <3> QED  BY <3>4, <3>5 DEF Latency
  <2>3. Threads # {}
    BY CustomAssumption DEF Threads
  <2>4. /\ execution_time \in Int
        /\ \A t \in Threads : end_ts[t] - start_ts[t] <= execution_time
    <3> DEFINE first == Min({start_ts[t] : t \in Threads})
               last == Max({end_ts[t] : t \in Threads})
    <3>1. first \in Int /\ \A t \in Threads : first <= start_ts[t]
      BY <2>2, <2>3, ThreadsFinite, Extremes
    <3>2. last \in Int /\ \A t \in Threads : end_ts[t] <= last
      BY <2>2, <2>3, ThreadsFinite, Extremes
    <3>3. execution_time = last - first
      BY DEF execution_time
    <3> HIDE DEF first, last
    <3> QED  BY <2>2, <3>1, <3>2, <3>3
  <2>5. ASSUME \A t \in Threads : thread_ops_per_s(t).d > 0
        PROVE  AtMostSum(get_custom_results.total, get_custom_results.threads)
    <3> DEFINE n == total_operation_size
               d == [t \in Threads |-> end_ts[t] - start_ts[t]]
    <3>1. \A t \in Threads : n[t] \in Nat /\ d[t] \in Nat \ {0} /\ d[t] <= execution_time
      BY <2>2, <2>4, <2>5 DEF TypeOK, thread_ops_per_s, Rate
    <3>2. execution_time \in Nat
      BY <2>3, <2>4, <3>1
    <3> HIDE DEF d
    <3>3. SumOver(n, Threads) * Product(d, Threads) <=
            execution_time * SumOver([t \in Threads |-> n[t] * Product(d, Threads \ {t})], Threads)
      BY <3>1, <3>2, ThreadsFinite, RatesAddUp
    <3>4. /\ get_custom_results.total.n = SumOver(n, Threads)
          /\ get_custom_results.total.d = execution_time
          /\ \A t \in Threads : /\ get_custom_results.threads[t].n = n[t]
                                /\ get_custom_results.threads[t].d = end_ts[t] - start_ts[t]
      BY DEF get_custom_results, thread_ops_per_s, Rate
    <3>5. [t \in Threads |-> get_custom_results.threads[t].d] = d
      BY <3>4 DEF d
    <3>6. [t \in Threads |-> get_custom_results.threads[t].n * Product(d, Threads \ {t})]
            = [t \in Threads |-> n[t] * Product(d, Threads \ {t})]
      BY <3>4
    <3> QED  BY <3>3, <3>4, <3>5, <3>6 DEF AtMostSum
  <2> QED  BY <2>2, <2>4, <2>5
<1>2. TimedSpec => []TypeOK
  <2>1. IndInv => TypeOK
    BY DEF IndInv
  <2> QED  BY <2>1, TimedSteps, Invariance, PTL
<1> QED  BY <1>1, <1>2, ClockReadInOrder, PTL
=============================================================================

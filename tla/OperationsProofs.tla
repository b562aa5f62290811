---------------------------- MODULE OperationsProofs ----------------------------
(***************************************************************************)
(* Proofs about Operations, for every chain, IoOperation and partition.    *)
(***************************************************************************)
EXTENDS Operations, OperatorProofs

-----------------------------------------------------------------------------
(* Cache lines.                                                            *)

(* The sizes of whole lines are unrolled, or multiples of 512.             *)
LEMMA WholeLineSizes ==
  ASSUME NEW s \in PowersOfTwo, s >= 64
  PROVE  /\ s \in Nat /\ s % 64 = 0
         /\ s \notin Unrolled => s >= 512 /\ s % 512 = 0
<1>1. 64 \in PowersOfTwo /\ 512 \in PowersOfTwo
  <2>1. PowerOfTwo[0] = 1 /\ PowerOfTwo[1] = 2 * PowerOfTwo[0] /\ PowerOfTwo[2] = 2 * PowerOfTwo[1]
    BY PowerDoubles
  <2>2. PowerOfTwo[3] = 2 * PowerOfTwo[2] /\ PowerOfTwo[4] = 2 * PowerOfTwo[3]
    BY PowerDoubles
  <2>3. PowerOfTwo[5] = 2 * PowerOfTwo[4] /\ PowerOfTwo[6] = 2 * PowerOfTwo[5]
    BY PowerDoubles
  <2>4. /\ PowerOfTwo[7] = 2 * PowerOfTwo[6] /\ PowerOfTwo[8] = 2 * PowerOfTwo[7]
        /\ PowerOfTwo[9] = 2 * PowerOfTwo[8]
    BY PowerDoubles
  <2>5. PowerOfTwo[6] = 64 /\ PowerOfTwo[9] = 512 /\ 6 \in 0 .. 30 /\ 9 \in 0 .. 30
    BY <2>1, <2>2, <2>3, <2>4
  <2> QED  BY <2>5 DEF PowersOfTwo
<1>2. PICK f \in Nat \ {0} : s = f * 64
  BY <1>1, PowersDivide
<1>3. CASE s >= 512
  <2>1. PICK g \in Nat \ {0} : s = g * 512
    BY <1>1, <1>2, <1>3, PowersDivide
  <2> QED  BY <1>2, <1>3, <2>1
<1>4. CASE ~(s >= 512)
  <2>1. s \in Nat /\ s <= 512
    BY <1>2, <1>4
  <2>2. PICK g \in Nat \ {0} : 512 = g * s
    BY <1>1, <2>1, PowersDivide
  <2>3. f \in 1 .. 7 /\ g \in Nat /\ 512 = g * (f * 64)
    BY <1>2, <1>4, <2>2
  <2>4. f \in {1, 2, 4}
    BY <2>3
  <2> QED  BY <1>2, <2>4 DEF Unrolled
<1> QED  BY <1>3, <1>4

(* Multiples of a line add up to a multiple.                               *)
LEMMA LinesAdd ==
  ASSUME NEW a \in Int, NEW b \in Int, a % 64 = 0, b % 64 = 0
  PROVE  a + b \in Int /\ (a + b) % 64 = 0
<1>1. a = 64 * (a \div 64) /\ b = 64 * (b \div 64) /\ a \div 64 \in Int /\ b \div 64 \in Int
  OBVIOUS
<1>2. a + b = 64 * ((a \div 64) + (b \div 64))
  BY <1>1
<1> QED  BY <1>1, <1>2

(* An access of such a size to a line's address touches its bytes only ... *)
LEMMA LinesInside ==
  ASSUME NEW addr \in Int, addr % 64 = 0, NEW size \in Nat, size % 64 = 0,
         NEW n \in Lines(addr, size)
  PROVE  n \in Int /\ addr <= 64 * n /\ 64 * n + 64 <= addr + size
<1>1. PICK a \in Int : addr = 64 * a
  <2>1. addr \div 64 \in Int /\ addr = 64 * (addr \div 64) + (addr % 64)
    OBVIOUS
  <2> QED  BY <2>1
<1>2. PICK b \in Int : size = 64 * b
  <2>1. size \div 64 \in Int /\ size = 64 * (size \div 64) + (size % 64)
    OBVIOUS
  <2> QED  BY <2>1
<1>3. n \in Int /\ addr < 64 * n + 64 /\ 64 * n < addr + size
  BY <1>1, <1>2 DEF Lines
<1> QED  BY <1>1, <1>2, <1>3

(* ... and all of them are flushed.                                        *)
LEMMA LinesFlushed ==
  ASSUME NEW addr \in Int, addr % 64 = 0, NEW size \in Nat, size % 64 = 0
  PROVE  Lines(addr, size) \subseteq FlushedLines(addr, size)
<1> SUFFICES ASSUME NEW n \in Lines(addr, size) PROVE n \in FlushedLines(addr, size)
  OBVIOUS
<1>1. n \in Int /\ addr <= 64 * n /\ 64 * n + 64 <= addr + size
  BY LinesInside
<1>2. PICK a \in Int : addr = 64 * a
  <2>1. addr \div 64 \in Int /\ addr = 64 * (addr \div 64) + (addr % 64)
    OBVIOUS
  <2> QED  BY <2>1
<1>3. PICK b \in Int : size = 64 * b /\ b = size \div 64
  <2>1. size \div 64 \in Int /\ size = 64 * (size \div 64) + (size % 64)
    OBVIOUS
  <2> QED  BY <2>1
<1> DEFINE k == n - a
<1>4. k \in 0 .. size \div 64 /\ 64 * k < size
  BY <1>1, <1>2, <1>3
<1>5. (addr + 64 * k) \div 64 = n
  BY <1>1, <1>2
<1> HIDE DEF k
<1> QED  BY <1>4, <1>5 DEF FlushedLines

(* An access touches the lines of its range only, unrolled or not.         *)
LEMMA AccessedLines ==
  ASSUME NEW addr \in Int, NEW s \in PowersOfTwo, s >= 64
  PROVE  /\ StoredLines(addr, s) = Lines(addr, s)
         /\ addr % 64 = 0 => ReadLines(addr, s) \subseteq Lines(addr, s)
<1>1. CASE s \in Unrolled
  BY <1>1 DEF StoredLines, ReadLines
<1>2. CASE s \notin Unrolled
  <2>1. s \in Nat /\ s >= 512 /\ s % 512 = 0
    BY <1>2, WholeLineSizes
  <2>2. 512 * ((s + 511) \div 512) = s
    BY <2>1
  <2>3. ASSUME addr % 64 = 0, NEW n \in Lines(addr, 512)
        PROVE  n \in Lines(addr, s)
    <3>1. n \in Int /\ addr <= 64 * n /\ 64 * n + 64 <= addr + 512
      BY <2>3, LinesInside
    <3>2. n \in (addr \div 64) .. ((addr + s) \div 64)
      BY <2>1, <3>1
    <3> QED  BY <2>1, <3>1, <3>2 DEF Lines
  <2> QED  BY <1>2, <2>1, <2>2, <2>3 DEF StoredLines, ReadLines
<1> QED  BY <1>1, <1>2

-----------------------------------------------------------------------------
(* What is executed.                                                       *)

OpType ==
  [type : {"Read", "Write"}, is_pmem : BOOLEAN, offset : Int,
   size : PowersOfTwo \cup {0}, persist : PersistInstructions]

(* What from_string returns: reads have no offset, and offsets are whole   *)
(* lines.                                                                  *)
LEMMA ParsedOps ==
  ASSUME NEW s \in [location : STRING, size : Nat, persist : STRING, offset : Int, parts : Nat],
         Parses(s)
  PROVE  /\ from_string(s) \in OpType
         /\ from_string(s).type = "Read" => from_string(s).offset = 0
         /\ from_string(s).offset % 64 = 0
<1>1. /\ s.location \in {"r", "w", "rp", "wp", "rd", "wd"}
      /\ s.size \in PowersOfTwo \cup {0} /\ s.offset \in Int
      /\ IsWrite(s) => s.persist \in PersistInstructions /\ (s.parts = 4 => s.offset % 64 = 0)
  BY DEF Parses, str_to_op_location
<1>2. /\ str_to_op_location[s.location][1] \in {"Read", "Write"}
      /\ str_to_op_location[s.location][2] \in BOOLEAN
  <2>1. /\ str_to_op_location["r"] = <<"Read", TRUE>>
        /\ str_to_op_location["rp"] = <<"Read", TRUE>>
        /\ str_to_op_location["rd"] = <<"Read", FALSE>>
        /\ str_to_op_location["w"] = <<"Write", TRUE>>
        /\ str_to_op_location["wp"] = <<"Write", TRUE>>
        /\ str_to_op_location["wd"] = <<"Write", FALSE>>
    BY DEF str_to_op_location
  <2>2. \A b \in BOOLEAN :
          /\ <<"Read", b>>[1] = "Read" /\ <<"Read", b>>[2] = b
          /\ <<"Write", b>>[1] = "Write" /\ <<"Write", b>>[2] = b
    OBVIOUS
  <2> QED  BY <1>1, <2>1, <2>2
<1>3. "none" \in PersistInstructions
  BY DEF PersistInstructions
<1>4. from_string(s).offset % 64 = 0 /\ from_string(s).offset \in Int
  BY <1>1 DEF from_string
<1>5. from_string(s).persist \in PersistInstructions
  BY <1>1, <1>3 DEF from_string
<1>6. from_string(s) \in OpType
  BY <1>1, <1>2, <1>4, <1>5 DEF from_string, OpType
<1> QED  BY <1>1, <1>4, <1>6 DEF from_string, IsWrite

(* The operations of a chain that was accepted, ...                        *)
LEMMA OpsOfChain ==
  ASSUME job \in Jobs, job.kind = "chain", Accepted(job.text)
  PROVE  /\ Len(Ops) \in Nat \ {0} /\ DOMAIN Ops = 1 .. Len(Ops)
         /\ \A i \in 1 .. Len(Ops) :
              /\ Ops[i] \in OpType
              /\ Ops[i].type = "Read" => Ops[i].offset = 0
              /\ Ops[i].offset % 64 = 0
         /\ validate(Ops)
<1> DEFINE Part == [location : STRING, size : Nat, persist : STRING,
                    offset : Int, parts : Nat]
           text == job.text
           n == Len(text)
<1>1. /\ text \in Seq(Part)
      /\ text # << >> /\ \A i \in 1 .. n : Parses(text[i])
      /\ validate(all_from_string(text))
  BY JobsAssumption DEF Accepted
<1>2. n \in Nat \ {0} /\ Ops = [i \in 1 .. n |-> from_string(text[i])] /\ validate(Ops)
  BY <1>1 DEF Ops, all_from_string
<1>3. Len(Ops) = n /\ DOMAIN Ops = 1 .. n /\ \A i \in 1 .. n : Ops[i] = from_string(text[i])
  BY <1>2
<1>4. ASSUME NEW i \in 1 .. n
      PROVE  /\ Ops[i] \in OpType /\ (Ops[i].type = "Read" => Ops[i].offset = 0)
             /\ Ops[i].offset % 64 = 0
  <2>1. text[i] \in Part
    <3> HIDE DEF Part
    <3> QED  BY <1>1
  <2>2. Parses(text[i]) /\ Ops[i] = from_string(text[i])
    BY <1>1, <1>3
  <2> QED  BY <2>1, <2>2, ParsedOps
<1> HIDE DEF text, n
<1> QED  BY <1>2, <1>3, <1>4

(* ... and those of an IoOperation.                                        *)
LEMMA OpsOfIoOperation ==
  ASSUME job \in Jobs, job.kind # "chain"
  PROVE  /\ Len(Ops) \in Nat \ {0} /\ DOMAIN Ops = 1 .. Len(Ops)
         /\ \A i \in 1 .. Len(Ops) : Ops[i] = job.op /\ Ops[i] \in OpType
         /\ job.op.size \in PowersOfTwo /\ job.op.size >= 64
         /\ \A i \in 1 .. Len(Ops) : job.addresses[i] \in Int /\ job.addresses[i] % 64 = 0
<1>1. /\ job.op \in [type : {"Read", "Write"}, is_pmem : BOOLEAN, offset : {0},
                     size : PowersOfTwo, persist : PersistInstructions]
      /\ job.op.size >= 64
      /\ job.addresses \in Seq(Nat) \ {<< >>}
      /\ \A i \in 1 .. Len(job.addresses) : job.addresses[i] % 64 = 0
  BY JobsAssumption
<1>2. Ops = [i \in 1 .. Len(job.addresses) |-> job.op] /\ Len(job.addresses) \in Nat \ {0}
  BY <1>1 DEF Ops
<1>3. /\ Len(Ops) = Len(job.addresses) /\ DOMAIN Ops = 1 .. Len(Ops)
      /\ \A i \in 1 .. Len(Ops) : Ops[i] = job.op
  BY <1>2
<1>4. job.op \in OpType
  BY <1>1 DEF OpType
<1>5. \A i \in 1 .. Len(job.addresses) : job.addresses[i] \in Int
  BY <1>1
<1> QED  BY <1>1, <1>2, <1>3, <1>4, <1>5

(* Both are operations with the fields of their type.                      *)
LEMMA OpsTyped ==
  ASSUME ProgressInv, Executes
  PROVE  /\ Len(Ops) \in Nat \ {0} /\ DOMAIN Ops = 1 .. Len(Ops)
         /\ next \in 1 .. Len(Ops) + 1
         /\ \A i \in 1 .. Len(Ops) : Ops[i] \in OpType
BY OpsOfChain, OpsOfIoOperation DEF ProgressInv

(* The size of an access that touches whole lines                          *)
LEMMA WholeLinesSize ==
  ASSUME ProgressInv, Executes, WholeLines, NEW i \in 1 .. Len(Ops)
  PROVE  Ops[i].size \in PowersOfTwo /\ Ops[i].size >= 64
<1>1. Ops[i] \in Range(Ops) /\ Ops[i] \in OpType
  BY OpsTyped DEF Range
<1>2. Ops[i].size >= 64 /\ Ops[i].size \in PowersOfTwo \cup {0}
  BY <1>1 DEF WholeLines, OpType
<1> QED  BY <1>2

(* No access is larger than the largest.                                   *)
LEMMA LargestAccess ==
  ASSUME ProgressInv, Executes
  PROVE  /\ max_access_size \in Int
         /\ \A i \in 1 .. Len(Ops) : Ops[i].size \in Nat /\ Ops[i].size <= max_access_size
<1> DEFINE n == Len(Ops)
           size == [i \in 1 .. n |-> Ops[i].size]
<1>1. n \in Nat \ {0} /\ DOMAIN Ops = 1 .. n /\ \A i \in 1 .. n : Ops[i] \in OpType
  BY OpsTyped
<1> HIDE DEF n
<1>2. \A s \in PowersOfTwo : s \in Nat
  BY PowersPositive
<1>3. \A i \in 1 .. n : size[i] \in Nat /\ size[i] = Ops[i].size
  BY <1>1, <1>2 DEF OpType
<1>4. {op.size : op \in Range(Ops)} = {size[i] : i \in 1 .. n}
  BY <1>1, <1>3 DEF Range
<1>5. IsFiniteSet(1 .. n) /\ 1 .. n # {}
  <2>1. 1 \in 1 .. n /\ n \in Int
    BY <1>1
  <2>2. IsFiniteSet(1 .. n)
    BY <2>1, FS_Interval
  <2>3. 1 .. n # {}
    BY <2>1
  <2> QED  BY <2>2, <2>3
<1>6. \A i \in 1 .. n : size[i] \in Int
  BY <1>3
<1> HIDE DEF size
<1>7. /\ Max({size[i] : i \in 1 .. n}) \in Int
      /\ \A i \in 1 .. n : size[i] <= Max({size[i1] : i1 \in 1 .. n})
  BY <1>5, <1>6, Extremes
<1> QED  BY <1>3, <1>4, <1>7 DEF max_access_size, n

(* Addresses drawn at random are natural numbers, and leave room for an    *)
(* access of any size of the chain.                                        *)
LEMMA RandomAddresses ==
  ASSUME ProgressInv, Executes, NEW i \in 1 .. Len(Ops), NEW addr \in random_addresses(Ops[i])
  PROVE  /\ addr \in Nat
         /\ WholeLines /\ FitsPartition =>
              addr + max_access_size <= partition_size(Ops[i])
<1> DEFINE op == Ops[i]
           max == max_access_size
           psize == partition_size(op)
           range == range_size(op)
<1>1. op \in OpType /\ op \in Range(Ops)
  BY OpsTyped DEF Range
<1>2. op.size \in Nat /\ max \in Int /\ op.size <= max
  BY LargestAccess
<1>3. psize \in 0 .. WordSize - 1 /\ WordSize \in Nat
  BY OperationsAssumption DEF partition_size
<1>4. range = (psize - max) % WordSize
  BY DEF range_size
<1>5. PICK v \in 0 .. range - 1 : addr = IF op.size = 0 THEN 0 ELSE v - (v % op.size)
  BY DEF random_addresses
<1> HIDE DEF op, max, psize, range
<1>6. range \in Nat
  BY <1>2, <1>3, <1>4
<1>7. addr \in Nat /\ addr <= v
  BY <1>2, <1>5, <1>6
<1>8. ASSUME WholeLines, FitsPartition
      PROVE  addr + max <= psize
  <2>1. max < psize /\ 0 <= max
    BY <1>1, <1>2, <1>8 DEF FitsPartition, max, psize
  <2>2. range = psize - max
    BY <1>2, <1>3, <1>4, <2>1
  <2> QED  BY <1>2, <1>3, <1>5, <1>7, <2>2
<1> QED  BY <1>7, <1>8 DEF max, psize, op

-----------------------------------------------------------------------------
(* The latest read and the offsets since.                                  *)

ReadsUpto(n) == {i \in 1 .. n : Ops[i].type = "Read"}

(* The latest read is followed by writes only.                             *)
LEMMA LatestRead ==
  ASSUME next \in Nat, \E i \in 1 .. LastDone : Ops[i].type = "Read"
  PROVE  /\ LastRead \in 1 .. LastDone /\ Ops[LastRead].type = "Read"
         /\ \A i \in LastRead + 1 .. LastDone : Ops[i].type # "Read"
<1> DEFINE R == ReadsUpto(LastDone)
           id == [i \in R |-> i]
<1>1. LastDone \in Int /\ R \subseteq 1 .. LastDone /\ R # {}
  BY DEF LastDone, ReadsUpto
<1>2. IsFiniteSet(R)
  BY <1>1, FS_Interval, FS_Subset
<1>3. {id[i] : i \in R} = R /\ \A i \in R : id[i] \in Int
  BY <1>1
<1>4. Max(R) \in R /\ \A i \in R : i <= Max(R)
  <2> HIDE DEF R, id
  <2>1. /\ Max({id[j] : j \in R}) \in {id[j] : j \in R}
        /\ \A i \in R : id[i] <= Max({id[j] : j \in R})
    BY <1>1, <1>2, <1>3, Extremes
  <2> QED  BY <1>3, <2>1 DEF id
<1>5. LastRead = Max(R)
  BY DEF LastRead, ReadsUpto
<1> HIDE DEF R, id
<1>6. LastRead \in R /\ \A i \in R : i <= LastRead
  BY <1>4, <1>5
<1>7. LastRead \in 1 .. LastDone /\ Ops[LastRead].type = "Read"
  BY <1>6 DEF R, ReadsUpto
<1>8. ASSUME NEW i \in LastRead + 1 .. LastDone, Ops[i].type = "Read"
      PROVE  FALSE
  <2>1. i \in R
    BY <1>1, <1>7, <1>8 DEF R, ReadsUpto
  <2> QED  BY <1>6, <1>7, <2>1
<1> QED  BY <1>7, <1>8

(* A value that is the largest of a set is its maximum.                    *)
LEMMA MaxIs ==
  ASSUME NEW S, NEW m \in S, m \in Int, \A i \in S : i \in Int /\ i <= m
  PROVE  Max(S) = m
<1>1. \E x \in S : \A y \in S : x >= y
  OBVIOUS
<1>2. Max(S) \in S /\ \A y \in S : Max(S) >= y
  BY <1>1 DEF Max
<1> DEFINE max == Max(S)
<1>3. max \in S /\ max >= m
  BY <1>2
<1> HIDE DEF max
<1>4. max \in Int /\ max <= m
  BY <1>3
<1> QED  BY <1>3, <1>4 DEF max

(* A job keeps its operations.                                             *)
LEMMA SameOps ==
  ASSUME job' = job
  PROVE  Ops' = Ops
BY DEF Ops, all_from_string, from_string, IsWrite

(* A chain that was accepted stays accepted.                               *)
LEMMA SameText ==
  ASSUME job' = job
  PROVE  Accepted(job.text)' = Accepted(job.text)
BY DEF Accepted, all_from_string, from_string, Parses, IsWrite, validate

(* A read starts anew, a write moves on.                                   *)
LEMMA AfterRead ==
  ASSUME next \in Nat \ {0}, next' = next + 1, job' = job, Ops[next].type = "Read"
  PROVE  LastRead' = next /\ LastDone' = next /\ Ops' = Ops /\ Moved' = 0
<1>1. Ops' = Ops /\ LastDone' = next
  BY SameOps DEF LastDone
<1> DEFINE R == ReadsUpto(next)
<1>2. next \in R /\ \A i \in R : i \in Int /\ i <= next
  BY DEF ReadsUpto
<1>3. LastRead' = Max(R)
  BY <1>1 DEF LastRead, ReadsUpto
<1> HIDE DEF R
<1>4. LastRead' = next
  BY <1>2, <1>3, MaxIs
<1>5. LastRead' + 1 .. LastDone' = {}
  BY <1>1, <1>4
<1>6. Moved' = SumOver(Offsets', {})
  BY <1>5 DEF Moved
<1> QED  BY <1>1, <1>4, <1>6, SumEmpty

(* A write keeps the latest read, and adds its offset.                     *)
LEMMA AfterWrite ==
  ASSUME next \in 1 .. Len(Ops), next' = next + 1, job' = job, Ops[next].type # "Read",
         Len(Ops) \in Nat, \A i \in 1 .. Len(Ops) : Ops[i].offset \in Int,
         \E i \in 1 .. LastDone : Ops[i].type = "Read"
  PROVE  /\ LastRead' = LastRead /\ LastDone' = next /\ Ops' = Ops
         /\ Moved \in Int /\ Moved' = Moved + Ops[next].offset
<1>1. Ops' = Ops /\ LastDone' = next
  BY SameOps DEF LastDone
<1>2. LastRead \in 1 .. LastDone /\ LastDone = next - 1
  BY LatestRead DEF LastDone
<1>3. ReadsUpto(LastDone)' = ReadsUpto(LastDone)
  <2>1. ReadsUpto(LastDone)' = {i \in 1 .. next : Ops[i].type = "Read"}
    BY <1>1 DEF ReadsUpto
  <2> QED  BY <1>2, <2>1 DEF ReadsUpto
<1>4. LastRead' = LastRead
  BY <1>1, <1>3 DEF LastRead, ReadsUpto
<1> DEFINE S == LastRead + 1 .. next
<1>5. IsFiniteSet(S) /\ next \in S /\ S \ {next} = LastRead + 1 .. LastDone
  <2> DEFINE r == LastRead
             l == LastDone
  <2>1. r \in 1 .. l /\ l = next - 1 /\ next \in Int
    BY <1>2
  <2> HIDE DEF r, l
  <2>2. r + 1 \in Int
    BY <2>1
  <2>3. IsFiniteSet(r + 1 .. next)
    BY <2>1, <2>2, FS_Interval
  <2>4. next \in r + 1 .. next /\ (r + 1 .. next) \ {next} = r + 1 .. l
    BY <2>1
  <2> QED  BY <2>3, <2>4 DEF r, l
<1>6. \A i \in S : Offsets[i] \in Int /\ Offsets[i] = Ops[i].offset
  BY <1>2 DEF Offsets
<1>7. Moved' = SumOver(Offsets, S)
  <2>1. Offsets' = Offsets
    BY <1>1 DEF Offsets
  <2> QED  BY <1>1, <1>4, <2>1 DEF Moved
<1> HIDE DEF S
<1>8. SumOver(Offsets, S) = Offsets[next] + SumOver(Offsets, S \ {next})
  <2> DEFINE f == Offsets
             y == next
  <2>1. IsFiniteSet(S) /\ y \in S /\ \A x \in S : f[x] \in Int
    BY <1>5, <1>6
  <2> HIDE DEF f, y
  <2>2. SumOver(f, S) = f[y] + SumOver(f, S \ {y})
    BY <2>1, SumRemove
  <2> QED  BY <2>2 DEF f, y
<1>9. SumOver(Offsets, S \ {next}) = Moved
  BY <1>5 DEF Moved
<1>10. Moved \in Int
  <2>1. IsFiniteSet(S \ {next}) /\ \A i \in S \ {next} : Offsets[i] \in Int
    BY <1>5, <1>6, FS_Subset
  <2>2. SumOver(Offsets, S \ {next}) \in Int
    BY <2>1, SumType
  <2> QED  BY <1>9, <2>2
<1> QED  BY <1>1, <1>4, <1>5, <1>6, <1>7, <1>8, <1>9, <1>10

-----------------------------------------------------------------------------
(* The inductive invariant.                                                *)

(* At first nothing is accessed.                                           *)
LEMMA InitOpsInv == Init => OpsInv
<1> SUFFICES ASSUME Init PROVE OpsInv
  OBVIOUS
<1>1. ProgressInv
  <2>1. CASE job.kind = "chain"
    BY <2>1 DEF Init, ProgressInv, Executes
  <2>2. CASE job.kind # "chain"
    <3>1. Len(Ops) \in Nat \ {0}
      BY <2>2, OpsOfIoOperation DEF Init
    <3> QED  BY <2>2, <3>1 DEF Init, ProgressInv, Executes
  <2> QED  BY <2>1, <2>2
<1>2. ~InChain /\ Persisted
  BY DEF Init, InChain, LastDone, Persisted
<1> QED  BY <1>1, <1>2 DEF OpsInv, AddressInv, LinesInv

(* The steps: a chain that is parsed starts from its first operation, ...  *)
LEMMA ParseOpsInv ==
  ASSUME OpsInv, Parse
  PROVE  OpsInv'
<1>1. /\ pc = "parse" /\ pc' = (IF Accepted(job.text) THEN "run" ELSE "rejected")
      /\ UNCHANGED <<job, next, touched, memory, promised>>
      /\ job \in Jobs /\ job.kind = "chain" /\ next = 1 /\ promised = {}
  BY DEF Parse, OpsInv, ProgressInv
<1>2. Ops' = Ops
  BY <1>1, SameOps
<1>3. ProgressInv'
  <2>1. Accepted(job.text)' = Accepted(job.text)
    BY <1>1, SameText
  <2>2. Accepted(job.text) => Len(Ops) \in Nat \ {0}
    BY <1>1, OpsOfChain
  <2> QED  BY <1>1, <1>2, <2>1, <2>2 DEF ProgressInv, Executes
<1>4. ~InChain' /\ Persisted'
  BY <1>1 DEF InChain, LastDone, Persisted
<1> QED  BY <1>3, <1>4 DEF OpsInv, AddressInv, LinesInv

(* The next operation is executed.                                         *)
LEMMA AdvanceProgress ==
  ASSUME ProgressInv, pc = "run", Advance
  PROVE  ProgressInv' /\ Ops' = Ops /\ LastDone' = next /\ next \in 1 .. Len(Ops)
<1>1. /\ next' = next + 1 /\ pc' = (IF next = Len(Ops) THEN "done" ELSE "run")
      /\ job' = job
  BY DEF Advance
<1>2. Len(Ops) \in Nat /\ next \in 1 .. Len(Ops) /\ Executes
  <2>1. Executes
    BY DEF Executes
  <2> QED  BY <2>1, OpsTyped DEF ProgressInv
<1>3. Ops' = Ops
  BY <1>1, SameOps
<1>4. Accepted(job.text)' = Accepted(job.text)
  BY <1>1, SameText
<1>5. pc' # "parse" /\ Executes'
  BY <1>1 DEF Executes
<1>6. next' \in 1 .. Len(Ops)' + 1 /\ (pc' = "run" => next' <= Len(Ops)')
  BY <1>1, <1>2, <1>3
<1>7. ProgressInv'
  BY <1>1, <1>2, <1>4, <1>5, <1>6 DEF ProgressInv
<1> QED  BY <1>1, <1>2, <1>3, <1>7 DEF LastDone

(* What depends on the operations only does not change.                    *)
LEMMA SameChain ==
  ASSUME Ops' = Ops
  PROVE  /\ WholeLines' = WholeLines /\ FitsPartition' = FitsPartition
         /\ \A i \in 1 .. Len(Ops) : random_addresses(Ops[i])' = random_addresses(Ops[i])
BY DEF WholeLines, FitsPartition, random_addresses, range_size, max_access_size, partition_size

(* ... a read takes an address of its partition, ...                       *)
LEMMA ChainReadOpsInv ==
  ASSUME OpsInv, ChainRead
  PROVE  OpsInv'
<1> DEFINE op == Ops[next]
<1>1. /\ pc = "run" /\ job.kind = "chain" /\ op.type = "Read" /\ Advance
      /\ ProgressInv /\ Executes /\ LinesInv
  BY DEF ChainRead, Executing, OpsInv, Executes
<1>2. PICK addr \in random_addresses(op) :
        Aligned(op, addr) /\ Read(addr, ReadLines(addr, op.size))
  BY DEF ChainRead
<1>3. /\ current_addr' = addr /\ read_addr' = addr
      /\ touched' = At(op, ReadLines(addr, op.size))
      /\ memory' = memory /\ promised' = promised
  BY <1>2 DEF Read
<1>4. ProgressInv' /\ Ops' = Ops /\ next \in 1 .. Len(Ops)
  BY <1>1, AdvanceProgress
<1>5. LastRead' = next /\ LastDone' = next /\ Moved' = 0
  BY <1>1, <1>4, AfterRead DEF Advance
<1>6. addr \in Nat
  BY <1>1, <1>2, <1>4, RandomAddresses
<1>7. AddressInv'
  <2>1. next \in 1 .. LastDone' /\ Ops'[next].type = "Read"
    BY <1>1, <1>4, <1>5
  <2>2. Ops'[LastRead'].is_pmem = Ops'[LastDone'].is_pmem
    BY <1>5
  <2>3. read_addr' \in random_addresses(Ops[LastRead])'
    BY <1>2, <1>3, <1>4, <1>5, SameChain
  <2>4. current_addr' = read_addr' + Moved'
    BY <1>3, <1>5, <1>6
  <2> QED  BY <2>1, <2>2, <2>3, <2>4 DEF AddressInv
<1>8. LinesInv'
  <2>1. ASSUME WholeLines
        PROVE  /\ addr % 64 = 0
               /\ touched' \subseteq At(op, Lines(addr, op.size))
    <3>1. op.size \in PowersOfTwo /\ op.size >= 64
      BY <1>1, <1>4, <2>1, WholeLinesSize
    <3>2. addr % 64 = 0
      BY <1>2, <3>1, WholeLineSizes DEF Aligned
    <3>3. ReadLines(addr, op.size) \subseteq Lines(addr, op.size)
      BY <1>6, <3>1, <3>2, AccessedLines
    <3> QED  BY <1>3, <3>2, <3>3 DEF At
  <2>2. WholeLines' = WholeLines
    BY <1>4, SameChain
  <2>3. Persisted'
    BY <1>1, <1>3, <2>2 DEF LinesInv, Persisted
  <2> QED  BY <1>3, <1>4, <1>5, <2>1, <2>2, <2>3 DEF LinesInv
<1> QED  BY <1>4, <1>7, <1>8 DEF OpsInv

(* A write keeps what its persist instruction promises.                    *)
LEMMA WritePersists ==
  ASSUME NEW op \in OpType, op.size \in PowersOfTwo, op.size >= 64,
         NEW addr \in Int, addr % 64 = 0,
         op = Ops[next], promised \subseteq memory.in_memory, Write(addr)
  PROVE  /\ promised' \subseteq memory'.in_memory
         /\ touched' = At(op, Lines(addr, op.size))
<1> DEFINE lines == At(op, Lines(addr, op.size))
           flushed == At(op, FlushedLines(addr, op.size))
<1>1. StoredLines(addr, op.size) = Lines(addr, op.size)
  BY AccessedLines
<1>2. lines \subseteq flushed
  BY WholeLineSizes, LinesFlushed DEF At
<1>3. /\ memory' = run_write(memory, op, addr)
      /\ promised' = IF op.persist = "none" THEN promised \ lines ELSE promised \cup lines
      /\ touched' = lines
  BY <1>1 DEF Write
<1>4. memory' = CASE op.persist = "none"    -> Store(memory, lines)
                  [] op.persist = "nocache" -> sfence_barrier(StoreNonTemporal(memory, lines))
                  [] OTHER -> sfence_barrier(Flush(Store(memory, lines), flushed))
  BY <1>1, <1>3 DEF run_write
<1> HIDE DEF lines, flushed
<1>5. CASE op.persist = "none"
  <2>1. memory'.in_memory = memory.in_memory \ lines
    BY <1>4, <1>5 DEF Store
  <2> QED  BY <1>3, <1>5, <2>1 DEF lines
<1>6. CASE op.persist = "nocache"
  <2>1. memory' = sfence_barrier(StoreNonTemporal(memory, lines))
    BY <1>4, <1>6
  <2>2. memory'.in_memory = (memory.in_memory \ lines) \cup (memory.unfenced \cup lines)
    BY <2>1 DEF sfence_barrier, StoreNonTemporal
  <2> QED  BY <1>3, <1>6, <2>2 DEF lines
<1>7. CASE op.persist \notin {"none", "nocache"}
  <2>1. memory' = sfence_barrier(Flush(Store(memory, lines), flushed))
    BY <1>4, <1>7
  <2>2. memory'.in_memory = (memory.in_memory \ lines)
                              \cup ((memory.unfenced \ lines)
                                      \cup ((memory.unflushed \cup lines) \cap flushed))
    BY <2>1 DEF sfence_barrier, Flush, Store
  <2> QED  BY <1>2, <1>3, <1>7, <2>2 DEF lines
<1> QED  BY <1>5, <1>6, <1>7

(* ... a write uses the address passed on to it, ...                       *)
LEMMA ChainWriteOpsInv ==
  ASSUME OpsInv, ChainWrite
  PROVE  OpsInv'
<1> DEFINE op == Ops[next]
           addr == current_addr + op.offset
<1>1. /\ pc = "run" /\ job.kind = "chain" /\ op.type = "Write" /\ Advance
      /\ ProgressInv /\ Executes /\ AddressInv /\ LinesInv /\ Write(addr)
  BY DEF ChainWrite, Executing, OpsInv, Executes
<1>2. ProgressInv' /\ Ops' = Ops /\ LastDone' = next /\ next \in 1 .. Len(Ops)
  BY <1>1, AdvanceProgress
<1>3. /\ Len(Ops) \in Nat /\ op \in OpType /\ op.offset % 64 = 0
      /\ \A i \in 1 .. Len(Ops) : Ops[i].offset \in Int
      /\ validate(Ops)
  BY <1>1, <1>2, OpsOfChain DEF ProgressInv, OpType
<1>4. next \in 2 .. Len(Ops) /\ op.is_pmem = Ops[next - 1].is_pmem
  BY <1>1, <1>2, <1>3 DEF validate
<1>5. InChain /\ LastDone = next - 1
  BY <1>1, <1>4 DEF InChain, LastDone
<1>6. /\ \E i \in 1 .. LastDone : Ops[i].type = "Read"
      /\ Ops[LastRead].is_pmem = Ops[LastDone].is_pmem
      /\ read_addr \in random_addresses(Ops[LastRead])
      /\ current_addr = read_addr + Moved
  BY <1>1, <1>5 DEF AddressInv
<1>7. LastRead \in 1 .. LastDone
  BY <1>4, <1>6, LatestRead
<1>8. LastRead' = LastRead /\ Moved \in Int /\ Moved' = Moved + op.offset
  BY <1>1, <1>2, <1>3, <1>6, AfterWrite DEF Advance
<1>9. read_addr \in Nat /\ op.offset \in Int /\ current_addr \in Int
  <2>1. LastRead \in 1 .. Len(Ops)
    BY <1>3, <1>4, <1>5, <1>7
  <2>2. read_addr \in Nat
    BY <1>1, <1>6, <2>1, RandomAddresses
  <2>3. op.offset \in Int
    BY <1>2, <1>3
  <2> HIDE DEF op
  <2> QED  BY <1>6, <1>8, <2>2, <2>3
<1>10. current_addr' = addr /\ read_addr' = read_addr
  BY <1>1 DEF Write
<1>11. AddressInv'
  <2>1. \E i \in 1 .. LastDone' : Ops'[i].type = "Read"
    BY <1>2, <1>4, <1>5, <1>6
  <2>2. Ops'[LastRead'].is_pmem = Ops'[LastDone'].is_pmem
    BY <1>2, <1>4, <1>5, <1>6, <1>8
  <2>3. read_addr' \in random_addresses(Ops[LastRead])'
    <3>1. LastRead \in 1 .. Len(Ops)
      BY <1>3, <1>4, <1>5, <1>7
    <3> QED  BY <1>2, <1>6, <1>8, <1>10, <3>1, SameChain
  <2>4. current_addr' = read_addr' + Moved'
    BY <1>6, <1>8, <1>9, <1>10
  <2> QED  BY <2>1, <2>2, <2>3, <2>4 DEF AddressInv
<1>12. LinesInv'
  <2>1. WholeLines' = WholeLines
    BY <1>2, SameChain
  <2>2. ASSUME WholeLines
        PROVE  /\ addr % 64 = 0 /\ promised' \subseteq memory'.in_memory
               /\ touched' = At(op, Lines(addr, op.size))
    <3>1. op.size \in PowersOfTwo /\ op.size >= 64
      BY <1>1, <1>2, <2>2, WholeLinesSize
    <3>2. current_addr % 64 = 0 /\ promised \subseteq memory.in_memory
      BY <1>1, <1>5, <2>2 DEF LinesInv, Persisted
    <3>3. addr \in Int /\ addr % 64 = 0
      BY <1>3, <1>9, <3>2, LinesAdd
    <3> HIDE DEF addr
    <3> QED  BY <1>1, <1>3, <3>1, <3>2, <3>3, WritePersists
  <2> QED  BY <1>2, <1>10, <2>1, <2>2 DEF LinesInv, Persisted
<1> QED  BY <1>2, <1>11, <1>12 DEF OpsInv

(* ... and an IoOperation its own.                                         *)
LEMMA RunIoOperationOpsInv ==
  ASSUME OpsInv, RunIoOperation
  PROVE  OpsInv'
<1> DEFINE addr == job.addresses[next]
<1>1. /\ pc = "run" /\ job.kind = "io" /\ Advance /\ ProgressInv /\ Persisted
      /\ job \in Jobs /\ job' = job
  BY DEF RunIoOperation, Executing, OpsInv, LinesInv, ProgressInv, Advance
<1>2. ProgressInv' /\ Ops' = Ops /\ next \in 1 .. Len(Ops)
  BY <1>1, AdvanceProgress
<1>3. /\ Ops[next] = job.op /\ job.op \in OpType
      /\ job.op.size \in PowersOfTwo /\ job.op.size >= 64
      /\ addr \in Int /\ addr % 64 = 0
  BY <1>1, <1>2, OpsOfIoOperation
<1>4. WholeLines' = WholeLines
  BY <1>2, SameChain
<1>5. Persisted'
  <2>1. CASE job.op.type = "Read"
    <3>1. memory' = memory /\ promised' = promised
      BY <2>1 DEF RunIoOperation, Read
    <3> QED  BY <1>1, <1>4, <3>1 DEF Persisted
  <2>2. CASE job.op.type # "Read"
    <3>1. Write(addr)
      BY <2>2 DEF RunIoOperation
    <3> HIDE DEF addr
    <3>2. ASSUME WholeLines
          PROVE  promised' \subseteq memory'.in_memory
      BY <1>1, <1>3, <3>1, <3>2, WritePersists DEF Persisted
    <3> QED  BY <1>4, <3>2 DEF Persisted
  <2> QED  BY <2>1, <2>2
<1>6. ~InChain'
  BY <1>1 DEF InChain
<1> QED  BY <1>2, <1>5, <1>6 DEF OpsInv, AddressInv, LinesInv

(* Every step preserves the invariant.                                     *)
LEMMA NextOpsInv ==
  ASSUME OpsInv, [Next]_vars
  PROVE  OpsInv'
<1>1. CASE Trap
  <2>1. pc' = "trapped" /\ job' = job
    BY <1>1 DEF Trap
  <2> QED  BY <2>1 DEF OpsInv, ProgressInv, Executes, AddressInv, InChain, LinesInv, Persisted
<1>2. CASE UNCHANGED vars
  <2>1. Ops' = Ops /\ UNCHANGED <<pc, job, next, current_addr, read_addr, touched, memory, promised>>
    BY <1>2, SameOps DEF vars
  <2>2. /\ WholeLines' = WholeLines /\ LastDone' = LastDone /\ LastRead' = LastRead /\ Moved' = Moved
        /\ random_addresses(Ops[LastRead])' = random_addresses(Ops[LastRead])
    BY <2>1 DEF WholeLines, LastDone, LastRead, Moved, Offsets, random_addresses, range_size,
                max_access_size, partition_size
  <2>3. Accepted(job.text)' = Accepted(job.text)
    BY <2>1, SameText
  <2>4. ProgressInv'
    BY <2>1, <2>3 DEF OpsInv, ProgressInv, Executes
  <2>5. AddressInv'
    BY <2>1, <2>2 DEF OpsInv, AddressInv, InChain
  <2>6. LinesInv'
    BY <2>1, <2>2 DEF OpsInv, LinesInv, InChain, Persisted
  <2> QED  BY <2>4, <2>5, <2>6 DEF OpsInv
<1> QED  BY <1>1, <1>2, ParseOpsInv, ChainReadOpsInv, ChainWriteOpsInv, RunIoOperationOpsInv
         DEF Next, Terminating

(* Every state of a chain or an IoOperation.                               *)
THEOREM OperationsInvariant == Spec => []OpsInv
BY InitOpsInv, NextOpsInv, PTL DEF Spec

-----------------------------------------------------------------------------
(* The properties.                                                         *)

(* No write uses an address nobody has read: validate accepts only chains  *)
(* that start with a read, and whose writes follow accesses of the same    *)
(* memory.                                                                 *)
THEOREM WritesAfterReads == Spec => []WritesFollowRead
<1>1. OpsInv => WritesFollowRead
  <2> SUFFICES ASSUME OpsInv, InChain
               PROVE  /\ \E i \in 1 .. LastDone : Ops[i].type = "Read"
                      /\ Ops[LastRead].is_pmem = Ops[LastDone].is_pmem
                      /\ read_addr # Seed /\ current_addr = read_addr + Moved
    BY DEF WritesFollowRead
  <2>1. /\ ProgressInv /\ Executes
        /\ \E i \in 1 .. LastDone : Ops[i].type = "Read"
        /\ Ops[LastRead].is_pmem = Ops[LastDone].is_pmem
        /\ read_addr \in random_addresses(Ops[LastRead])
        /\ current_addr = read_addr + Moved
    BY DEF OpsInv, AddressInv, InChain, Executes
  <2>2. next \in Nat /\ LastDone \in Nat /\ LastDone <= Len(Ops) /\ Len(Ops) \in Nat
    BY <2>1, OpsTyped DEF InChain, LastDone
  <2>3. LastRead \in 1 .. Len(Ops)
    BY <2>1, <2>2, LatestRead
  <2>4. read_addr \in Nat
    BY <2>1, <2>3, RandomAddresses
  <2>5. read_addr # Seed
    BY <2>4, OperationsAssumption DEF Seed
  <2> QED  BY <2>1, <2>5
<1> QED  BY <1>1, OperationsInvariant, PTL

(* A chain of whole-line accesses stays within its partition, up to the    *)
(* offsets of its writes: the range of random addresses is reduced by the  *)
(* largest access of the chain.                                            *)
THEOREM AccessesInPartition == Spec => []AccessesInRange
<1>1. OpsInv => AccessesInRange
  <2> SUFFICES ASSUME OpsInv, InChain, WholeLines, FitsPartition, NEW l \in touched
               PROVE  /\ 64 * l[2] - Moved >= 0
                      /\ 64 * l[2] + 64 - Moved <= partition_size(Ops[LastDone])
    BY DEF AccessesInRange
  <2> DEFINE size == Ops[LastDone].size
             n == l[2]
             moved == Moved
             read == read_addr
             psize == partition_size(Ops[LastDone])
             max == max_access_size
  <2>1. /\ ProgressInv /\ Executes
        /\ \E i \in 1 .. LastDone : Ops[i].type = "Read"
        /\ Ops[LastRead].is_pmem = Ops[LastDone].is_pmem
        /\ read_addr \in random_addresses(Ops[LastRead])
        /\ current_addr = read_addr + Moved
        /\ current_addr % 64 = 0
        /\ touched \subseteq At(Ops[LastDone], Lines(current_addr, size))
    BY DEF OpsInv, AddressInv, LinesInv, InChain, Executes
  <2>2. next \in Nat /\ LastDone \in 1 .. Len(Ops) /\ Len(Ops) \in Nat
    BY <2>1, OpsTyped DEF InChain, LastDone
  <2>3. LastRead \in 1 .. LastDone /\ LastRead \in 1 .. Len(Ops)
    BY <2>1, <2>2, LatestRead
  <2>4. read \in Nat /\ read + max <= psize
    <3>1. partition_size(Ops[LastRead]) = psize
      BY <2>1 DEF partition_size
    <3> QED  BY <2>1, <2>3, <3>1, RandomAddresses
  <2>5. size \in Nat /\ size <= max /\ max \in Int
    BY <2>1, <2>2, LargestAccess
  <2>6. size % 64 = 0
    BY <2>1, <2>2, WholeLinesSize, WholeLineSizes
  <2>7. moved \in Int
    <3>1. \A i \in 1 .. Len(Ops) : Ops[i].offset \in Int
      BY <2>1, OpsTyped DEF OpType
    <3>2. \A i \in LastRead + 1 .. LastDone : Offsets[i] \in Int
      BY <2>2, <2>3, <3>1 DEF Offsets
    <3>3. IsFiniteSet(LastRead + 1 .. LastDone)
      <4> DEFINE a == LastRead + 1
                 b == LastDone
      <4>1. a \in Int /\ b \in Int
        BY <2>2, <2>3
      <4> HIDE DEF a, b
      <4>2. IsFiniteSet(a .. b)
        BY <4>1, FS_Interval
      <4> QED  BY <4>2 DEF a, b
    <3> QED  BY <3>2, <3>3, SumType DEF Moved
  <2>8. n \in Lines(current_addr, size)
    BY <2>1 DEF At
  <2> HIDE DEF size, n, moved, read, psize, max
  <2>9. current_addr \in Int /\ current_addr = read + moved
    BY <2>1, <2>4, <2>7 DEF read, moved
  <2>10. n \in Int /\ current_addr <= 64 * n /\ 64 * n + 64 <= current_addr + size
    BY <2>1, <2>5, <2>6, <2>8, <2>9, LinesInside
  <2>11. psize \in Int
    BY OperationsAssumption DEF psize, partition_size
  <2>12. 64 * n - moved >= 0 /\ 64 * n + 64 - moved <= psize
    BY <2>4, <2>5, <2>7, <2>9, <2>10, <2>11
  <2> QED  BY <2>12 DEF n, moved, psize
<1> QED  BY <1>1, OperationsInvariant, PTL

(* What was written with a persist instruction is in memory when the       *)
(* operation ends: a flush covers all lines of a store, a fence follows.   *)
THEOREM WritesPersisted == Spec => []Persisted
<1>1. OpsInv => Persisted
  BY DEF OpsInv, LinesInv
<1> QED  BY <1>1, OperationsInvariant, PTL
================================================================================

-------------------------- MODULE RandomNumbersProofs --------------------------
(***************************************************************************)
(* Proofs about RandomNumbers, for every number of threads, every          *)
(* generator that RandValAssumption describes and every table.             *)
(***************************************************************************)
EXTENDS RandomNumbers, TLAPS

-----------------------------------------------------------------------------
(* Schrage's method.                                                       *)

(* Every integer has a quotient and a remainder ...                        *)
LEMMA DivMod ==
  ASSUME NEW d \in Nat \ {0}, NEW e \in Int
  PROVE  /\ e \div d \in Int
         /\ e % d \in 0 .. d - 1
         /\ e = d * (e \div d) + (e % d)
  OBVIOUS

(* Products of a positive number grow by at least that number.             *)
LEMMA MulMonotonic ==
  ASSUME NEW d \in Nat \ {0}, NEW e \in Int, NEW f \in Int, e < f
  PROVE  d * e + d <= d * f
<1>1. d * (e + 1) <= d * f
  OBVIOUS
<1>2. d * (e + 1) = d * e + d
  OBVIOUS
<1> QED  BY <1>1, <1>2

(* ... and only one of them.                                               *)
LEMMA RemainderUnique ==
  ASSUME NEW d \in Nat \ {0}, NEW k \in Int, NEW e \in 0 .. d - 1
  PROVE  (d * k + e) % d = e
<1> DEFINE w == d * k + e
           j == w \div d
<1>1. d * k \in Int /\ w \in Int
  OBVIOUS
<1> HIDE DEF w
<1>2. j \in Int /\ w % d \in 0 .. d - 1 /\ w = d * j + (w % d)
  BY <1>1, DivMod
<1> HIDE DEF j
<1>3. d * j \in Int
  BY <1>2
<1>4. d * k + e = d * j + (w % d)
  BY <1>2 DEF w
<1>5. ~(k < j)
  <2>1. k < j => d * k + d <= d * j
    BY <1>2, MulMonotonic
  <2> QED  BY <2>1, <1>1, <1>2, <1>3, <1>4
<1>6. ~(j < k)
  <2>1. j < k => d * j + d <= d * k
    BY <1>2, MulMonotonic
  <2> QED  BY <2>1, <1>1, <1>2, <1>3, <1>4
<1>7. j = k
  BY <1>2, <1>5, <1>6
<1> QED  BY <1>1, <1>2, <1>4, <1>7 DEF w

(* The distributive steps that the multiplication by a takes               *)
LEMMA Distribute ==
  ASSUME NEW b \in Int, NEW c \in Int, NEW d \in Int, NEW e \in Int
  PROVE  b * (c * d + e) = (b * c) * d + b * e
<1>1. b * (c * d + e) = b * (c * d) + b * e
  OBVIOUS
<1>2. b * (c * d) = (b * c) * d
  OBVIOUS
<1> QED  BY <1>1, <1>2

(* rand_val computes a * v mod m without a product that exceeds m, and its *)
(* result is again a state: neither 0 nor m.                               *)
LEMMA Schrage ==
  ASSUME NEW v \in 1 .. m - 1
  PROVE  /\ rand_val(v) = (a * v) % m
         /\ rand_val(v) \in 1 .. m - 1
<1> DEFINE d == v \div q
           s == v % q
           new == a * s - r * d
<1>1. a \in Nat \ {0} /\ m \in Nat \ {0} /\ v \in Nat
  BY RandValAssumption
<1>2. r \in 0 .. a - 1 /\ q \in Int /\ m = a * q + r /\ r < q
  BY <1>1, DivMod, RandValAssumption DEF q, r
<1>3. q \in Nat \ {0}
  BY <1>2
<1>4. d \in Int /\ s \in 0 .. q - 1 /\ v = q * d + s
  BY <1>1, <1>3, DivMod
<1>5. rand_val(v) = IF new > 0 THEN new ELSE new + m
  BY DEF rand_val
<1>6. (a * v) % m # 0
  BY RandValAssumption
<1> HIDE DEF d, s
<1>7. d >= 0
  <2>1. d < 0 => q * d + q <= q * 0
    BY <1>3, <1>4, MulMonotonic
  <2>2. q * d \in Int
    BY <1>3, <1>4
  <2> QED  BY <1>1, <1>3, <1>4, <2>1, <2>2
<1>8. a * s \in Int /\ r * d \in Int /\ a * q \in Int /\ q * d \in Int /\ m * d \in Int
  BY <1>1, <1>2, <1>3, <1>4
<1>9. a * s >= 0 /\ a * s < m
  <2>1. a * s + a <= a * q
    BY <1>1, <1>3, <1>4, MulMonotonic
  <2>2. a * s >= 0
    BY <1>1, <1>4
  <2> QED  BY <1>1, <1>2, <1>8, <2>1, <2>2
<1>10. r * d >= 0 /\ r * d < m
  <2>1. r * d >= 0
    BY <1>2, <1>4, <1>7
  <2>2. r * d <= q * d
    BY <1>2, <1>4, <1>7
  <2> QED  BY <1>1, <1>4, <1>8, <2>1, <2>2
<1>11. new \in Int /\ -m < new /\ new < m
  BY <1>1, <1>8, <1>9, <1>10
<1>12. a * v = m * d + new
  <2>1. a * v = (a * q) * d + a * s
    BY <1>1, <1>3, <1>4, Distribute
  <2>2. m * d = (a * q) * d + r * d
    BY <1>2, <1>4, <1>8
  <2>3. (a * q) * d \in Int
    BY <1>4, <1>8
  <2> QED  BY <1>8, <2>1, <2>2, <2>3
<1> HIDE DEF new
<1>13. CASE new > 0
  <2>1. (m * d + new) % m = new
    BY <1>1, <1>4, <1>11, <1>13, RemainderUnique
  <2>2. (a * v) % m = new
    BY <1>12, <2>1, Zenon
  <2> QED  BY <1>1, <1>5, <1>11, <1>13, <2>2
<1>14. CASE new = 0
  <2>1. (m * d + new) % m = new
    BY <1>1, <1>4, <1>11, <1>14, RemainderUnique
  <2>2. (a * v) % m = new
    BY <1>12, <2>1, Zenon
  <2> QED  BY <1>6, <1>14, <2>2
<1>15. CASE new < 0
  <2>1. (m * (d - 1) + (new + m)) % m = new + m
    <3>1. d - 1 \in Int /\ new + m \in 0 .. m - 1
      BY <1>1, <1>4, <1>11, <1>15
    <3>2. \A k \in Int, e \in 0 .. m - 1 : (m * k + e) % m = e
      BY <1>1, RemainderUnique
    <3> QED  BY <3>1, <3>2, Zenon
  <2>2. m * (d - 1) = m * d - m
    BY <1>1, <1>4
  <2>3. m * (d - 1) + (new + m) = m * d + new
    BY <1>1, <1>8, <1>11, <2>2
  <2>4. (a * v) % m = new + m
    BY <1>12, <2>1, <2>3, Zenon
  <2> QED  BY <1>1, <1>5, <1>11, <1>15, <2>4
<1> QED  BY <1>11, <1>13, <1>14, <1>15

-----------------------------------------------------------------------------
(* The inductive invariant.                                                *)

(* What a call has read and what it has made of it                         *)
LcgInv(t) ==
  /\ pc[t] \in {"store", "search"} => loaded[t] \in 1 .. m - 1
  /\ pc[t] = "search" => z[t] = (a * loaded[t]) % m /\ z[t] \in 1 .. m - 1

(* A thread in a call has an argument and a table.                         *)
TableInv(t) ==
  /\ pc[t] # "idle" => calls[t] > 0
  /\ calls[t] > 0 => n[t] \in Sizes /\ table[t] \in Sizes

(* The interval of the search is not empty, and what is sought is in it or *)
(* beyond n.                                                               *)
SearchInv(t) ==
  pc[t] = "search" /\ Regular(t) =>
    /\ 1 <= low[t] /\ low[t] <= high[t] /\ high[t] <= n[t]
    /\ Probs(t)[low[t] - 1] < z[t]
    /\ high[t] = n[t] \/ z[t] <= Probs(t)[high[t]]

AnswerInv(t) == Answered(t) /\ Regular(t) => Inverts(t)

ThreadInv(t) == LcgInv(t) /\ TableInv(t) /\ SearchInv(t) /\ AnswerInv(t)

IndInv == TypeOK /\ x \in 1 .. m - 1 /\ \A t \in Threads : ThreadInv(t)

-----------------------------------------------------------------------------
(* Types.                                                                  *)

(* The steps of the search and the indices are integers.                   *)
LEMMA IndexTypes ==
  ASSUME TypeOK, NEW t \in Threads
  PROVE  mid(t) \in Int /\ Wrap(n[t]) \in Int
<1>1. IntMax \in Nat
  BY TableAssumption
<1>2. \A i \in Int : Wrap(i) \in Int
  BY <1>1 DEF Wrap
<1>3. \A i \in Int : Half(i) \in Int
  BY DEF Half
<1>4. low[t] + high[t] \in Int /\ n[t] \in Int
  BY DEF TypeOK
<1> QED  BY <1>2, <1>3, <1>4 DEF mid

(* What rand_val stores is an integer.                                     *)
LEMMA RandValRange ==
  ASSUME IndInv, NEW t \in Threads, pc[t] = "store"
  PROVE  /\ rand_val(loaded[t]) = (a * loaded[t]) % m
         /\ rand_val(loaded[t]) \in 1 .. m - 1
BY Schrage DEF IndInv, ThreadInv, LcgInv

(* The sizes have a table.                                                 *)
LEMMA SizesOfRange ==
  ASSUME IndInv, NEW size \in range
  PROVE  size \in Sizes /\ size \in Nat
BY TableAssumption DEF IndInv, TypeOK, Sizes

(* Every step keeps the types.                                             *)
LEMMA TypeInvariant ==
  ASSUME IndInv, [Next]_vars
  PROVE  TypeOK'
<1> USE DEF IndInv, TypeOK
<1>1. ASSUME NEW t \in Threads, Call(t)
     PROVE TypeOK'
  <2>1. PICK size \in range : n' = [n EXCEPT ![t] = size] /\ table' = [table EXCEPT ![t] = IF calls[t] = 0 THEN size ELSE @]
    BY <1>1 DEF Call
  <2>2. size \in Nat
    BY SizesOfRange
  <2> QED  BY <1>1, <2>1, <2>2 DEF Call, Goto
<1>2. ASSUME NEW t \in Threads, LoadX(t)
     PROVE TypeOK'
  BY <1>2 DEF LoadX, Goto
<1>3. ASSUME NEW t \in Threads, StoreX(t)
     PROVE TypeOK'
  <2>1. pc[t] = "store"
    BY <1>3 DEF StoreX, Goto
  <2>2. rand_val(loaded[t]) \in Int /\ Wrap(n[t]) \in Int
    BY <2>1, RandValRange, IndexTypes
  <2> QED  BY <1>3, <2>2 DEF StoreX, Goto
<1>4. ASSUME NEW t \in Threads, SearchStep(t)
     PROVE TypeOK'
  <2>1. mid(t) \in Int
    BY IndexTypes
  <2>2. CASE Found(t)
    BY <1>4, <2>1, <2>2 DEF SearchStep, Goto
  <2>3. CASE ~Found(t)
    <3>1. Narrow(t) /\ UNCHANGED <<value, range, x, calls, n, table, loaded, z>>
      BY <1>4, <2>3 DEF SearchStep
    <3>2. low' \in [Threads -> Int] /\ high' \in [Threads -> Int]
      BY <2>1, <3>1 DEF Narrow
    <3>3. /\ pc' \in [Threads -> {"idle", "load", "store", "search", "undefined"}]
          /\ outcome' \in [Threads -> {"none", "value", "unassigned", "undefined"}]
      BY <3>1 DEF Narrow, Goto
    <3> QED  BY <3>1, <3>2, <3>3
  <2> QED  BY <2>2, <2>3
<1>5. ASSUME NEW t \in Threads, SearchOutside(t)
     PROVE TypeOK'
  BY <1>5 DEF SearchOutside, Goto
<1>6. CASE UNCHANGED vars
  BY <1>6 DEF vars
<1> QED  BY <1>1, <1>2, <1>3, <1>4, <1>5, <1>6 DEF Next, Step, Terminating

-----------------------------------------------------------------------------
(* The search.                                                             *)

(* A table grows from 0 to m.                                              *)
LEMMA TableFacts ==
  ASSUME NEW k \in Sizes
  PROVE  /\ k \in Nat \ {0}
         /\ \A i \in 0 .. k : sum_probs[k][i] \in Int
         /\ sum_probs[k][0] = 0
         /\ \A i, j \in 0 .. k : i <= j => sum_probs[k][i] <= sum_probs[k][j]
<1>1. PICK size \in Sizes : sum_probs[k] \in [0 .. size -> 0 .. m]
  BY TableAssumption
<1>2. DOMAIN sum_probs[k] = 0 .. k
  BY TableAssumption
<1>3. sum_probs[k] \in [0 .. k -> 0 .. m]
  BY <1>1, <1>2
<1>4. m \in Nat
  BY RandValAssumption
<1>5. \A i \in 0 .. k : sum_probs[k][i] \in 0 .. m
  BY <1>3
<1>6. k \in Nat \ {0} /\ sum_probs[k][0] = 0
  BY TableAssumption
<1>7. \A i, j \in 0 .. k : i <= j => sum_probs[k][i] <= sum_probs[k][j]
  BY TableAssumption
<1> QED  BY <1>4, <1>5, <1>6, <1>7

(* Without overflow the middle lies within the interval, and the interval  *)
(* within the table.                                                       *)
LEMMA MidInInterval ==
  ASSUME IndInv, NEW t \in Threads, pc[t] = "search", Regular(t)
  PROVE  /\ low[t] \in 1 .. n[t] /\ high[t] \in 1 .. n[t] /\ n[t] \in Nat
         /\ mid(t) \in low[t] .. high[t]
         /\ table[t] \in Sizes /\ n[t] <= table[t]
         /\ InTable(t)
<1>1. /\ low[t] \in Int /\ high[t] \in Int /\ n[t] \in Nat /\ table[t] \in Nat /\ calls[t] \in Nat
      /\ IntMax \in Nat
  BY TableAssumption DEF IndInv, TypeOK
<1>2. 1 <= low[t] /\ low[t] <= high[t] /\ high[t] <= n[t]
  BY DEF IndInv, ThreadInv, SearchInv
<1>3. table[t] \in Sizes
  BY DEF IndInv, ThreadInv, TableInv
<1>4. n[t] <= table[t] /\ 2 * n[t] <= IntMax
  BY DEF Regular, IndicesFit
<1>5. Wrap(low[t] + high[t]) = low[t] + high[t]
  BY <1>1, <1>2, <1>4 DEF Wrap
<1>6. mid(t) = (low[t] + high[t]) \div 2
  BY <1>1, <1>2, <1>5 DEF mid, Half
<1>7. mid(t) \in low[t] .. high[t]
  BY <1>1, <1>2, <1>6
<1> QED  BY <1>1, <1>2, <1>3, <1>4, <1>7 DEF InTable

(* A step of the search finds the number, finds that there is none, or     *)
(* leaves the invariant for a smaller interval.                            *)
LEMMA SearchStepInv ==
  ASSUME IndInv, NEW t \in Threads, SearchStep(t)
  PROVE  SearchInv(t)' /\ AnswerInv(t)'
<1>1. pc[t] = "search" /\ UNCHANGED <<n, table, z, calls>>
  BY DEF SearchStep
<1>2. SUFFICES ASSUME Regular(t)
               PROVE  SearchInv(t)' /\ AnswerInv(t)'
  <2>1. ~Regular(t) => ~Regular(t)'
    BY <1>1 DEF Regular, IndicesFit
  <2> QED  BY <2>1 DEF SearchInv, AnswerInv
<1> DEFINE P == sum_probs[table[t]]
<1>3. /\ low[t] \in 1 .. n[t] /\ high[t] \in 1 .. n[t] /\ n[t] \in Nat
      /\ mid(t) \in low[t] .. high[t] /\ n[t] <= table[t]
      /\ table[t] \in Nat
  BY <1>1, <1>2, MidInInterval DEF IndInv, TypeOK
<1>4. /\ \A i \in 0 .. n[t] : P[i] \in Int
      /\ \A i, j \in 0 .. n[t] : i <= j => P[i] <= P[j]
  <2>1. table[t] \in Sizes
    BY <1>1, <1>2, MidInInterval
  <2>2. \A i \in 0 .. n[t] : i \in 0 .. table[t]
    BY <1>3
  <2> QED  BY <2>1, <2>2, TableFacts
<1>5. z[t] \in Int
  BY DEF IndInv, TypeOK
<1>6. P[low[t] - 1] < z[t] /\ (high[t] = n[t] \/ z[t] <= P[high[t]])
  BY <1>1, <1>2 DEF IndInv, ThreadInv, SearchInv, Probs
<1>7. Probs(t)' = P /\ Probs(t) = P
  BY <1>1 DEF Probs
<1>8. /\ pc \in [Threads -> {"idle", "load", "store", "search", "undefined"}]
      /\ low \in [Threads -> Int] /\ high \in [Threads -> Int] /\ value \in [Threads -> Int]
      /\ outcome \in [Threads -> {"none", "value", "unassigned", "undefined"}]
  BY DEF IndInv, TypeOK
<1> DEFINE M == mid(t)
<1> HIDE DEF P, M
<1>9. CASE Found(t)
  <2>1. /\ pc'[t] = "idle" /\ outcome'[t] = "value" /\ value'[t] = M - 1
    BY <1>8, <1>9 DEF SearchStep, Goto, M
  <2>2. P[M] >= z[t] /\ P[M - 1] < z[t]
    BY <1>7, <1>9 DEF Found, Above, M
  <2>3. M \in 1 .. n[t]
    BY <1>3 DEF M
  <2>4. z[t] <= P[n[t]]
    BY <1>3, <1>4, <1>5, <2>2, <2>3
  <2>5. value'[t] \in 0 .. n[t] - 1 /\ P[value'[t]] < z[t] /\ z[t] <= P[value'[t] + 1]
    <3>1. (M - 1) + 1 = M /\ M - 1 \in 0 .. n[t] - 1
      BY <1>3, <2>3
    <3>2. P[M] \in Int
      BY <1>3, <1>4, <2>3
    <3> QED  BY <1>5, <2>1, <2>2, <3>1, <3>2
  <2>6. Inverts(t)'
    BY <1>1, <1>7, <2>1, <2>4, <2>5 DEF Inverts
  <2> QED  BY <2>1, <2>6 DEF SearchInv, AnswerInv
<1>10. CASE ~Found(t) /\ P[M] >= z[t]
  <2>1. Above(t) /\ Narrow(t)
    BY <1>7, <1>10 DEF SearchStep, Above, M
  <2>2. low'[t] = low[t] /\ high'[t] = M - 1
    BY <1>8, <2>1 DEF Narrow, M
  <2>3. M \in low[t] .. high[t] /\ M - 1 \in 0 .. n[t] /\ low[t] - 1 \in 0 .. n[t]
    BY <1>3 DEF M
  <2>4. ~(P[M - 1] < z[t])
    BY <1>7, <1>10, <2>1 DEF Found, M
  <2>5. z[t] <= P[M - 1]
    BY <1>4, <1>5, <2>3, <2>4
  <2>6. M - 1 # low[t] - 1
    BY <1>6, <2>4
  <2>7. low'[t] <= high'[t]
    BY <1>3, <2>2, <2>3, <2>6
  <2>8. pc'[t] = "search"
    BY <1>1, <2>1, <2>7 DEF Narrow
  <2>9. SearchInv(t)'
    BY <1>1, <1>3, <1>6, <1>7, <2>2, <2>3, <2>5, <2>7 DEF SearchInv
  <2> QED  BY <2>8, <2>9 DEF AnswerInv, Answered
<1>11. CASE ~Found(t) /\ ~(P[M] >= z[t])
  <2>1. ~Above(t) /\ Narrow(t)
    BY <1>7, <1>11 DEF SearchStep, Above, M
  <2>2. low'[t] = M + 1 /\ high'[t] = high[t]
    BY <1>8, <2>1 DEF Narrow, M
  <2>3. M \in low[t] .. high[t] /\ M \in 0 .. n[t] /\ M \in Int
    BY <1>3 DEF M
  <2>4. P[M] < z[t]
    BY <1>4, <1>5, <1>11, <2>3
  <2>5. CASE low'[t] <= high'[t]
    <3>1. pc'[t] = "search"
      BY <1>1, <2>1, <2>5 DEF Narrow
    <3>2. (M + 1) - 1 = M
      BY <2>3
    <3>3. P[low'[t] - 1] < z[t]
      BY <2>2, <2>4, <3>2
    <3>4. SearchInv(t)'
      BY <1>1, <1>3, <1>6, <1>7, <2>2, <2>3, <2>5, <3>3 DEF SearchInv
    <3> QED  BY <3>1, <3>4 DEF AnswerInv, Answered
  <2>6. CASE ~(low'[t] <= high'[t])
    <3>1. pc'[t] = "idle" /\ outcome'[t] = "unassigned"
      BY <1>8, <2>1, <2>6 DEF Narrow, Goto
    <3>2. M = high[t]
      BY <1>3, <2>2, <2>3, <2>6
    <3>3. high[t] = n[t]
      BY <1>4, <1>5, <1>6, <2>3, <2>4, <3>2
    <3>4. ~(z[t] <= P[n[t]])
      BY <1>4, <1>5, <2>3, <2>4, <3>2, <3>3
    <3>5. Inverts(t)'
      BY <1>1, <1>7, <3>1, <3>4 DEF Inverts
    <3> QED  BY <3>1, <3>5 DEF SearchInv, AnswerInv
  <2> QED  BY <2>5, <2>6
<1> QED  BY <1>9, <1>10, <1>11

-----------------------------------------------------------------------------
(* Preservation.                                                           *)

(* The invariant is about a thread's own variables, which the steps of     *)
(* others leave alone.                                                     *)
LEMMA Others ==
  ASSUME IndInv, NEW u \in Threads, Step(u), NEW t \in Threads, t # u
  PROVE  /\ pc'[t] = pc[t] /\ calls'[t] = calls[t] /\ n'[t] = n[t]
         /\ table'[t] = table[t] /\ loaded'[t] = loaded[t] /\ z'[t] = z[t]
         /\ low'[t] = low[t] /\ high'[t] = high[t]
         /\ outcome'[t] = outcome[t] /\ value'[t] = value[t]
<1> USE DEF IndInv, TypeOK
<1>1. CASE Call(u)
  BY <1>1 DEF Call, Goto
<1>2. CASE LoadX(u)
  BY <1>2 DEF LoadX, Goto
<1>3. CASE StoreX(u)
  BY <1>3 DEF StoreX, Goto
<1>4. CASE SearchStep(u)
  <2>1. CASE Found(u)
    BY <1>4, <2>1 DEF SearchStep, Goto
  <2>2. CASE ~Found(u)
    BY <1>4, <2>2 DEF SearchStep, Narrow, Goto
  <2> QED  BY <2>1, <2>2
<1>5. CASE SearchOutside(u)
  BY <1>5 DEF SearchOutside, Goto
<1> QED  BY <1>1, <1>2, <1>3, <1>4, <1>5 DEF Step

(* A thread does not notice a step of another one.                         *)
LEMMA Unaffected ==
  ASSUME NEW t \in Threads, ThreadInv(t),
         pc'[t] = pc[t], calls'[t] = calls[t], n'[t] = n[t],
         table'[t] = table[t], loaded'[t] = loaded[t], z'[t] = z[t],
         low'[t] = low[t], high'[t] = high[t],
         outcome'[t] = outcome[t], value'[t] = value[t]
  PROVE  ThreadInv(t)'
<1>1. Regular(t)' = Regular(t) /\ Probs(t)' = Probs(t)
  BY DEF Regular, IndicesFit, Probs
<1>2. LcgInv(t)' /\ TableInv(t)'
  BY DEF ThreadInv, LcgInv, TableInv
<1>3. SearchInv(t)'
  BY <1>1 DEF ThreadInv, SearchInv
<1>4. AnswerInv(t)'
  BY <1>1 DEF ThreadInv, AnswerInv, Answered, Inverts
<1> QED  BY <1>2, <1>3, <1>4 DEF ThreadInv

(* A call starts with an argument and, if it is not the first, a table.    *)
LEMMA CallInv ==
  ASSUME IndInv, NEW t \in Threads, Call(t)
  PROVE  x' \in 1 .. m - 1 /\ ThreadInv(t)'
<1> USE DEF IndInv, TypeOK
<1>1. PICK size \in range : /\ n' = [n EXCEPT ![t] = size]
                            /\ table' = [table EXCEPT ![t] = IF calls[t] = 0 THEN size ELSE @]
  BY DEF Call
<1>2. size \in Sizes
  BY SizesOfRange
<1>3. pc'[t] = "load" /\ calls'[t] = calls[t] + 1 /\ x' = x
  BY DEF Call, Goto
<1>4. n'[t] = size /\ table'[t] = (IF calls[t] = 0 THEN size ELSE table[t])
  BY <1>1
<1>5. calls[t] > 0 => table[t] \in Sizes
  BY DEF ThreadInv, TableInv
<1>6. TableInv(t)'
  BY <1>2, <1>3, <1>4, <1>5 DEF TableInv
<1>7. LcgInv(t)' /\ SearchInv(t)' /\ AnswerInv(t)'
  BY <1>3 DEF LcgInv, SearchInv, AnswerInv, Answered
<1> QED  BY <1>3, <1>6, <1>7 DEF ThreadInv

(* A thread loads a value of the cycle.                                    *)
LEMMA LoadXInv ==
  ASSUME IndInv, NEW t \in Threads, LoadX(t)
  PROVE  x' \in 1 .. m - 1 /\ ThreadInv(t)'
<1> USE DEF IndInv, TypeOK
<1>1. pc[t] = "load" /\ pc'[t] = "store" /\ loaded'[t] = x /\ x' = x
  BY DEF LoadX, Goto
<1>2. UNCHANGED <<calls, n, table>>
  BY DEF LoadX
<1>3. TableInv(t)'
  BY <1>1, <1>2 DEF ThreadInv, TableInv
<1>4. LcgInv(t)' /\ SearchInv(t)' /\ AnswerInv(t)'
  BY <1>1 DEF LcgInv, SearchInv, AnswerInv, Answered
<1> QED  BY <1>1, <1>3, <1>4 DEF ThreadInv

(* The new state is valid, so that it is not drawn again, and the search   *)
(* starts with the whole range.                                            *)
LEMMA StoreXInv ==
  ASSUME IndInv, NEW t \in Threads, StoreX(t)
  PROVE  x' \in 1 .. m - 1 /\ ThreadInv(t)'
<1> USE DEF IndInv, TypeOK
<1>1. pc[t] = "store"
  BY DEF StoreX, Goto
<1>2. x' = (a * loaded[t]) % m /\ x' \in 1 .. m - 1
  BY <1>1, RandValRange DEF StoreX
<1>3. m \in Nat
  BY RandValAssumption
<1>4. pc'[t] = "search"
  BY <1>2, <1>3 DEF StoreX, Goto
<1>5. /\ z'[t] = x' /\ low'[t] = 1 /\ high'[t] = Wrap(n[t])
      /\ UNCHANGED <<calls, n, table, loaded>>
  BY DEF StoreX
<1>6. LcgInv(t)'
  BY <1>1, <1>2, <1>5 DEF ThreadInv, LcgInv
<1>7. TableInv(t)'
  BY <1>1, <1>5 DEF ThreadInv, TableInv
<1>8. SearchInv(t)'
  <2>1. SUFFICES ASSUME Regular(t)'
                 PROVE  SearchInv(t)'
    BY DEF SearchInv
  <2>2. n[t] \in Sizes /\ table[t] \in Sizes
    BY <1>1 DEF ThreadInv, TableInv
  <2>3. n[t] \in Nat \ {0} /\ sum_probs[table[t]][0] = 0
    BY <2>2, TableFacts
  <2>4. Wrap(n[t]) = n[t]
    BY <1>5, <2>1, <2>3, TableAssumption DEF Regular, IndicesFit, Wrap
  <2>5. Probs(t)'[low'[t] - 1] = 0
    BY <1>5, <2>3 DEF Probs
  <2> QED  BY <1>2, <1>3, <1>5, <2>3, <2>4, <2>5 DEF SearchInv
<1>9. AnswerInv(t)'
  BY <1>4 DEF AnswerInv, Answered
<1> QED  BY <1>2, <1>6, <1>7, <1>8, <1>9 DEF ThreadInv

(* A round of the search does not lose the draw.                           *)
LEMMA SearchInvariant ==
  ASSUME IndInv, NEW t \in Threads, SearchStep(t)
  PROVE  x' \in 1 .. m - 1 /\ ThreadInv(t)'
<1>1. pc[t] = "search" /\ UNCHANGED <<x, calls, n, table, loaded, z>>
  BY DEF SearchStep
<1>2. LcgInv(t)' /\ TableInv(t)' /\ x' \in 1 .. m - 1
  BY <1>1 DEF IndInv, ThreadInv, LcgInv, TableInv
<1> QED  BY <1>2, SearchStepInv DEF ThreadInv

(* Only a search that overflows, or one in a table for a smaller range,    *)
(* leaves the table.                                                       *)
LEMMA SearchOutsideInv ==
  ASSUME IndInv, NEW t \in Threads, SearchOutside(t)
  PROVE  x' \in 1 .. m - 1 /\ ThreadInv(t)'
<1> USE DEF IndInv, TypeOK
<1>1. pc[t] = "search" /\ pc'[t] = "undefined" /\ ~InTable(t)
  BY DEF SearchOutside, Goto
<1>2. UNCHANGED <<x, calls, n, table, loaded, z>>
  BY DEF SearchOutside
<1>3. ~Regular(t)
  BY <1>1, MidInInterval
<1>4. ~Regular(t)'
  BY <1>2, <1>3 DEF Regular, IndicesFit
<1>5. LcgInv(t)' /\ TableInv(t)' /\ SearchInv(t)' /\ AnswerInv(t)'
  BY <1>1, <1>2, <1>4 DEF ThreadInv, LcgInv, TableInv, SearchInv, AnswerInv
<1> QED  BY <1>2, <1>5 DEF ThreadInv

(* At first no thread has called zipf.                                     *)
LEMMA InitInv == Init => IndInv
<1> SUFFICES ASSUME Init PROVE IndInv
  OBVIOUS
<1>1. TypeOK /\ x \in 1 .. m - 1
  BY RandValAssumption DEF Init, TypeOK
<1>2. ASSUME NEW t \in Threads
     PROVE  pc[t] = "idle" /\ calls[t] = 0
  BY DEF Init
<1>3. ASSUME NEW t \in Threads
     PROVE  ThreadInv(t)
  BY <1>2 DEF ThreadInv, LcgInv, TableInv, SearchInv, AnswerInv, Answered
<1> QED  BY <1>1, <1>3 DEF IndInv

(* Every step preserves the invariant.                                     *)
LEMMA NextInv ==
  ASSUME IndInv, [Next]_vars
  PROVE  IndInv'
<1>1. TypeOK'
  BY TypeInvariant
<1>2. ASSUME NEW u \in Threads, Step(u)
     PROVE  x' \in 1 .. m - 1 /\ \A t \in Threads : ThreadInv(t)'
  <2>1. x' \in 1 .. m - 1 /\ ThreadInv(u)'
    BY <1>2, CallInv, LoadXInv, StoreXInv, SearchInvariant, SearchOutsideInv DEF Step
  <2>2. ASSUME NEW t \in Threads, t # u
       PROVE  ThreadInv(t)'
    <3>1. ThreadInv(t)
      BY DEF IndInv
    <3> QED  BY <1>2, <2>2, <3>1, Others, Unaffected
  <2> QED  BY <2>1, <2>2
<1>3. ASSUME UNCHANGED vars
     PROVE  x' \in 1 .. m - 1 /\ \A t \in Threads : ThreadInv(t)'
  <2>1. \A t \in Threads : ThreadInv(t)
    BY DEF IndInv
  <2> QED  BY <1>3, <2>1, Unaffected DEF vars, IndInv
<1>4. x' \in 1 .. m - 1 /\ \A t \in Threads : ThreadInv(t)'
  BY <1>2, <1>3 DEF Next, Terminating
<1> QED  BY <1>1, <1>4 DEF IndInv

-----------------------------------------------------------------------------
(* Theorems.                                                               *)

(* The invariant holds in every reachable state.                           *)
LEMMA Invariance == Spec => []IndInv
BY InitInv, NextInv, PTL DEF Spec

(* However the threads race, each call makes of the state that it loaded   *)
(* the next one of the generator, and the shared state stays one of them.  *)
THEOREM GeneratorSound == Spec => []RandValFollowsLcg
<1>1. IndInv => RandValFollowsLcg
  BY DEF IndInv, ThreadInv, LcgInv, RandValFollowsLcg
<1> QED  BY <1>1, Invariance, PTL

(* For every table and every range up to half of the largest int, zipf     *)
(* answers with the number whose interval contains what was drawn, or with *)
(* an unassigned variable exactly if the draw lies beyond the range.       *)
THEOREM InversionSound == Spec => []ZipfInverts
<1>1. IndInv => ZipfInverts
  BY DEF IndInv, ThreadInv, AnswerInv, ZipfInverts
<1> QED  BY <1>1, Invariance, PTL
=============================================================================

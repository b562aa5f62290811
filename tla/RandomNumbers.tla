----------------------------- MODULE RandomNumbers -----------------------------
(***************************************************************************)
(* The zipf-distributed numbers of random benchmarks: utils::zipf with its *)
(* thread-local table, and utils::rand_val, whose state is a static        *)
(* variable that all threads read and write without synchronisation.       *)
(*                                                                         *)
(* rand_val's state is an integer x, its result x / m; probabilities are   *)
(* measured in units of 1 / m.  In the Release build a call loads x once   *)
(* and stores it once, and the result is computed from a register.         *)
(***************************************************************************)
EXTENDS Integers

CONSTANTS NumThreads,
          a,          \* the multiplier of rand_val
          m,          \* its modulus
          Seed,       \* its first state
          Ranges,     \* the numbers of accesses a benchmark draws from
          sum_probs,  \* sum_probs[n]: the table that zipf builds for n
          IntMax,     \* the largest int
          MaxCalls    \* bounds the calls of each thread

Threads == 1 .. NumThreads
Sizes == UNION Ranges

(* m is a prime in the code: no multiple of a that it produces vanishes    *)
ASSUME RandValAssumption ==
  /\ a \in Nat \ {0} /\ m \in Nat \ {0}
  /\ m % a < m \div a
  /\ \A v \in 1 .. m - 1 : (a * v) % m # 0
  /\ Seed \in 1 .. m - 1

(* The sums of the probabilities grow from 0 to 1.  In the code they are   *)
(* rounded: at the end they must exceed the largest result of rand_val.    *)
ASSUME TableAssumption ==
  /\ Sizes \subseteq Nat \ {0} /\ IntMax \in Nat /\ MaxCalls \in Nat
  /\ sum_probs \in [Sizes -> UNION {[0 .. k -> 0 .. m] : k \in Sizes}]
  /\ \A k \in Sizes :
       /\ DOMAIN sum_probs[k] = 0 .. k
       /\ sum_probs[k][0] = 0 /\ sum_probs[k][k] = m
       /\ \A i, j \in 0 .. k : i <= j => sum_probs[k][i] <= sum_probs[k][j]

VARIABLES range,   \* the numbers of accesses in this benchmark's partitions
          x,       \* static long x of rand_val
          pc,      \* per thread: where it is in zipf
          calls,   \* calls so far; the first one builds the table
          n,       \* the argument of the current call
          table,   \* the n for which the table was built, 0: none
          loaded,  \* the value of x that rand_val read
          z,       \* what it made of it
          low, high,
          outcome, \* of the last call
          value    \* zipf's result, if there is one

vars == <<range, x, pc, calls, n, table, loaded, z, low, high, outcome, value>>

Init ==
  /\ range \in Ranges
  /\ x = Seed
  /\ pc = [t \in Threads |-> "idle"]
  /\ outcome = [t \in Threads |-> "none"]
  /\ \E zero \in {[t \in Threads |-> 0]} :
       /\ calls = zero /\ n = zero /\ table = zero /\ loaded = zero
       /\ z = zero /\ low = zero /\ high = zero /\ value = zero

-----------------------------------------------------------------------------
(* rand_val.                                                               *)

q == m \div a
r == m % a

(* Schrage's method: neither product exceeds m                             *)
rand_val(v) ==
  LET x_new == a * (v % q) - r * (v \div q)
  IN IF x_new > 0 THEN x_new ELSE x_new + m

(* Defect: the quotient and the remainder are taken from two loads of x    *)
TornRandVal(v, w) ==
  LET x_new == a * (w % q) - r * (v \div q)
  IN IF x_new > 0 THEN x_new ELSE x_new + m

-----------------------------------------------------------------------------
(* zipf.  Threads interleave at the accesses to x; the steps of the search *)
(* use the thread's own variables only.                                    *)

Goto(t, from, to) == pc[t] = from /\ pc' = [pc EXCEPT ![t] = to]

(* The target of the operation decides the argument; the table is built on *)
(* the first call only.                                                    *)
Call(t) ==
  /\ calls[t] < MaxCalls
  /\ Goto(t, "idle", "load")
  /\ \E size \in range :
       /\ n' = [n EXCEPT ![t] = size]
       /\ table' = [table EXCEPT ![t] = IF calls[t] = 0 THEN size ELSE @]
  /\ calls' = [calls EXCEPT ![t] = @ + 1]
  /\ outcome' = [outcome EXCEPT ![t] = "none"]
  /\ UNCHANGED <<range, x, loaded, z, low, high, value>>

LoadX(t) ==
  /\ Goto(t, "load", "store")
  /\ loaded' = [loaded EXCEPT ![t] = x]
  /\ UNCHANGED <<range, x, calls, n, table, z, low, high, outcome, value>>

Wrap(i) == IF i <= IntMax THEN i ELSE i - 2 * (IntMax + 1)

(* Defect: see TornRandVal                                                 *)
StoreTorn(t) ==
  /\ x' = TornRandVal(loaded[t], x)
  /\ Goto(t, "store", IF x' \in {0, m} THEN "load" ELSE "search")
  /\ z' = [z EXCEPT ![t] = x']
  /\ low' = [low EXCEPT ![t] = 1]
  /\ high' = [high EXCEPT ![t] = Wrap(n[t])]
  /\ UNCHANGED <<range, calls, n, table, loaded, outcome, value>>

(* The results 0 and 1 are drawn again.                                    *)
StoreX(t) ==
  /\ x' = rand_val(loaded[t])
  /\ Goto(t, "store", IF x' \in {0, m} THEN "load" ELSE "search")
  /\ z' = [z EXCEPT ![t] = x']
  /\ low' = [low EXCEPT ![t] = 1]
  /\ high' = [high EXCEPT ![t] = Wrap(n[t])]
  /\ UNCHANGED <<range, calls, n, table, loaded, outcome, value>>

Half(i) == IF i >= 0 THEN i \div 2 ELSE -((-i) \div 2)
mid(t) == Half(Wrap(low[t] + high[t]))

Probs(t) == sum_probs[table[t]]
InTable(t) == mid(t) \in 0 .. table[t]
Above(t) == Probs(t)[mid(t)] >= z[t]
Found(t) == Above(t) /\ Probs(t)[mid(t) - 1] < z[t]

(* Defect: the last element of the interval is not looked at               *)
NarrowWhileSeveral(t) ==
  /\ low' = [low EXCEPT ![t] = IF Above(t) THEN @ ELSE mid(t) + 1]
  /\ high' = [high EXCEPT ![t] = IF Above(t) THEN mid(t) - 1 ELSE @]
  /\ IF low'[t] < high'[t]
     THEN UNCHANGED <<pc, outcome>>
     ELSE /\ Goto(t, "search", "idle")
          /\ outcome' = [outcome EXCEPT ![t] = "unassigned"]

(* Defect: the lower half keeps the middle                                 *)
NarrowKeepingMid(t) ==
  /\ low' = [low EXCEPT ![t] = IF Above(t) THEN @ ELSE mid(t)]
  /\ high' = [high EXCEPT ![t] = IF Above(t) THEN mid(t) - 1 ELSE @]
  /\ IF low'[t] <= high'[t]
     THEN UNCHANGED <<pc, outcome>>
     ELSE /\ Goto(t, "search", "idle")
          /\ outcome' = [outcome EXCEPT ![t] = "unassigned"]

(* An empty interval ends the loop with zipf_value unassigned.             *)
Narrow(t) ==
  /\ low' = [low EXCEPT ![t] = IF Above(t) THEN @ ELSE mid(t) + 1]
  /\ high' = [high EXCEPT ![t] = IF Above(t) THEN mid(t) - 1 ELSE @]
  /\ IF low'[t] <= high'[t]
     THEN UNCHANGED <<pc, outcome>>
     ELSE /\ Goto(t, "search", "idle")
          /\ outcome' = [outcome EXCEPT ![t] = "unassigned"]

SearchStep(t) ==
  /\ pc[t] = "search" /\ InTable(t)
  /\ IF Found(t)
     THEN /\ Goto(t, "search", "idle")
          /\ outcome' = [outcome EXCEPT ![t] = "value"]
          /\ value' = [value EXCEPT ![t] = mid(t) - 1]
          /\ UNCHANGED <<low, high>>
     ELSE Narrow(t) /\ UNCHANGED value
  /\ UNCHANGED <<range, x, calls, n, table, loaded, z>>

(* Memory outside of the table is read: nothing is said of what follows.   *)
SearchOutside(t) ==
  /\ ~InTable(t)
  /\ Goto(t, "search", "undefined")
  /\ outcome' = [outcome EXCEPT ![t] = "undefined"]
  /\ UNCHANGED <<range, x, calls, n, table, loaded, z, low, high, value>>

Step(t) == Call(t) \/ LoadX(t) \/ StoreX(t) \/ SearchStep(t) \/ SearchOutside(t)

Ended(t) == pc[t] = "undefined" \/ (pc[t] = "idle" /\ calls[t] = MaxCalls)
Terminating == (\A t \in Threads : Ended(t)) /\ UNCHANGED vars

Next == (\E t \in Threads : Step(t)) \/ Terminating

Spec == Init /\ [][Next]_vars /\ \A t \in Threads : WF_vars(Step(t))

-----------------------------------------------------------------------------
(* Properties.                                                             *)

TypeOK ==
  /\ range \in Ranges /\ x \in Int
  /\ pc \in [Threads -> {"idle", "load", "store", "search", "undefined"}]
  /\ outcome \in [Threads -> {"none", "value", "unassigned", "undefined"}]
  /\ calls \in [Threads -> Nat] /\ n \in [Threads -> Nat] /\ table \in [Threads -> Nat]
  /\ loaded \in [Threads -> Int] /\ z \in [Threads -> Int]
  /\ low \in [Threads -> Int] /\ high \in [Threads -> Int] /\ value \in [Threads -> Int]

(* utils.cpp:186: x_n = a * x_(n-1) mod m, although other threads write x  *)
(* between the load and the store of a call, and although the product is   *)
(* never computed.  The state never becomes 0 or m, from which it would    *)
(* not move again and zipf would draw forever.                             *)
RandValFollowsLcg ==
  /\ x \in 1 .. m - 1
  /\ \A t \in Threads :
       pc[t] = "search" => z[t] = (a * loaded[t]) % m /\ z[t] \in 1 .. m - 1

(* The indices of the search can be added                                  *)
IndicesFit(t) == 2 * n[t] <= IntMax
Regular(t) == n[t] <= table[t] /\ IndicesFit(t)
Answered(t) == pc[t] = "undefined" \/ (pc[t] = "idle" /\ calls[t] > 0)

Inverts(t) ==
  IF z[t] <= Probs(t)[n[t]]
  THEN /\ outcome[t] = "value" /\ value[t] \in 0 .. n[t] - 1
       /\ Probs(t)[value[t]] < z[t] /\ z[t] <= Probs(t)[value[t] + 1]
  ELSE outcome[t] = "unassigned"

(* With a table for n, zipf inverts the distribution: it returns the       *)
(* number whose interval of sum_probs contains z.  With a table for a      *)
(* larger range (a hybrid benchmark draws from two) exactly the draws      *)
(* beyond the range are lost: zipf_value stays unassigned.  The search     *)
(* does not leave the table.                                               *)
ZipfInverts ==
  \A t \in Threads : Answered(t) /\ Regular(t) => Inverts(t)

(* Every call comes to its end: neither drawing again nor the search goes  *)
(* on forever, whatever the other threads write into x.                    *)
EveryCallReturns ==
  \A t \in Threads : pc[t] = "load" ~> pc[t] \in {"idle", "undefined"}
=============================================================================

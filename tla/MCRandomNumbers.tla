---------------------------- MODULE MCRandomNumbers ----------------------------
(* Small tables for RandomNumbers, in sevenths.                              *)
EXTENDS RandomNumbers

(* One range, or those of PMem and DRAM                                    *)
SmallRanges == {{1}, {4}, {2, 4}, {3, 5}}

Table(size, probs) == [i \in 0 .. size |-> IF i = 0 THEN 0 ELSE probs[i]]

SmallTables ==
  [size \in {1, 2, 3, 4, 5} |->
     CASE size = 1 -> Table(1, <<7>>)
       [] size = 2 -> Table(2, <<5, 7>>)
       [] size = 3 -> Table(3, <<4, 6, 7>>)
       [] size = 4 -> Table(4, <<3, 5, 6, 7>>)
       [] size = 5 -> Table(5, <<3, 4, 5, 6, 7>>)]
=============================================================================

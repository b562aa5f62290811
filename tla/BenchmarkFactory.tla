---------------------------- MODULE BenchmarkFactory ----------------------------
(***************************************************************************)
(* From YAML to configurations: BenchmarkConfig::decode with its visited   *)
(* tags, and BenchmarkFactory's recursion over a matrix, which shares one  *)
(* current_config among all combinations.                                  *)
(*                                                                         *)
(* A YAML map is a sequence of entries, a key and a node; a scalar node    *)
(* has an identity, which an alias shares, data, which carry the tag, and  *)
(* a value.  Of the options only some keys are kept; custom operations are *)
(* Operations' subject.  yaml-cpp is external: a lookup finds the first    *)
(* entry of a key; an assignment gives a node, and thus its aliases, the   *)
(* data of another; a clone has data of its own and keeps tags and aliases.*)
(***************************************************************************)
EXTENDS Numa, SequencesExt

CONSTANTS Documents,  \* sequences of entries, see Arguments
          Keys,       \* the options that decode knows
          Default     \* their values in a new BenchmarkConfig

Node(id, value) == [id |-> id, data |-> id, value |-> value]
Pair(key, node) == [key |-> key, node |-> node]

(* A node of the file has its own data.                                    *)
Loaded(node) == node.id \in Nat \ {0} /\ node.data = node.id

(* The arguments of a single benchmark or of one side of a parallel one.   *)
(* kind is that of 'matrix': none, map, or other; has_args that of 'args'. *)
Arguments(single, has_args, args, kind, matrix) ==
  [single |-> single, has_args |-> has_args, args |-> args,
   kind |-> kind, matrix |-> matrix]

(* An entry of a matrix: a sequence, null, or another node                 *)
MatrixArg(key, kind, values) == [key |-> key, kind |-> kind, values |-> values]

(* The arguments of all single benchmarks come first, then those of the    *)
(* parallel ones, in pairs.                                                *)
ASSUME DocumentsAssumption ==
  \A doc \in Documents :
    LET singles == {j \in DOMAIN doc : doc[j].single}
    IN /\ doc \in Seq(Range(doc))
       /\ singles = 1 .. Cardinality(singles)
       /\ (Len(doc) - Cardinality(singles)) % 2 = 0
       /\ \A j \in DOMAIN doc :
            /\ doc[j].args \in Seq(Range(doc[j].args))
            /\ doc[j].matrix \in Seq(Range(doc[j].matrix))
            /\ \A i \in DOMAIN doc[j].args : Loaded(doc[j].args[i].node)
            /\ \A l \in DOMAIN doc[j].matrix :
                 /\ doc[j].matrix[l].values \in Seq(Range(doc[j].matrix[l].values))
                 /\ \A v \in DOMAIN doc[j].matrix[l].values : Loaded(doc[j].matrix[l].values[v])

VARIABLES document,       \* the arguments in the order in which they are decoded
          visited,        \* the data of the nodes with VISITED_TAG
          current,        \* the arguments being decoded
          mode,           \* of the recursion: none, enter, return
          indices,        \* the values chosen so far, one per level
          current_config, \* shared by the whole recursion
          configs,        \* per arguments, the configurations created
          error           \* what invalid_argument said

factory_vars ==
  <<document, visited, current, mode, indices, current_config, configs, error>>

FactoryInit ==
  /\ document \in Documents
  /\ visited = {} /\ current = 1 /\ mode = "none"
  /\ indices = <<>> /\ current_config = <<>>
  /\ configs = [j \in DOMAIN document |-> <<>>]
  /\ error = "none"

-----------------------------------------------------------------------------
(* BenchmarkConfig::decode.                                                *)

Occurs(map, key) == \E i \in DOMAIN map : map[i].key = key

(* The first node of a key                                                 *)
NodeOf(map, key) ==
  map[CHOOSE i \in DOMAIN map :
        map[i].key = key /\ \A j \in 1 .. i - 1 : map[j].key # key].node

Found(map) == {key \in Keys : Occurs(map, key)}
Read(map) == {NodeOf(map, key) : key \in Found(map)}

Tagged(map, tags) == tags \cup {node.data : node \in Read(map)}

(* ensure_unique_key throws: a node is read that was tagged before         *)
DuplicateEntry(map, tags) ==
  \E key \in Found(map) :
    \/ NodeOf(map, key).data \in tags
    \/ \E other \in Found(map) \ {key} : NodeOf(map, other).data = NodeOf(map, key).data

(* The keys found are fewer than the entries, and an entry was not tagged  *)
UnknownEntry(map, tags) ==
  /\ ~DuplicateEntry(map, tags)
  /\ Len(map) # Cardinality(Found(map))
  /\ \E i \in DOMAIN map : map[i].node.data \notin Tagged(map, tags)

Decodes(map, tags) == ~DuplicateEntry(map, tags) /\ ~UnknownEntry(map, tags)

Config(map) ==
  [key \in Keys |-> IF Occurs(map, key) THEN NodeOf(map, key).value ELSE Default[key]]

(* What validate asks of these options.  has_far_numa_nodes ends the       *)
(* program with --no-numa, which is as good as no.                         *)
Valid(config) ==
  /\ config["number_threads"] # "0"
  /\ config["numa_pattern"] = "near" \/ has_far_numa_nodes

-----------------------------------------------------------------------------
(* BenchmarkFactory.                                                       *)

Arg == document[current]
Remaining == current <= Len(document) /\ error = "none"
NextArguments == current' = current + 1

Throw(what) ==
  /\ error' = what
  /\ UNCHANGED <<document, visited, current, mode, indices, current_config, configs>>

(* Neither arguments without 'args', nor a matrix that is no map           *)
Malformed ==
  /\ Remaining /\ mode = "none"
  /\ ~Arg.has_args \/ Arg.kind = "other"
  /\ Throw("malformed")

(* Without a matrix the arguments themselves are decoded, and tagged.      *)
DecodeArgs ==
  /\ Remaining /\ mode = "none" /\ Arg.has_args /\ Arg.kind = "none"
  /\ Decodes(Arg.args, visited) /\ Valid(Config(Arg.args))
  /\ visited' = Tagged(Arg.args, visited)
  /\ configs' = [configs EXCEPT ![current] = <<Config(Arg.args)>>]
  /\ NextArguments
  /\ UNCHANGED <<document, mode, indices, current_config, error>>

(* The data of a clone are negative.                                       *)
Clone(map) ==
  [i \in DOMAIN map |->
     LET node == map[i].node
     IN Pair(map[i].key, [id |-> node.id, data |-> -node.data, value |-> node.value])]

StartMatrix ==
  /\ Remaining /\ mode = "none" /\ Arg.has_args /\ Arg.kind = "map"
  /\ mode' = "enter" /\ indices' = <<>>
  /\ current_config' = Clone(Arg.args)
  /\ visited' = visited \cup {-data : data \in visited}
  /\ UNCHANGED <<document, current, configs, error>>

Level == Len(indices) + 1

(* Defect: the last argument ends the recursion                            *)
AtLeafEarly == Level < Len(Arg.matrix) => Arg.matrix[Level].kind = "null"

(* The end of the recursion: behind the last argument, or at a null one    *)
AtLeaf == Level <= Len(Arg.matrix) => Arg.matrix[Level].kind = "null"

(* Defect: the configuration is decoded without being cloned               *)
LeafInPlace ==
  /\ Remaining /\ mode = "enter" /\ AtLeaf
  /\ Decodes(current_config, visited) /\ Valid(Config(current_config))
  /\ visited' = Tagged(current_config, visited)
  /\ configs' = [configs EXCEPT ![current] = Append(@, Config(current_config))]
  /\ mode' = "return"
  /\ UNCHANGED <<document, current, indices, current_config, error>>

(* A clone is decoded: the tags of the original stay as they are.          *)
Leaf ==
  /\ Remaining /\ mode = "enter" /\ AtLeaf
  /\ Decodes(current_config, visited) /\ Valid(Config(current_config))
  /\ configs' = [configs EXCEPT ![current] = Append(@, Config(current_config))]
  /\ mode' = "return"
  /\ UNCHANGED <<document, visited, current, indices, current_config, error>>

(* What decode is given                                                    *)
Decoding ==
  \/ mode = "none" /\ Arg.has_args /\ Arg.kind = "none"
  \/ mode = "enter" /\ AtLeaf
Input == IF mode = "none" THEN Arg.args ELSE current_config

DecodeThrows ==
  /\ Remaining /\ Decoding
  /\ \/ DuplicateEntry(Input, visited) /\ Throw("duplicate")
     \/ UnknownEntry(Input, visited) /\ Throw("unknown")

(* validate ends the program.                                              *)
ValidateFails ==
  /\ Remaining /\ Decoding
  /\ Decodes(Input, visited) /\ ~Valid(Config(Input))
  /\ Throw("invalid")

NotASequence ==
  /\ Remaining /\ mode = "enter" /\ ~AtLeaf
  /\ Arg.matrix[Level].kind = "other"
  /\ Throw("malformed")

Copy(node, id) == [id |-> id, data |-> node.data, value |-> node.value]

(* current_config[key] = node                                              *)
Assign(map, key, node) ==
  IF Occurs(map, key)
  THEN LET old == NodeOf(map, key)
       IN [i \in DOMAIN map |->
             IF map[i].node.id = old.id
             THEN Pair(map[i].key, Copy(node, old.id)) ELSE map[i]]
  ELSE Append(map, Pair(key, Copy(node, -Len(map) - 1)))

Choose(level, i) ==
  current_config' = Assign(current_config, Arg.matrix[level].key,
                           Arg.matrix[level].values[i])

(* The loop over the values of an argument: its first value, ...           *)
Descend ==
  /\ Remaining /\ mode = "enter" /\ ~AtLeaf
  /\ Arg.matrix[Level].kind = "sequence"
  /\ IF Arg.matrix[Level].values = <<>>
     THEN mode' = "return" /\ UNCHANGED <<indices, current_config>>
     ELSE Choose(Level, 1) /\ indices' = Append(indices, 1) /\ UNCHANGED mode
  /\ UNCHANGED <<document, visited, current, configs, error>>

(* ... the next one, ...                                                   *)
NextValue ==
  /\ Remaining /\ mode = "return" /\ indices # <<>>
  /\ Last(indices) < Len(Arg.matrix[Len(indices)].values)
  /\ Choose(Len(indices), Last(indices) + 1)
  /\ indices' = [indices EXCEPT ![Len(indices)] = @ + 1]
  /\ mode' = "enter"
  /\ UNCHANGED <<document, visited, current, configs, error>>

(* ... and the return after the last.                                      *)
Return ==
  /\ Remaining /\ mode = "return"
  /\ indices # <<>> => Last(indices) = Len(Arg.matrix[Len(indices)].values)
  /\ IF indices # <<>>
     THEN indices' = SubSeq(indices, 1, Len(indices) - 1) /\ UNCHANGED <<mode, current>>
     ELSE NextArguments /\ mode' = "none" /\ UNCHANGED indices
  /\ UNCHANGED <<document, visited, current_config, configs, error>>

FactoryNext ==
  \/ Malformed \/ DecodeArgs \/ StartMatrix
  \/ Leaf \/ DecodeThrows \/ ValidateFails \/ NotASequence
  \/ Descend \/ NextValue \/ Return
=============================================================================

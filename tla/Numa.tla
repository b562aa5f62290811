--------------------------------- MODULE Numa ---------------------------------
(***************************************************************************)
(* NUMA placement (numa.cpp): which nodes the main thread is bound to when *)
(* the program starts, and where the threads of far benchmarks go.  The    *)
(* machine and libnuma are external: a binding is the set of nodes whose   *)
(* CPUs a thread may use; threads inherit it from the thread that creates  *)
(* them.                                                                   *)
(***************************************************************************)
EXTENDS Integers, FiniteSets, Functions

CONSTANTS Machines   \* see Machine

(* nodes: the ids of the configured nodes, which need not be contiguous;   *)
(* cpu_nodes: those with CPUs; far_apart: the pairs of nodes at a distance *)
(* of at least NUMA_FAR_DISTANCE (unknown ones are 0); pmem_node: what     *)
(* get_mempolicy says of a PMem page; available: numa_available();         *)
(* has_numa: HAS_NUMA of the build                                         *)
Machine(nodes, cpu_nodes, far_apart, pmem_node, available, has_numa) ==
  [nodes |-> nodes, cpu_nodes |-> cpu_nodes, far_apart |-> far_apart,
   pmem_node |-> pmem_node, available |-> available, has_numa |-> has_numa]

(* Only nodes have CPUs and distances; none is far from itself.            *)
ASSUME MachinesAssumption ==
  \A mc \in Machines :
    /\ IsFiniteSet(mc.nodes) /\ mc.nodes \subseteq Nat
    /\ mc.cpu_nodes \subseteq mc.nodes /\ mc.pmem_node \in Int
    /\ mc.far_apart \subseteq SUBSET mc.nodes
    /\ \A node \in mc.nodes : {node} \notin mc.far_apart
    /\ mc.has_numa \in BOOLEAN /\ mc.available \in BOOLEAN

VARIABLES machine,
          run_mask,    \* the nodes the main thread may run on
          IGNORE_NUMA  \* --no-numa

numa_vars == <<machine, run_mask, IGNORE_NUMA>>

num_numa_nodes == Cardinality(machine.nodes)

(* The ids that the loops over the nodes visit                             *)
Visited == 0 .. num_numa_nodes - 1

IsFar(i, j) == {i, j} \in machine.far_apart

(* numa_run_on_node_mask: without a CPU the call fails, and its result is  *)
(* not looked at.                                                          *)
numa_run_on_node_mask(mask, nodes) ==
  IF nodes \cap machine.cpu_nodes = {} THEN mask ELSE nodes \cap machine.cpu_nodes

(* The binding that the process is started with: all nodes, or what        *)
(* numactl left of them                                                    *)
NumaInit ==
  /\ machine \in Machines
  /\ run_mask \in SUBSET machine.cpu_nodes \ {{}}
  /\ IGNORE_NUMA = FALSE

-----------------------------------------------------------------------------
(* Binding the main thread.                                                *)

(* An undetected node leads to no node at all.  A node that is itself not  *)
(* visited leaves a gap, which is near: the result is visited.             *)
auto_detect_numa(num) ==
  LET numa_node == machine.pmem_node
      near == {o \in Visited : ~IsFar(numa_node, o)}
  IN IF numa_node < 0 \/ numa_node > num THEN {}
     ELSE IF near = {} THEN {numa_node} ELSE near

TooLarge(nodes) == \E node \in nodes : node >= num_numa_nodes

set_numa_nodes(nodes) ==
  /\ ~TooLarge(nodes)
  /\ run_mask' = numa_run_on_node_mask(run_mask, nodes)

(* init_numa returns.                                                      *)
init_numa(arg_nodes, is_dram, ignore_numa) ==
  /\ UNCHANGED machine
  /\ IGNORE_NUMA' = ignore_numa
  /\ \/ ignore_numa /\ UNCHANGED run_mask
     \/ /\ ~ignore_numa /\ ~machine.has_numa /\ arg_nodes = <<>>
        /\ UNCHANGED run_mask
     \/ /\ ~ignore_numa /\ machine.has_numa /\ machine.available
        /\ \/ /\ arg_nodes # <<>> /\ Cardinality(DOMAIN arg_nodes) <= num_numa_nodes
              /\ set_numa_nodes(Range(arg_nodes))
           \/ /\ arg_nodes = <<>> /\ (num_numa_nodes < 2 \/ is_dram)
              /\ UNCHANGED run_mask
           \/ /\ arg_nodes = <<>> /\ num_numa_nodes >= 2 /\ ~is_dram
              /\ set_numa_nodes(auto_detect_numa(num_numa_nodes))

(* It throws: main is not yet in its try block.  Detection may fail to     *)
(* create its file.                                                        *)
init_numa_throws(arg_nodes, is_dram, ignore_numa) ==
  /\ ~ignore_numa
  /\ \/ ~machine.has_numa /\ arg_nodes # <<>>
     \/ machine.has_numa /\ ~machine.available
     \/ /\ machine.has_numa /\ machine.available
        /\ \/ Cardinality(DOMAIN arg_nodes) > num_numa_nodes
           \/ TooLarge(Range(arg_nodes))
           \/ arg_nodes = <<>> /\ num_numa_nodes >= 2 /\ ~is_dram
  /\ UNCHANGED numa_vars

-----------------------------------------------------------------------------
(* Far nodes.                                                              *)

(* Defect: a node is far that is not set                                   *)
AnyOtherNode(mask) == Visited \ mask

(* Far from all nodes that are set                                         *)
get_far_nodes(mask) ==
  {f \in Visited \ mask : \A s \in Visited \cap mask : IsFar(f, s)}

(* With --no-numa the question itself ends the program.                    *)
has_far_numa_nodes ==
  ~IGNORE_NUMA /\ machine.has_numa /\ get_far_nodes(run_mask) # {}

(* The binding of a thread with the binding mask after the call            *)
set_to_far_cpus(mask) == numa_run_on_node_mask(mask, get_far_nodes(mask))
=============================================================================

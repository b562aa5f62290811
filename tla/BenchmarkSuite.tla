---------------------------- MODULE BenchmarkSuite ----------------------------
(***************************************************************************)
(* The life of one process: BenchmarkFactory turns the YAML entries into   *)
(* benchmarks and decides who shares a data file,                          *)
(* BenchmarkSuite::run_benchmarks runs them one after the other, writes    *)
(* the results of a matrix when the next benchmark starts, and tears down; *)
(* main cleans up.  What happens inside run() is BenchmarkRun's subject:   *)
(* here it succeeds, fails, or is killed by a SIGBUS, for which there is   *)
(* no handler.                                                             *)
(*                                                                         *)
(* A config is reduced to whether it reads and writes and to its           *)
(* memory_range; a result to the benchmark it is a result of.              *)
(***************************************************************************)
EXTENDS Integers, SequencesExt

CONSTANTS Suites   \* sequences of YAML entries, see Entry

(* An entry: a single benchmark has its configs in one; the configs of a   *)
(* parallel benchmark are the product of one and two.                      *)
Entry(name, parallel, matrix, one, two) ==
  [name |-> name, parallel |-> parallel, matrix |-> matrix, one |-> one, two |-> two]

(* A config of an operation reads or writes (contains_read_op and          *)
(* contains_write_op), or both if it is a custom one.                      *)
ASSUME SuitesAssumption ==
  \A suite \in Suites :
    /\ suite \in Seq(Range(suite))
    /\ \A e \in DOMAIN suite :
         /\ suite[e].parallel \in BOOLEAN /\ suite[e].matrix \in BOOLEAN
         /\ \A configs \in {suite[e].one, suite[e].two} :
              /\ configs \in Seq(Range(configs))
              /\ \A c \in DOMAIN configs :
                   /\ configs[c].read \in BOOLEAN /\ configs[c].write \in BOOLEAN
                   /\ configs[c].read \/ configs[c].write
                   /\ configs[c].range \in Nat

VARIABLES benchmarks,        \* singles, then parallels
          is_pmem,           \* not --dram
          pc,                \* where run_benchmarks is
          i,                 \* the current benchmark
          previous_bm,       \* the last benchmark that ran; 0: none
          matrix_bm_results, \* results not yet written
          result_file,       \* the JSON array of the result file
          files,             \* the PMem directory
          mapped,            \* the regions <<benchmark, index>> in pmem_data_
          completed          \* history: the benchmarks whose run succeeded

vars == <<benchmarks, is_pmem, pc, i, previous_bm, matrix_bm_results,
          result_file, files, mapped, completed>>

-----------------------------------------------------------------------------
(* BenchmarkFactory.  Random file names are distinct: own files are named  *)
(* after the entry, the configs and the region, shared ones after the      *)
(* entry and the region alone.                                             *)

OwnFile(e, c, d, r) == <<e, c, d, r>>
SharedFile(e, r) == <<e, 0, 0, r>>

Region(config, file, owns) == [config |-> config, file |-> file, owns_pmem_file |-> owns]
Own(config, file) == Region(config, file, TRUE)
Shared(config, file) == Region(config, file, FALSE)

(* Defect: the configs of a matrix share a file whether they write or not  *)
ShareWholeMatrix(suite, e, c) ==
  LET config == suite[e].one[c]
  IN [name |-> suite[e].name, entry |-> e,
      regions |-> << IF suite[e].matrix THEN Shared(config, SharedFile(e, 1))
                     ELSE Own(config, OwnFile(e, c, 0, 1)) >>]

SingleBenchmark(suite, e, c) ==
  LET config == suite[e].one[c]
  IN [name |-> suite[e].name, entry |-> e,
      regions |-> << IF suite[e].matrix /\ ~config.write
                     THEN Shared(config, SharedFile(e, 1))
                     ELSE Own(config, OwnFile(e, c, 0, 1)) >>]

(* If only the first config writes, the two are swapped: the constructor   *)
(* with one shared file expects the reader first.                          *)
ParallelBenchmark(suite, e, c, d) ==
  LET one == suite[e].one[c]
      two == suite[e].two[d]
      own(config, r) == Own(config, OwnFile(e, c, d, r))
      shared(config, r) == Shared(config, SharedFile(e, r))
  IN [name |-> suite[e].name, entry |-> e,
      regions |-> CASE one.write /\ two.write   -> <<own(one, 1), own(two, 2)>>
                    [] one.write /\ ~two.write  -> <<shared(two, 2), own(one, 1)>>
                    [] ~one.write /\ two.write  -> <<shared(one, 1), own(two, 2)>>
                    [] OTHER                    -> <<shared(one, 1), shared(two, 2)>>]

create_single_benchmarks(suite) ==
  FlattenSeq([e \in DOMAIN suite |->
    IF suite[e].parallel THEN <<>>
    ELSE [c \in DOMAIN suite[e].one |-> SingleBenchmark(suite, e, c)]])

create_parallel_benchmarks(suite) ==
  FlattenSeq([e \in DOMAIN suite |->
    IF ~suite[e].parallel THEN <<>>
    ELSE FlattenSeq([c \in DOMAIN suite[e].one |->
           [d \in DOMAIN suite[e].two |-> ParallelBenchmark(suite, e, c, d)]])])

Init ==
  /\ \E suite \in Suites :
       benchmarks = create_single_benchmarks(suite) \o create_parallel_benchmarks(suite)
  /\ is_pmem \in BOOLEAN
  /\ pc = "next" /\ i = 1 /\ previous_bm = 0
  /\ matrix_bm_results = <<>> /\ result_file = <<>>
  /\ files = <<>> /\ mapped = {}
  /\ completed = <<>>

Regions(b) == benchmarks[b].regions

-----------------------------------------------------------------------------
(* Data files.                                                             *)

(* create_pmem_data_file: an existing file is mapped as it is              *)
CreateFile(fs, region) ==
  IF region.file \in DOMAIN fs THEN fs
  ELSE [f \in DOMAIN fs \cup {region.file} |->
          IF f = region.file THEN [length |-> region.config.range,
                                   read_data |-> region.config.read]
                             ELSE fs[f]]

(* Defect: read data is generated for the first region only                *)
CreateUnprepared(b, n) ==
  IF is_pmem
  THEN FoldLeft(CreateFile, files,
         [r \in 1 .. n |-> IF r = 1 THEN Regions(b)[r]
                           ELSE [Regions(b)[r] EXCEPT !.config.read = FALSE]])
  ELSE files

CreateFiles(b, n) ==
  IF is_pmem THEN FoldLeft(CreateFile, files, SubSeq(Regions(b), 1, n)) ELSE files

(* Defect: a forced tear down removes owned files only                     *)
RemovedIfOwned(b, force) ==
  {Regions(b)[r].file : r \in {s \in DOMAIN Regions(b) :
                                 is_pmem /\ Regions(b)[s].owns_pmem_file}}

Removed(b, force) ==
  {Regions(b)[r].file : r \in {s \in DOMAIN Regions(b) :
                                 is_pmem /\ (Regions(b)[s].owns_pmem_file \/ force)}}

(* Defect: data is unmapped by a forced tear down only                     *)
TearDownLeavesMapped(b, force) ==
  /\ mapped' = IF force THEN {m \in mapped : m[1] # b} ELSE mapped
  /\ files' = [f \in DOMAIN files \ Removed(b, force) |-> files[f]]

tear_down(b, force) ==
  /\ mapped' = {m \in mapped : m[1] # b}
  /\ files' = [f \in DOMAIN files \ Removed(b, force) |-> files[f]]

-----------------------------------------------------------------------------
(* BenchmarkSuite::run_benchmarks.                                         *)

Goto(from, to) == pc = from /\ pc' = to

(* Defect: every benchmark starts a matrix of its own                      *)
StartsAlways == previous_bm # 0

StartsMatrix == previous_bm # 0 /\ benchmarks[previous_bm].name # benchmarks[i].name

write_benchmark_results ==
  result_file' = Append(result_file, [bm |-> previous_bm, results |-> matrix_bm_results])

(* A benchmark of another name: the results of the previous ones are       *)
(* written and its data is deleted.                                        *)
FlushPrevious ==
  /\ Goto("next", "create")
  /\ i <= Len(benchmarks) /\ StartsMatrix
  /\ write_benchmark_results
  /\ matrix_bm_results' = <<>>
  /\ tear_down(previous_bm, TRUE)
  /\ UNCHANGED <<benchmarks, is_pmem, i, previous_bm, completed>>

Continue ==
  /\ Goto("next", "create")
  /\ i <= Len(benchmarks) /\ ~StartsMatrix
  /\ UNCHANGED <<benchmarks, is_pmem, i, previous_bm, matrix_bm_results,
                 result_file, files, mapped, completed>>

(* create_data_files and set_up                                            *)
CreateDataFiles ==
  /\ Goto("create", "run")
  /\ files' = CreateFiles(i, Len(Regions(i)))
  /\ mapped' = mapped \cup {<<i, r>> : r \in DOMAIN Regions(i)}
  /\ UNCHANGED <<benchmarks, is_pmem, i, previous_bm, matrix_bm_results,
                 result_file, completed>>

(* A file cannot be created, opened or mapped: the exception leaves        *)
(* run_benchmarks, which writes and deletes nothing.  The file at hand may *)
(* have been created already: still empty, or not yet with data.           *)
CreateThrows ==
  /\ Goto("create", "terminated")
  /\ \E n \in 0 .. Len(Regions(i)) :
       \/ files' = CreateFiles(i, n)
       \/ /\ is_pmem /\ n < Len(Regions(i))
          /\ \E length \in {0, Regions(i)[n + 1].config.range} :
               files' = CreateFile(CreateFiles(i, n),
                          [Regions(i)[n + 1] EXCEPT !.config.range = length,
                                                    !.config.read = FALSE])
  /\ mapped' = {}
  /\ UNCHANGED <<benchmarks, is_pmem, i, previous_bm, matrix_bm_results,
                 result_file, completed>>

RunSucceeds ==
  /\ Goto("run", "next")
  /\ previous_bm' = i
  /\ i' = i + 1
  /\ matrix_bm_results' = Append(matrix_bm_results, i)
  /\ completed' = Append(completed, i)
  /\ tear_down(i, FALSE)
  /\ UNCHANGED <<benchmarks, is_pmem, result_file>>

(* A segmentation fault: break out of the loop with had_error.             *)
RunFails ==
  /\ Goto("run", "had_error")
  /\ previous_bm' = i
  /\ UNCHANGED <<benchmarks, is_pmem, i, matrix_bm_results, result_file,
                 files, mapped, completed>>

BeyondFile(b, r) ==
  is_pmem /\ Regions(b)[r].config.range > files[Regions(b)[r].file].length

(* An access beyond the end of the mapped file kills the process.          *)
RunKilled ==
  /\ Goto("run", "terminated")
  /\ \E r \in DOMAIN Regions(i) : BeyondFile(i, r)
  /\ mapped' = {}
  /\ UNCHANGED <<benchmarks, is_pmem, i, previous_bm, matrix_bm_results,
                 result_file, files, completed>>

(* The results after the loop; main's remove_all removes a file named "*", *)
(* which does not exist.                                                   *)
Finish ==
  /\ Goto("next", "finished")
  /\ i > Len(benchmarks)
  /\ IF benchmarks = <<>>
     THEN UNCHANGED <<matrix_bm_results, result_file, files, mapped>>
     ELSE /\ write_benchmark_results
          /\ tear_down(previous_bm, TRUE)
          /\ matrix_bm_results' = <<>>
  /\ UNCHANGED <<benchmarks, is_pmem, i, previous_bm, completed>>

(* Defect: an error skips the results after the loop                       *)
FailWithoutResults ==
  /\ Goto("had_error", "terminated")
  /\ tear_down(previous_bm, TRUE)
  /\ UNCHANGED <<benchmarks, is_pmem, i, previous_bm, matrix_bm_results,
                 result_file, completed>>

(* The same after an error; crash_exit then ends the process (BenchmarkRun) *)
FinishWithError ==
  /\ Goto("had_error", "terminated")
  /\ write_benchmark_results
  /\ matrix_bm_results' = <<>>
  /\ tear_down(previous_bm, TRUE)
  /\ UNCHANGED <<benchmarks, is_pmem, i, previous_bm, completed>>

Next == \/ FlushPrevious \/ Continue
        \/ CreateDataFiles \/ CreateThrows
        \/ RunSucceeds \/ RunFails \/ RunKilled
        \/ Finish \/ FinishWithError
        \/ pc \in {"finished", "terminated"} /\ UNCHANGED vars

Spec == Init /\ [][Next]_vars

-----------------------------------------------------------------------------
(* Properties.                                                             *)

Benchmarks == DOMAIN benchmarks

(* The factory gives a config that writes a data file that no other        *)
(* benchmark and no other region uses, in every combination of reading and *)
(* writing configs: what a benchmark reads is never overwritten.           *)
WritersOwnTheirFiles ==
  \A b, c \in Benchmarks : \A r \in DOMAIN Regions(b), q \in DOMAIN Regions(c) :
    Regions(b)[r].config.write /\ Regions(b)[r].file = Regions(c)[q].file
      => b = c /\ r = q

Written == FlattenSeq([k \in DOMAIN result_file |-> result_file[k].results])

(* The result of each completed benchmark is kept once and in order: on    *)
(* its way or in the result file, and in the file when the loop has ended, *)
(* also when a segmentation fault ended it.                                *)
ResultsComplete ==
  /\ Written \o matrix_bm_results = completed
  /\ pc = "finished" => Written = completed /\ Len(completed) = Len(benchmarks)
  /\ pc = "terminated" /\ previous_bm = i => Written = completed

(* An entry of the result file holds the results of benchmarks of its own  *)
(* name, and the results of a matrix are not scattered over entries.       *)
GroupedByName ==
  /\ \A k \in DOMAIN result_file : \A n \in ToSet(result_file[k].results) :
       benchmarks[n].name = benchmarks[result_file[k].bm].name
  /\ \A k \in 2 .. Len(result_file) :
       benchmarks[result_file[k].bm].name # benchmarks[result_file[k - 1].bm].name

(* While a benchmark runs, its regions and no others are mapped: the data  *)
(* of the benchmarks before it, forced or not, was unmapped.               *)
OnlyCurrentMapped ==
  mapped = IF pc \in {"run", "had_error"}
           THEN {<<i, r>> : r \in DOMAIN Regions(i)} ELSE {}

(* The inductive invariant of the loop: benchmarks complete in order, what *)
(* is not written yet belongs to the name at hand, and the last entry of   *)
(* the file to another one.                                                *)
LoopInv ==
  /\ pc \in {"next", "create", "run", "had_error", "finished", "terminated"}
  /\ i \in 1 .. Len(benchmarks) + 1
  /\ pc \in {"create", "run", "had_error"} => i <= Len(benchmarks)
  /\ pc \in {"next", "create", "run", "finished"} => previous_bm = i - 1
  /\ pc = "had_error" => previous_bm = i
  /\ previous_bm \in 0 .. Len(benchmarks)
  /\ previous_bm = 0 => matrix_bm_results = <<>> /\ result_file = <<>>
  /\ completed = [b \in 1 .. i - 1 |-> b]
  /\ matrix_bm_results \in Seq(Benchmarks)
  /\ result_file \in Seq([bm : Benchmarks, results : Seq(Benchmarks)])

NamesInv ==
  LET current == IF pc \in {"create", "run"} THEN i ELSE previous_bm
  IN pc \in {"next", "create", "run", "had_error"} =>
       /\ \A n \in ToSet(matrix_bm_results) : benchmarks[n].name = benchmarks[current].name
       /\ result_file # <<>> =>
            benchmarks[result_file[Len(result_file)].bm].name # benchmarks[current].name

IndInv == /\ LoopInv /\ NamesInv
          /\ OnlyCurrentMapped /\ ResultsComplete /\ GroupedByName

FirstUserIsLargest(b, r) ==
  \A c \in 1 .. b : \A q \in DOMAIN Regions(c) :
    Regions(c)[q].file = Regions(b)[r].file
      => Regions(c)[q].config.range >= Regions(b)[r].config.range

(* A benchmark that reads finds generated data in its file, also if        *)
(* another benchmark created it, and as much as it maps unless a           *)
(* benchmark with a smaller memory_range came first.                       *)
ReadsFindData ==
  pc = "run" /\ is_pmem =>
    \A r \in DOMAIN Regions(i) :
      /\ Regions(i)[r].config.read => files[Regions(i)[r].file].read_data
      /\ FirstUserIsLargest(i, r) => ~BeyondFile(i, r)

LastOfName(b) == b = Len(benchmarks) \/ benchmarks[b + 1].name # benchmarks[b].name

(* The shared file of a matrix whose last benchmark does not use it.       *)
LeftBehind(f) ==
  \E b \in Benchmarks :
    /\ LastOfName(b)
    /\ \A r \in DOMAIN Regions(b) : Regions(b)[r].file # f
    /\ \E c \in 1 .. b - 1 : \E r \in DOMAIN Regions(c) :
         /\ benchmarks[c].name = benchmarks[b].name
         /\ Regions(c)[r].file = f /\ ~Regions(c)[r].owns_pmem_file

(* A process that finishes leaves no file behind, except for these.        *)
CleanUpUnlessMixed ==
  pc = "finished" => \A f \in DOMAIN files : LeftBehind(f)

(* A file that a benchmark of the name at hand shares, or the running one  *)
(* owns                                                                    *)
InUse(f, current) ==
  \E c \in 1 .. current : \E r \in DOMAIN Regions(c) :
    /\ benchmarks[c].name = benchmarks[current].name
    /\ Regions(c)[r].file = f
    /\ ~Regions(c)[r].owns_pmem_file \/ (c = i /\ pc \in {"run", "had_error"})

CreatedFor(f, b, r) ==
  /\ Regions(b)[r].file = f
  /\ files[f] = [length |-> Regions(b)[r].config.range,
                 read_data |-> Regions(b)[r].config.read]

(* The inductive invariant of the data files.                              *)
FilesInv ==
  /\ ~is_pmem => DOMAIN files = {}
  /\ pc \in {"run", "had_error"} /\ is_pmem =>
       \A r \in DOMAIN Regions(i) : Regions(i)[r].file \in DOMAIN files
  /\ pc \in {"next", "create", "run", "had_error"} =>
       \A f \in DOMAIN files :
         /\ \E b \in Benchmarks : b <= i /\ \E r \in DOMAIN Regions(b) : CreatedFor(f, b, r)
         /\ \/ LeftBehind(f)
            \/ InUse(f, IF pc \in {"create", "run"} THEN i ELSE previous_bm)
  /\ CleanUpUnlessMixed

=============================================================================

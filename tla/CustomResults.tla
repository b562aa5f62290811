----------------------------- MODULE CustomResults -----------------------------
(***************************************************************************)
(* The results of a benchmark in Mode::Custom: the clock readings of       *)
(* Benchmark::run_custom_ops_in_thread, which CustomExecution leaves out,  *)
(* and what get_custom_results_as_json makes of them.                      *)
(*                                                                         *)
(* steady_clock never goes back, but a tick may be longer than a step.     *)
(* n operations in d ticks are a rate, n / d.  The latency histogram is a  *)
(* library's.                                                              *)
(***************************************************************************)
EXTENDS SequencesExt, CustomExecution

CONSTANTS MaxClock  \* bounds the clock

ASSUME ClockAssumption == MaxClock \in Nat

VARIABLES clock,
          start_ts, end_ts,  \* total_operation_durations
          op_start,          \* the clock before a sampled chain
          latencies,         \* per thread: the samples stored
          results            \* of get_custom_results_as_json

clock_vars == <<clock, start_ts, end_ts, op_start, latencies, results>>
timed_vars == <<vars, clock_vars>>

Unread == -1

TimedInit ==
  /\ Init
  /\ clock = 0
  /\ start_ts = [t \in Threads |-> Unread] /\ end_ts = start_ts /\ op_start = start_ts
  /\ latencies = [t \in Threads |-> <<>>]
  /\ results = <<>>

-----------------------------------------------------------------------------
(* run_custom_ops_in_thread.                                               *)

Start(t) ==
  /\ start_ts[t] = Unread
  /\ start_ts' = [start_ts EXCEPT ![t] = clock]
  /\ UNCHANGED <<vars, clock, end_ts, op_start, latencies, results>>

Started(t) == start_ts[t] # Unread

TimedDraw(t) == Started(t) /\ Draw(t) /\ UNCHANGED clock_vars

NextSampled(t) == Sampled(iteration[t] + 1)

RunUnsampled(t) == ~NextSampled(t) /\ RunChain(t) /\ UNCHANGED clock_vars

StartSample(t) ==
  /\ pc[t] = "chunk" /\ iteration[t] < OpsPerChunk /\ NextSampled(t)
  /\ op_start[t] = Unread
  /\ op_start' = [op_start EXCEPT ![t] = clock]
  /\ UNCHANGED <<vars, clock, start_ts, end_ts, latencies, results>>

RunSampled(t) ==
  /\ op_start[t] # Unread
  /\ RunChain(t)
  /\ latencies' = [latencies EXCEPT ![t] = Append(@, clock - op_start[t])]
  /\ op_start' = [op_start EXCEPT ![t] = Unread]
  /\ UNCHANGED <<clock, start_ts, end_ts, results>>

TimedEndChunk(t) == EndChunk(t) /\ UNCHANGED clock_vars

TimedStoreResult(t) ==
  /\ StoreResult(t)
  /\ end_ts' = [end_ts EXCEPT ![t] = clock]
  /\ UNCHANGED <<clock, start_ts, op_start, latencies, results>>

TimedStep(t) ==
  \/ Start(t) \/ TimedDraw(t) \/ RunUnsampled(t) \/ StartSample(t) \/ RunSampled(t)
  \/ TimedEndChunk(t) \/ TimedStoreResult(t)

Tick ==
  /\ clock < MaxClock /\ ~AllDone
  /\ clock' = clock + 1
  /\ UNCHANGED <<vars, start_ts, end_ts, op_start, latencies, results>>

-----------------------------------------------------------------------------
(* get_custom_results_as_json.                                             *)

Rate(n, d) == [n |-> n, d |-> d]

(* Defect: the threads' common time instead of the whole                   *)
CommonTime ==
  Min({end_ts[t] : t \in Threads}) - Max({start_ts[t] : t \in Threads})

execution_time ==
  Max({end_ts[t] : t \in Threads}) - Min({start_ts[t] : t \in Threads})

thread_ops_per_s(t) == Rate(total_operation_size[t], end_ts[t] - start_ts[t])

get_custom_results ==
  [total   |-> Rate(SumOver(total_operation_size, Threads), execution_time),
   threads |-> [t \in Threads |-> thread_ops_per_s(t)]]

Report ==
  /\ AllDone /\ results = <<>>
  /\ results' = <<get_custom_results>>
  /\ UNCHANGED <<vars, clock, start_ts, end_ts, op_start, latencies>>

Reported == results # <<>> /\ UNCHANGED timed_vars

TimedNext == (\E t \in Threads : TimedStep(t)) \/ Tick \/ Report \/ Reported

TimedSpec ==
  /\ TimedInit /\ [][TimedNext]_timed_vars
  /\ \A t \in Threads : WF_timed_vars(TimedStep(t))

-----------------------------------------------------------------------------
(* Properties.                                                             *)

(* The time that all samples together took                                 *)
Total(samples) == FoldSeq(+, 0, samples)

(* rate <= the sum of rates, multiplied by all durations                   *)
AtMostSum(rate, rates) ==
  LET ds == [t \in Threads |-> rates[t].d]
  IN rate.n * Product(ds, Threads) <=
       rate.d * SumOver([t \in Threads |-> rates[t].n * Product(ds, Threads \ {t})], Threads)

(* benchmark.cpp:602: the throughput reported for the benchmark relates to *)
(* those of its threads, although each thread reads the clock on its own   *)
(* and may start late or draw nothing: it is never more than their sum,    *)
(* and every thread, with all the latencies it has sampled, fits into the  *)
(* reported time.  Of a thread without a duration the rate is not a        *)
(* number.                                                                 *)
ThroughputAddsUp ==
  \A i \in DOMAIN results :
    LET total == results[i].total
        rates == results[i].threads
    IN /\ (\A t \in Threads : rates[t].d > 0) => AtMostSum(total, rates)
       /\ \A t \in Threads :
            /\ Total(latencies[t]) <= rates[t].d
            /\ rates[t].d <= total.d

(* Readings of the clock follow each other: a thread's samples lie between *)
(* its start and now, or its end, without overlapping.                     *)
Latency(t) == Total(latencies[t])

SamplesInOrder(t) ==
  /\ ~Started(t) => pc[t] = "draw" /\ op_start[t] = Unread /\ latencies[t] = <<>>
  /\ pc[t] # "done" => start_ts[t] + Latency(t) <= clock
  /\ pc[t] = "done" => end_ts[t] # Unread /\ start_ts[t] + Latency(t) <= end_ts[t]
  /\ op_start[t] # Unread =>
       /\ pc[t] = "chunk" /\ iteration[t] < OpsPerChunk /\ NextSampled(t)
       /\ op_start[t] <= clock /\ start_ts[t] + Latency(t) <= op_start[t]

ClockInv ==
  /\ clock \in Nat
  /\ start_ts \in [Threads -> {Unread} \cup Nat]
  /\ end_ts \in [Threads -> {Unread} \cup Nat]
  /\ op_start \in [Threads -> {Unread} \cup Nat]
  /\ latencies \in [Threads -> Seq(Nat)]
  /\ \A t \in Threads : SamplesInOrder(t)

ResultsInv == results # <<>> => AllDone /\ results = <<get_custom_results>>

TimedInv == ClockInv /\ ResultsInv
=============================================================================

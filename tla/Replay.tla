------------------------------- MODULE Replay --------------------------------
(***************************************************************************)
(* A data set and the programs that replay it: the benchmark of one thread *)
(* (src/bin/replay_bench.cpp), the one that gives every thread a shard of  *)
(* the symbols (src/bin/replay_bench_mt.cpp), and the one that validates   *)
(* behind the ring (src/bin/replay_bench_spsc.cpp, its second part).       *)
(*                                                                         *)
(* A validator is a state per tracked symbol, as its table implements it;  *)
(* once kCapacity symbols have a slot a further one gets the stateless     *)
(* checks only.  A pass of a thread over its own buffer with its own       *)
(* validator is one step.                                                  *)
(***************************************************************************)
EXTENDS Dataset, RecordChecks, FiniteSets, Functions

CONSTANTS
  Passes,         \* passes over the data
  Sweep,          \* the numbers of threads replay_bench_mt tries
  Owner(_, _),    \* the shard of a symbol among so many
  RingCapacity,   \* kRingCapacity
  kCapacity       \* slots of a validator's table

ASSUME ReplayAssumption ==
  /\ Passes \in Nat /\ RingCapacity \in Nat \ {0} /\ n > 0 /\ kCapacity \in Nat \ {0}
  /\ Sweep \in Seq(Nat \ {0}) /\ Sweep # <<>>
  /\ \A i \in DOMAIN Sweep, j \in DOMAIN Symbols : Owner(Symbols[j], Sweep[i]) \in 1..Sweep[i]

VARIABLES
  prog,       \* the program that runs
  pc,         \* where its main() is
  count,      \* view.count
  verdicts,   \* the flags of the records, of the last pass or since the start
  report,     \* the counters of the warm pass
  passes,     \* timed passes made
  sweep,      \* thread counts still to be tried
  shards,     \* the records of each thread, by their place in the file
  ready, go,  \* the start gate
  clock,      \* the time between t0 and t1 is being measured
  at,         \* where each thread is
  done,       \* the passes it has made
  queue, popped,   \* the ring, and what has been taken from it
  lv,         \* the validator behind the ring
  one         \* one validator over the whole data set: its states and flags (history)

threads == <<shards, ready, go, clock, at, done>>
pipeline == <<queue, popped, lv>>
replay == <<prog, pc, count, verdicts, report, passes, sweep, threads, pipeline, one>>
vars == <<dataset, replay>>

Fresh == [k \in {} |-> EmptySlot]

\* slot_for(): the symbol has a slot or takes a free one; or the table is full.
HasSlot(v, k) == k \in DOMAIN v \/ Cardinality(DOMAIN v) < kCapacity
SlotOf(v, k) == IF k \in DOMAIN v THEN v[k] ELSE EmptySlot
Updated(v, r) == [k \in DOMAIN v \cup {r.symbol} |->
                    IF k = r.symbol THEN Checked(SlotOf(v, k), r) ELSE v[k]]

\* One record after the other through a validator.  (The singleton set has the state
\* before a record evaluated once.)
JudgeOne(b, r) ==
  IF HasSlot(b.v, r.symbol)
  THEN [v |-> Updated(b.v, r),
        flags |-> Append(b.flags, Verdict(SlotOf(b.v, r.symbol), r).flags)]
  ELSE [v |-> b.v, flags |-> Append(b.flags, StatelessFlags(r))]
Judging(v, rs) ==
  LET upto[i \in 0..Len(rs)] ==
        IF i = 0 THEN [v |-> v, flags |-> <<>>]
        ELSE CHOOSE x \in {JudgeOne(b, rs[i]) : b \in {upto[i - 1]}} : TRUE
  IN  upto[Len(rs)]
Judge(rs) == Judging(Fresh, rs).flags

Init ==
  /\ DatasetInit
  /\ prog = "none" /\ pc = "start" /\ count = 0
  /\ verdicts = <<>> /\ report = <<>> /\ passes = 0
  /\ sweep = Sweep /\ shards = <<>> /\ ready = 0 /\ go = FALSE /\ clock = FALSE
  /\ at = <<>> /\ done = <<>>
  /\ queue = <<>> /\ popped = <<>> /\ lv = Fresh /\ one = Judging(Fresh, <<>>)

\* The file is mapped and viewed before anything else.
Start(p) ==
  /\ pc = "start" /\ file # NoFile
  /\ prog' = p
  /\ LET view == ViewReplay(file) IN
     /\ pc' = IF view.accepted THEN "replay" ELSE "failed"
     /\ count' = view.count
  /\ one' = Judging(Fresh, records)
  /\ UNCHANGED <<dataset, verdicts, report, passes, sweep, threads, pipeline>>

\* What the view shows.
Input == SubSeq(records, 1, count)

-----------------------------------------------------------------------------
(* replay_bench: a warm pass that counts, then the timed passes            *)

Classes ==
  [bad_trades |-> {"TradeNonPositivePrice", "TradeNonPositiveSize"},
   bad_bars |-> {"BarLowAboveHigh", "BarOpenOutOfRange", "BarCloseOutOfRange",
                 "BarVwapOutOfRange", "BarNonPositivePrice", "BarVolumeInconsistent"},
   seq_gaps |-> {"SequenceGap"}, ts_regress |-> {"TimestampRegression"},
   recon_vol |-> {"BarVolumeReconstructMismatch"},
   recon_cnt |-> {"BarTradeCountReconstructMismatch"},
   recon_vwap |-> {"BarVwapReconstructMismatch"},
   recon_ohlc |-> {"BarOhlcReconstructMismatch"},
   q_crossed |-> {"QuoteCrossed"}, q_locked |-> {"QuoteLocked"},
   q_nonpos |-> {"QuoteNonPositive"}, q_zerosize |-> {"QuoteZeroSize"},
   band_breach |-> {"PriceBandBreach"}]

Hits(flags, c) == flags \cap Classes[c] # {}
Breakdown(fs) == [c \in DOMAIN Classes |-> Cardinality({i \in DOMAIN fs : Hits(fs[i], c)})]

WarmPass ==
  /\ prog = "bench" /\ pc = "replay" /\ report = <<>>
  /\ verdicts' = Judge(Input) /\ report' = Breakdown(verdicts')
  /\ UNCHANGED <<dataset, prog, pc, count, passes, sweep, threads, pipeline, one>>

\* A fresh validator per pass.  The mean per record divides by count, which is not 0
\* here (n > 0, and the view has all or nothing of the file).
TimedPass ==
  /\ prog = "bench" /\ pc = "replay" /\ report # <<>> /\ passes < Passes
  /\ verdicts' = Judge(Input) /\ passes' = passes + 1
  /\ UNCHANGED <<dataset, prog, pc, count, report, sweep, threads, pipeline, one>>

BenchDone ==
  /\ prog = "bench" /\ pc = "replay" /\ report # <<>> /\ passes = Passes
  /\ pc' = "done"
  /\ UNCHANGED <<dataset, prog, count, verdicts, report, passes, sweep, threads, pipeline, one>>

-----------------------------------------------------------------------------
(* replay_bench_mt: run() for each number of threads                       *)

\* Fault: the records are dealt out one by one.
PartitionDealt(T) ==
  LET dealt[i \in 0..count] ==
        IF i = 0 THEN [t \in 1..T |-> <<>>]
        ELSE [dealt[i - 1] EXCEPT ![(i % T) + 1] = Append(@, i)]
  IN  dealt[count]

\* The whole stream of a symbol goes to one thread, in the order of the file.
Partition(T) ==
  LET dealt[i \in 0..count] ==
        IF i = 0 THEN [t \in 1..T |-> <<>>]
        ELSE [dealt[i - 1] EXCEPT ![Owner(records[i].symbol, T)] = Append(@, i)]
  IN  dealt[count]

\* The records are partitioned and the threads started.
Spawn ==
  /\ prog = "mt" /\ pc = "replay" /\ sweep # <<>>
  /\ LET T == Head(sweep) IN
     /\ shards' = Partition(T) /\ ready' = 0 /\ go' = FALSE
     /\ at' = [t \in 1..T |-> "spawned"] /\ done' = [t \in 1..T |-> 0]
  /\ pc' = "wait"
  /\ UNCHANGED <<dataset, prog, count, verdicts, report, passes, sweep, clock, pipeline, one>>

MainStep == UNCHANGED <<dataset, prog, count, verdicts, report, passes, shards, at, done,
                        pipeline, one>>

\* Fault: main() does not wait for the last thread.
TakeT0Early ==
  /\ pc = "wait" /\ ready + 1 >= Len(at)
  /\ clock' = TRUE /\ pc' = "gate"
  /\ MainStep /\ UNCHANGED <<sweep, ready, go>>

\* t0, when every thread is at the gate; then the gate opens.
TakeT0 ==
  /\ pc = "wait" /\ ready >= Len(at)
  /\ clock' = TRUE /\ pc' = "gate"
  /\ MainStep /\ UNCHANGED <<sweep, ready, go>>
OpenGate ==
  /\ pc = "gate"
  /\ go' = TRUE /\ pc' = "join"
  /\ MainStep /\ UNCHANGED <<sweep, ready, clock>>

\* Every thread has been joined: t1, and the next number of threads.
Join ==
  /\ pc = "join" /\ \A t \in DOMAIN at : at[t] = "ended"
  /\ clock' = FALSE /\ sweep' = Tail(sweep)
  /\ pc' = IF Len(sweep) > 1 THEN "replay" ELSE "done"
  /\ MainStep /\ UNCHANGED <<ready, go>>

ThreadStep == UNCHANGED <<dataset, prog, pc, count, verdicts, report, passes, sweep, shards,
                          go, clock, pipeline, one>>

\* Fault: a thread without records returns at once.
ReadyIfBusy(t) ==
  /\ at[t] = "spawned"
  /\ IF shards[t] = <<>> THEN UNCHANGED ready ELSE ready' = ready + 1
  /\ at' = [at EXCEPT ![t] = IF shards[t] = <<>> THEN "ended" ELSE "gate"]
  /\ ThreadStep /\ UNCHANGED done

Ready(t) ==
  /\ at[t] = "spawned"
  /\ ready' = ready + 1 /\ at' = [at EXCEPT ![t] = "gate"]
  /\ ThreadStep /\ UNCHANGED done
PassGate(t) ==
  /\ at[t] = "gate" /\ go
  /\ at' = [at EXCEPT ![t] = "passes"]
  /\ ThreadStep /\ UNCHANGED <<ready, done>>
\* A pass with a fresh validator over the thread's own buffer: nothing is shared.
Pass(t) ==
  /\ at[t] = "passes" /\ done[t] < Passes
  /\ done' = [done EXCEPT ![t] = @ + 1]
  /\ ThreadStep /\ UNCHANGED <<ready, at>>
End(t) ==
  /\ at[t] = "passes" /\ done[t] = Passes
  /\ at' = [at EXCEPT ![t] = "ended"]
  /\ ThreadStep /\ UNCHANGED <<ready, done>>

\* The flags of a thread's records.
Sum(t) == Judge([j \in DOMAIN shards[t] |-> records[shards[t][j]]])

Thread(t) == Ready(t) \/ PassGate(t) \/ Pass(t) \/ End(t)

-----------------------------------------------------------------------------
(* replay_bench_spsc: a producer, the ring, and a consumer that validates  *)

Ring == INSTANCE BoundedFifo WITH
  Items <- 1..n, Capacity <- RingCapacity, delivered <- popped

Total == count * Passes
Pushed == Len(queue) + Len(popped)

Push ==
  /\ prog = "spsc" /\ pc = "replay" /\ Pushed < Total
  /\ Ring!Put((Pushed % count) + 1)
  /\ UNCHANGED <<dataset, prog, pc, count, verdicts, report, passes, sweep, threads, lv, one>>

\* One validator for all the passes.
Pop ==
  LET judged == JudgeOne([v |-> lv, flags |-> verdicts], records[Head(queue)]) IN
  /\ prog = "spsc" /\ pc = "replay" /\ Len(popped) < Total
  /\ Ring!Get
  /\ lv' = judged.v /\ verdicts' = judged.flags
  /\ UNCHANGED <<dataset, prog, pc, count, report, passes, sweep, threads, one>>

PipelineDone ==
  /\ prog = "spsc" /\ pc = "replay" /\ Len(popped) = Total
  /\ pc' = "done"
  /\ UNCHANGED <<dataset, prog, count, verdicts, report, passes, sweep, threads, pipeline, one>>

-----------------------------------------------------------------------------
Generator == Generate /\ UNCHANGED replay
Starts == \E p \in {"bench", "mt", "spsc"} : Start(p)
Main == WarmPass \/ TimedPass \/ BenchDone \/ Spawn \/ TakeT0 \/ OpenGate \/ Join
          \/ Pop \/ PipelineDone

Next == Generator \/ Starts \/ Main \/ Push \/ \E t \in DOMAIN at : Thread(t)

Spec == Init /\ [][Next]_vars

\* Every thread runs.
FairSpec ==
  /\ Spec
  /\ WF_vars(Main) /\ WF_vars(Push)
  /\ \A t \in UNION {1..Sweep[i] : i \in DOMAIN Sweep} : WF_vars(t \in DOMAIN at /\ Thread(t))

-----------------------------------------------------------------------------
(* Properties                                                              *)

\* What the defect of a record is for: the counters it adds to.
Causes ==
  [bad_trades |-> {"corrupt_trade"}, bad_bars |-> {"band"},
   seq_gaps |-> {"seq_gap"}, ts_regress |-> {"ts_regress"},
   recon_vol |-> {"recon_volume"}, recon_cnt |-> {"recon_count"},
   recon_vwap |-> {"recon_vwap"}, recon_ohlc |-> {"recon_ohlc", "band"},
   q_crossed |-> {"quote_crossed"}, q_locked |-> {"quote_locked"},
   q_nonpos |-> {}, q_zerosize |-> {}, band_breach |-> {"price_spike"}]

FirstOf(k) == CHOOSE i \in DOMAIN records :
  records[i].symbol = k /\ \A j \in 1..i-1 : records[j].symbol # k
First(i) == FirstOf(records[i].symbol) = i

\* One validator has a slot for the first kCapacity symbols of the file.
Tracked(k) == Cardinality({records[j].symbol : j \in 1..FirstOf(k)}) <= kCapacity

\* Without a slot only the stateless checks see a defect; and a gap, a regression or a
\* spike in a symbol's first record has nothing to be seen against.
Visible(i, c) ==
  /\ \/ c \in {"bad_trades", "bad_bars", "q_crossed", "q_locked", "q_nonpos", "q_zerosize"}
     \/ Tracked(records[i].symbol)
  /\ ~(First(i) /\ label[i] \in {"seq_gap", "ts_regress", "price_spike"})

\* The symbol has traded below 66 dollars: from there on 5% of the reference price may be
\* less than what the walk gains on it.
Cheap(i) ==
  \E j \in 1..i : /\ records[j].symbol = records[i].symbol /\ records[j].type = "trade"
                  /\ records[j].price > 0 /\ records[j].price < 66 * Dollar

\* "One defect per bar-window, chosen up front, so injected violations are isolated and
\* the resulting counts are explainable": a record adds to a counter of replay_bench
\* exactly if its own defect is one for that counter and can be seen, in every pass
\* alike.  Two counters have exceptions.  A vwap off by 0.1% may also leave the bar's
\* range.  And the price band flags clean records, or misses a spike, when the symbol
\* started with a spike, which became its reference price, or once it has been cheap.
DefectsExplained ==
  prog = "bench" /\ report # <<>> =>
    /\ report = Breakdown(verdicts)
    /\ \A i \in 1..count, c \in DOMAIN Classes :
         \/ Hits(verdicts[i], c) <=> label[i] \in Causes[c] /\ Visible(i, c)
         \/ c = "bad_bars" /\ label[i] = "recon_vwap"
         \/ c = "band_breach" /\ label[FirstOf(records[i].symbol)] = "price_spike"
         \/ c = "band_breach" /\ Cheap(i)

\* The flags f of the records q as one validator over the whole file gives them: of the
\* symbols it has a slot for the same, of the others none less.
AsOne(q, f) ==
  /\ DOMAIN f = DOMAIN q
  /\ \A j \in DOMAIN q :
       /\ one.flags[q[j]] \subseteq f[j]
       /\ records[q[j]].symbol \in DOMAIN one.v => f[j] = one.flags[q[j]]

\* "routes a symbol's ENTIRE stream to one thread, so each thread's Validator sees that
\* symbol in order": whatever the number of threads and the partition, every record is
\* judged as by one validator over the whole data set; a symbol that finds the table of
\* the one full may have a slot in a thread's, and then its records lose no flag.
\* Behind the ring, every record is judged as by one validator over all the passes.
AsSequential ==
  /\ pc = "join" /\ (\A t \in DOMAIN at : at[t] = "ended") =>
       /\ \A t \in DOMAIN at : AsOne(shards[t], Sum(t))
       /\ \A i \in DOMAIN records : \E t \in DOMAIN at : i \in Range(shards[t])
  /\ prog = "spsc" /\ pc = "done" =>
       verdicts = Judge([i \in 1..n * Passes |-> records[((i - 1) % n) + 1]])

\* "workers spin until main flips `go`, so thread-spawn and partition time stay out of
\* the measured region", and all the validation lies in it.
TimedExactly ==
  \A t \in DOMAIN at :
    (clock => at[t] # "spawned") /\ (at[t] = "passes" => clock)

\* A program that has opened its file gets to its end: no thread waits at the gate, in
\* the join or on the ring for ever.
Finishes == (pc = "replay") ~> (pc = "done")
=============================================================================

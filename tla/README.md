# TLA+ models of ohlcv-validator

The repository receives market data, puts it back in order, validates it, and
rebuilds order books from it. This directory holds TLA+ models of the parts that
have state and order in them, TLC configurations that check them on small
instances, and TLAPS proofs of the central properties for every instance.

```
cd tla
tlc -config MCFeedArbitrator.cfg MCFeedArbitrator      # a run
tlapm FeedArbitratorProofs.tla                         # the proofs of a module
```

`PROJECT.json` lists the components, the runs, the source lines behind every
definition, the hazards and the theorems. Line numbers in module comments refer
to the source file named at the head of the module.

## The system

| Part | Code | State | Operations | Talks to |
|---|---|---|---|---|
| A/B arbitrator | `src/feed/arbitrator.h` | window of slots, frontier, counters | `offer`, `flush` | called by the handler, calls the sink |
| feed programs | `src/bin/feed_publisher.cpp`, `feed_handler.cpp`, `src/feed/udp_multicast.h` | two UDP lines, poll/drain/idle loop | send, poll, drain, flush and report | arbitrator, validator |
| order book | `src/book/order_book.h` | two sorted arrays of `MaxLevels` | `apply`, `clear` | used by the builder |
| book builder | `src/book/book_builder.h` | book, expected sequence, mode, recovery buffer | `on_delta`, `on_snapshot` | the venue's deltas and snapshots |
| SPSC ring | `src/concurrent/spsc_ring.h` | slots, two cursors, two cached cursors | `try_push`, `try_pop`, `size_approx` | one producer and one consumer thread |
| validator | `src/validate/validator.{h,cpp}` | hash table of per-symbol slots | three `check` overloads | every program that replays or ingests |
| live client | `src/ingest/alpaca_client.{h,cpp}` | socket, remembered subscription | `connect`, `authenticate`, `subscribe`, `read_frame`, `establish` | the data server |
| live program | `src/bin/alpaca_ingest.cpp` | stop flag, counters, capture | start-up, main loop, fatal path, shutdown | client, parser, validator, capture |
| capture | `src/replay/capture_writer.h`, `binary_format.h` | stream, count, finalized flag | constructor, `write`, `finalize` | live program; readers |
| parser, wire conversion | `src/ingest/parser.cpp`, `to_wire.h`, `src/model/timestamp.h` | none kept between frames | `parse`, `to_wire` | live program |
| replay file | `src/replay/binary_format.h`, `mapped_file.h`, `ml/replay_reader.py` | header and records on disk | `view_replay`, `read_replay` | written by capture and generator |
| data set generator | `src/bin/gen_dataset.cpp` | per-symbol sequence, time, price; a window's aggregate | windows of trades, quotes and a bar with injected defects | writes a replay file |
| replay benches | `src/bin/replay_bench*.cpp` | passes, threads, start gate, ring | replay on one thread, sharded, behind the ring | replay file, validator, ring |
| capture session | `scripts/capture_session.sh` | the capture of one live run | wait, test, replay, detect | live program, replay file |
| utilities | `src/util/*.h` | histogram buckets, timers | `record`, `percentile`, `backoff_ceiling` | benches, client |
| ML scripts | `ml/*.py` | arrays | training, evaluation, replay files | capture format |

What is hard to test in them: the order in which copies of a packet arrive on two
lossy lines, and the order the handler reads them in; sequence numbers and cursors
that wrap; a slot reused for another sequence; snapshots older or newer than the
deltas held back; a recovery buffer that overflows; loads of an atomic that return
old values; state carried from one bar to the next; a reference price that must
follow the market and not an outlier; a hash table that fills up; a connection
that drops inside start-up; a process that dies between a write and the header
that counts it, and two readers that meet what it left; threads that own a share of
the symbols each, and a clock that must run over their work and nothing else; a
generator that has to aggregate trades the way the validator does.

## Modules

### `FeedArbitrator`, `OrderedFeed`, `FeedArbitratorProofs`

`buf`, `frontier`, `occupied`, `started` and `stats` are the members of
`FeedArbitrator`. A call runs in steps: `Offer` is the part of `offer()` up to the
placement loop (anchor, duplicate, range limit), `ForceAdvance` one iteration of
that loop, `Store` the placement, `ReleaseOne`/`ReleaseDone` `release_prefix()`,
`Flush`, `FlushAdvance`, `FlushDone` `flush()`. `pc` and `after` say where the call
is and where `release_prefix()` returns to. `lap`, `anchor`, `out`, `gapped`,
`heard` and `offers` are history. Sequence numbers wrap at `MaxSeq`.

`OrderedFeed` is what the consumer is promised: from the first number heard on, each
sequence in turn is handed over with a record heard under it, or given up, the latter only
when a later one has been heard. It has neither window nor lines. `IsOrderedFeed` says that
the arbitrator implements it: its frontier is the number whose turn it is, an `Offer` is
heard, a `ReleaseOne` hands over, a round of either advancing loop gives up, and every other
step is invisible.

The proof has three layers. The *ring invariant* says that live slots lie in the
window and in their own place, that `occupied` is their number, and that the
frontier's slot is free where a call is not releasing; without the last part
`PromptRelease` is not inductive. On it rests the *log invariant* (`InOrder`,
`ExactlyOnce`, `Integrity`, `GapsBelowHeard`, and that every live slot's payload was
heard), and on both the *counters* and the refinement of `OrderedFeed`: a slot that holds the
frontier was heard (log), and where a loop gives up, the packet that forces it or one that
is still in a slot is later than the frontier (ring and log).

That calls return is liveness, but what it rests on is proved: `Work`, four times the number
of sequences the call may still step through plus a rank of `pc`, falls with every step of
a call (`CallsComeToEnd`) and is at most `4 * (kMaxGap + Window) + 3` (`CallsBounded`).

### `FeedHandler`

Publisher, two lossy lines and the handler's poll and drain loop, on top of
`FeedArbitrator`: `DrainOne` contains `Offer`, `GiveUp` contains `Flush`, `Arbitrate` is
any step of a call that is running. Time is abstracted: `MaxLead` bounds how far the publisher runs
ahead of the oldest unread datagram, which is what "ample at feed rates"
(`feed_handler.cpp:48`) means for the window; an idle handler may give up after any
empty iteration. Datagrams of another size may be on a line; one that is too short
ends the drain of its line for this iteration.

Its proofs are in `FeedArbitratorProofs`. Every step of the handler is a step of the
arbitrator or leaves it alone (`HandlerDrivesArbitrator`), so the arbitrator's own
invariants hold inside the handler. `FeedInv` follows each packet: what is on the wire
was published and at most `MaxLead` ago (`Published`); what a line brought is unread or
was offered (`Accounted`); what was offered is behind the frontier and no gap, in the
ring, or in the hand of the running call (`Kept`). A gap at a sequence whose copy is unread
would need the frontier to have been forced past it by a packet a whole window newer,
which the lead excludes. The handler as a whole is an ordered feed, too
(`HandlerIsOrderedFeed`). `NoFalseGaps` and `HandledIsValidated` are proved under two
hypotheses that stand in the theorems: `SkewWithinWindow`, `MaxLead <= Window`, and
`NoLookalikes`, that no foreign datagram is long enough to be taken for a packet. Without
the first `feed_drain` is a counterexample; without the second a foreign datagram moves the
frontier like any packet.

### `OrderBook`, `VenueBook`, `VenueBookProofs`

`OrderBook` is `apply_side()` as an operator on sequences of levels. `VenueBook`
feeds it every sequence of updates next to the venue's full book; `crowded` are the
sides that had more levels than `MaxLevels` since the last `clear()`.

`apply_side()` is split into its three outcomes (a level removed, resized, inserted and
cut off at `MaxLevels`), with a lemma each on what the side holds afterwards and that
it stays ordered. The invariant is the three properties together with the types: no two
levels of an ordered side share a price, so their number is that of their prices, and a
side that is not crowded has room for every level the venue has.

`BestLevels`, which `venue_book_best` refutes, is delimited by a theorem: a book that
shows the best levels goes on to do so until a level it shows is removed while the venue
has one it does not show, and then it does not (`BestUntilRemoval`). A rebuild has no
removals, so after `clear()` and the levels of any snapshot, in any order, the book shows
the best of the snapshot (`RebuildShowsBest`). `OrderBookFitsBuilder` is the two facts
`BookBuilder` assumes of its book, for every depth, grid of prices and set of sizes.

### `BookBuilder`, `BookBuilderProofs`

`OnDelta` is the whole of `on_delta()`; `on_snapshot()` runs in steps (check the
buffered deltas for a hole, rebuild, replay one by one, commit) because each can
return. The book type is a parameter: the proof uses of it that applying a delta
gives a book and that a snapshot's levels rebuild the book they were taken from. The
run instantiates it with `OrderBook`. Deltas are lost, repeated and reordered,
snapshots of any age come at any time.

The inductive invariant says, besides types, that a live book is the venue's book
at its sequence, that buffered deltas are the venue's own, and that a half done
recovery holds the venue's book at the sequence it has reached.

For the verdict on a snapshot the invariant also counts (`CountInv`): at each delta the
check loop expects the snapshot's sequence plus one plus the number of deltas before it that are
newer than the snapshot. So `on_snapshot()` ends with a live book exactly if the deltas held
back connect to the snapshot (`SnapshotsJudgedExactly`). In particular a snapshot of all that
was published is always taken (`CurrentSnapshotTaken`), which with `SnapshotCallsEnd`, a
bound of `2 * RecoverBuf + 2` steps for a call, is what `Recovers` rests on.

### `SpscRing`, `BoundedFifo`, `SpscRingProofs`

Each member function is cut at its atomic accesses. A load of the far cursor
returns any value between the one last acquired and the newest (C++ coherence); an
acquire load of a value makes the slots it covers visible. `NoRace` says that a
slot is only touched with the other side's release of it acquired. `IsFifo` is
refinement of `BoundedFifo`, whose queue is the items between two unbounded
indices kept as history. `CacheFarCursor` is the template parameter: the run uses
the caching variant, the proofs cover both.

The inductive invariant ties each wrapped cursor to its unbounded index, bounds
the acquired indices by the published ones (`acq_head <= head`, `tail - acq_head <=
Capacity`), and says what every slot between them holds.

### `RecordChecks`, `SymbolStream`, `BarReconstruction`, `SymbolStreamProofs`

`RecordChecks` has the three `check()` overloads as operators from a slot and a
record to the slot afterwards, the flags and the gap. `SymbolStream` feeds one
symbol's records through them beside a history that looks at the stream as a
whole. `BarReconstruction` states the accumulator's and the bar verdict's
correctness against the aggregate of the trades.

Prices are integers on a fine grid: the tolerance of `approx_equal` becomes
equality, the moving average is rounded down, and NaN does not occur. Sequence
numbers have a width.

The inductive invariant for the price band is the argument why both of its
promises hold: while the last price is out of band it has not printed more often in a
row than `breach_run` says (so `kBandReanchorRun` prints re-anchor), and while fewer
than `kBandReanchorRun` outliers followed the last normal print their number *is*
`breach_run` (so no re-anchor happened and the reference did not move).

The one for the accumulator (`AccInv`) says more than `AccumulatorExact`: count, volume
and price-times-volume are zero between a bar and the next trade, because `accumulate()`
adds to them even in a window's first trade, while open, high and low keep what the last
window left and are overwritten. `BarVerdictExact` follows from it: `reconcile()` compares
a bar with the aggregate of its trades.

### `Validator`, `SymbolChecks`, `ValidatorProofs`

`Validator` is the open-addressing table: `Hits` are the probes of `slot_for()` that
end its search, `CheckTracked` takes the first, `CheckUntracked` is the full table.
It refines `SymbolChecks`, where every symbol has a state of its own and at most
`Limit` symbols are tracked. The symbol whose key is 0, the key of a free slot, is
one of the symbols of the run.

The refinement is proved for every hash function and capacity. The invariant: a symbol
has at most one slot, and every slot between a symbol's first probe and its slot is
taken, so that the first hit of a search is the symbol's own slot if it has one. Slots
are never freed, which is what keeps the second part true. When a search finds nothing,
all `kCapacity` slots are taken by other symbols (a cardinality argument).

### `CaptureWriter`, `AlpacaClient`, `LiveIngest`, `CaptureSession`, `ReplayFormat`, `LiveIngestProofs`

`CaptureWriter` is the class over a buffered stream: any part of the buffer may be in
the file, and the device may fill up at any write. `finalize()` is two steps, because
the buffer goes out at `seekp(0)` and the header after it.

`AlpacaClient` has the client's calls and a server that greets, answers and publishes.
`call` says where the thread is inside `read_frame()` and `establish()`; `session` is
what the server knows of the connection. A drop takes any tail of what was in flight.
The length of the backoff is abstracted to "a failed dial is tried again".

`LiveIngest` composes both under `main()`: the capture is opened, `require_env()` may
exit, three calls each followed by a logged response, then the loop. A frame is what
`parse()` makes of it: a number of records, or a throw. `Signal` sets the flag at any
time, `Kill` ends the process at any time, `Fatal` is the catch block with the
destructors behind it.

`CaptureSession` is the script around it: after the program has ended it takes the file
(`Leftovers`: what was written, cut anywhere the buffer or the device cut it), leaves if
it is empty, and gives it to `replay_bench` and `detect.py`. `ReplayFormat` has the file
as its size and header, and the two readers: `view_replay()` takes a prefix that the
header counts, `read_replay()` wants the size to match exactly.

Three independent invariants of the live program are proved, and from the first one what
the readers make of the file (`SessionReadBack`). *Capture*: on a healthy stream the records in
the file and in the buffer add up to the count and to what was validated, and nothing
is finalized before the end; `HeaderHonest` alone is not inductive because the header
gets the count, not the number of records in the file. *Subscription*: what the server
knows of an open connection is what the client's position (`pc` and `call`) says it has
told it, and from `subscribe()` on a reconnect replays the subscription. It covers the
drop inside start-up, where `establish()` has already authenticated and start-up
does so again. *Start-up* (`StartInv`): until `main()` has subscribed, only answers are in
flight, over however many connections, and then the answer to the subscription, or to the
one that replaced it, is ahead of all data; so none of the three logged responses is a
frame of market data (`NoDataDiscarded`).

From the last two comes the safety half of each liveness property. `ReadsNeverStranded`:
wherever `read_frame()` blocks, a frame is under way, or the read is about to fail, or the
server has the subscription; during start-up the answer to each request is under way
(`AnswerInv`), also when the request was lost with its connection, because the reconnect
brings answers of its own. `StopBringsEnd`: once the flag is set, every step of `main()`
leads to a place of lower rank (`ToEnd`) or handles a record of the last frame.

### `Dataset`, `Replay`, `ReplayProofs`

`Dataset` is the generator: `StartWindow` draws the window's defect and number of trades,
`EmitTrade`, `EmitQuote` and `EmitBar` are the bodies of its loops, each of which ends
when there are enough records. Draws are choices; `MaxOdd` bounds how many of them in a
data set may be a defect or the unusual price move, so that at most two defects meet.
`label` remembers the defect of each record. `WriteFile` leaves any part of the file,
because nobody checks the writes.

`Replay` runs one of three programs on the file. `replay_bench`: a warm pass that fills
the counters, then the timed passes. `replay_bench_mt`: `Partition`, threads that go
through `Ready`, `PassGate`, `Pass` and `End`, and a `main()` that waits for them
(`TakeT0`), opens the gate and joins. `replay_bench_spsc`: `Push` and `Pop` on the bounded
FIFO that `SpscRing` implements, and one validator for all passes. A validator is one
state for each of at most `kCapacity` symbols, which is what the table is proved to
implement; a symbol that finds the table full gets the stateless checks (`JudgeOne`). The
generator takes any number of symbols, so a data set may have more than the 4096 slots, and
each thread has a table of its own. A thread's pass over its own buffer is one step: nothing
in it is shared.

Prices are in tenths of a cent, on which 0.1% of every price from the floor of one dollar up
shows, and the run's sizes are equal, so that averages are whole; a trade moves the price by
half a dollar up or down, the ends of the generator's range; windows have 2 trades where the
program draws 8 to 12. A data set has at least one record; the file without records is
`CaptureSession`'s.

`DefectsExplained` has one exception that no run of this size reaches: `Cheap`, a symbol that
has traded below 66 dollars. The reference follows a price that moves by at most 0.5 a trade
with a factor of 0.2, so it is at most 0.5 / 0.2 = 2.5 away; a trade that does not move it, a
spike or a corrupt one, adds 0.5, of which, with eight trades to a window, at most 0.63 is left
to add up: 3.13 is within the band of 5% while the reference is at least 62.6, which it is
while the price has been at least 66. Below that nothing is claimed of the band, and there the
program does flag clean records (see the disagreements). Prices start at 100 dollars: the
run's data sets stay above the line, and are judged without the exception.

The gate's invariant: while `main()` waits, `ready` is the number of threads at the gate
and none is past it; the clock runs exactly from `TakeT0` to `Join`; and outside of a
`run()` every thread has ended. Without the count, `ready >= T` says nothing about the
threads. It gives `TimedExactly` for every sweep of thread counts.

`AsSequential` is proved from three invariants. `DataInv`: the records are of the data
set's symbols, there are `n` of them once there is a file, and a program that got past the
view replays all of them. `ShardInv`: while threads run, their buffers are the partition
for that number of threads. `PipeInv`: what the consumer has taken and then the ring are the
records in order, round and round, and the pipeline's verdicts are those of one validator
over what was taken. The argument for the threads is about `Judging` and `Partition`:
after any number of records, each symbol with a slot in the one validator over the whole
data set has a slot and the same state and verdicts in its owner's shard, because a record
changes the state of its own symbol only and all records of a symbol go to one thread in
their order. That the shard has the slot needs two facts more (`Agrees`, `AllSeen`): while
the one table has room every symbol so far is in it, and then the shard's symbols are among
them, so the shard's table has room as well. A symbol that found the one table full may
have got a slot in its shard. Its records then have the stateless flags and maybe stateful
ones, which is why `AsSequential` (`AsOne`) asks for equal flags where one validator has a
slot and for no flag lost elsewhere. The counts of `replay_bench_mt` may so differ from
one thread count to the next, but only by records of more than 4096 symbols.

The programs' end is proved up to the scheduler. `ProgramsNeverStuck`: while a program runs
somebody's wait is over, at the gate because `ready` counts the threads, in the join because
the gate is open, on the ring because a consumer that has to wait leaves it empty.
`ProgramsAdvance`: every step lowers a lexicographic measure, the thread counts still to be
tried, then whether the threads are started, then what `main()`, the threads (a set of pairs
of a thread and a stage, whose number falls), the passes or the ring have left.

## Runs

| Run | Instance | Shows |
|---|---|---|
| `arbitrator` | window 2, range limit 3, sequences 0..5, 2 payloads, 4 packets | refinement of the ordered feed, order, exactly-once-or-gap, payload integrity, no aliasing, conservation, prompt release, `flush()` strands nothing, every call returns |
| `venue_book` | 2 levels a side, 4 prices, sizes up to 2 | sorted sides, exact sizes, complete while the venue's side fits |
| `venue_book_best` | sizes up to 1 | *violated*: the best `MaxLevels` levels are not held after an eviction and a removal |
| `builder` | `OrderBook` of 2 levels, buffer of 2, 4 deltas of one price | a live book is exact, never goes back, and comes back |
| `spsc` | 2 slots, cursors modulo 4, 6 items | no race, FIFO, all slots usable, `size_approx` in range, all items delivered |
| `feed` | window 2, 4 packets, lead 2, one stray datagram | only sequences lost on both lines are gaps, all delivered records are validated, the report is printed |
| `feed_drain` | lead 3 | *violated*: draining A first gives up a sequence whose copy waits on B |
| `symbol_stream` | width 3, run 3, 5 records of 7 kinds | bars rebuilt exactly, gaps add up, the band follows moves and not outliers |
| `validator` | 3 slots, 4 symbols, clustered hashes | every record is judged as if its symbol had a validator of its own |
| `live` | 2 drops, 4 frames in flight, 4 records | subscribed whenever it waits, no data thrown away at start-up, capture complete on return, resumes, stops; both readers see the same complete records of whatever is left |
| `session_no_data` | no drops, 3 frames in flight, 2 records | *violated*: a session without data is replayed |
| `replay` | 20 records (four windows) of 3 symbols, tables of 2 slots, 2 odd draws, 2 passes, 1 and then 3 threads, ring of 2 | counters explained by the injected defects, sharded and pipelined verdicts those of one validator, also when its table is full, clock over the work only, every program ends |

The bounds are chosen so that the hard cases occur: the sequence number wraps with
packets held, two sequences share a slot, the range limit rejects, cursors wrap
twice, the buffer overflows with a snapshot pending, a probe wraps around the end
and the table is full, a window of trades follows another with a corrupt tick in
between, three outliers in a row re-anchor, a thread has no symbol to validate, a symbol
is refused by one validator and tracked in a shard, the ring is full. The builder's deltas set and remove one price:
its steps touch the book only through `Apply` and `FromLevels`, of which it needs the two
assumptions that TLC evaluates on books of up to two levels and `OrderBookFitsBuilder`
proves for all; books of any shape are the theorem's (`LiveExact`), not the run's. Every counter in a model is bounded by a
named constant.

### Fairness

* `arbitrator`: weak fairness of a running call, a thread that is scheduled.
* `builder`: a running call finishes, and the venue keeps pushing snapshots of its
  current book, one of which is taken if the builder is free again and again.
* `spsc`: both threads spin (`replay_bench_spsc.cpp`); strong fairness of the loads
  that return the newest value, because a store becomes visible in finite time.
* `feed`: the handler's thread runs, and an iteration that finds nothing again and
  again finds its idle time past the limit (strong fairness of `GiveUp`).
* `live`: the program's thread runs; a dial tried again and again succeeds some time
  (strong fairness of `Redial`); the feed keeps delivering. The last is needed for
  `StopHonoured`: the flag is looked at between frames, so on a silent feed Ctrl+C
  waits for the next one. A lost peer is taken to fail the read, which is what
  `idle_timeout` is set for; that it does so is the library's part.

* `replay`: every thread, and `main()`, is scheduled. The generator and the choice of the
  program are not fair: a run may end before them.

### Disagreements between code and comments

* `order_book.h:11,22` promise the best `MaxLevels` levels. A level dropped or evicted
  does not come back when a better one is removed (`venue_book_best`).
* `feed_handler.cpp:50,100` call A's backlog cosmetic and gaps "lost on both". With a
  backlog longer than the window a sequence waiting on B is given up (`feed_drain`).
* `scripts/capture_session.sh:58` and `docs/runbook.md:277` take an empty file for a session
  without data. The header is written on every return of the program, so a session that
  captured nothing and stopped, or never connected, leaves 16 bytes, and
  `replay_bench.cpp:153` divides by their count of 0 (`session_no_data`). On x86 the
  division ends the program by SIGFPE; on arm64 it gives 0.

Seen while modelling, without a run of their own:

* `book_builder.h:49,115` say an overflow needs a newer snapshot. `on_snapshot()` does
  not look at it: an older one is committed, and the lost delta shows up as another
  gap. The live book is still exact at the sequence it claims (`LiveExact`).
* `parser.h:34-35` says an unparseable message is reported in the result. A bad
  timestamp throws out of `parse()` (`parser.cpp:60`) and ends the program
  (`alpaca_ingest.cpp:205`); the capture is still complete (`CaptureComplete`).
* `udp_multicast.h:67` says oversized datagrams are rejected, but `recv()` cuts them to the
  buffer's size and they are accepted (`FeedHandler!Accepted`).
* `capture_writer.h:19` says a graceful stop always leaves a valid file; after a device
  failure `finalize()` returns early and the header says 0 records, which is why
  `CaptureComplete` assumes a healthy stream.
* `binary_format.h:60` says the Python reader enforces the same rule. The C++ view accepts
  any file at least as long as its header's count says, `read_replay()` only one of exactly
  that length: of a capture that was killed, whose header still counts 0, the one shows no
  records and the other refuses the file. `ReadersAgree` is that they never show different
  records.
* `gen_dataset.cpp:92-93` says the injected violations are isolated and the counts
  explainable. A spike in a symbol's first trade becomes its reference price and the clean
  trades after it are flagged, a gap or a regression in a first record shows nowhere, a
  vwap off by 0.1% may leave the bar's range as well, and defects only the stateful checks
  see are missed for symbols beyond the table's 4096. `DefectsExplained` names these.
* The same comment fails for the price band once a symbol is cheap. A walk of up to half a
  dollar a trade (`gen_dataset.cpp:74,137`), held at one dollar (`:138`), leaves a band of 5%
  around a lagging reference: a steady fall does below a reference of 50, a single move below
  one of 10. The default data set (a million records, 8 symbols, lowest price 44.46) has 780
  band breaches for its 780 spikes. `gen_dataset <file> 10000000 1` comes down to the floor, and
  `replay_bench` counts 27440 breaches on it: 7735 are the spikes, 17169 clean trades, the
  highest at 32.38, and 2536 clean quotes. TLC does not reach that region (more than a hundred
  falling trades); `DefectsExplained` excludes it by `Cheap`.

### What the models show and no comment denies

* Arbitrator: the stream is anchored at the first packet seen, so earlier sequences
  that are still on the other line count as duplicates. After a jump beyond
  `kMaxGap` in the real stream every later packet is out of range.
* Validator: a sequence number that goes back is not flagged; the third outlier in a row
  becomes the reference; records of symbols that found the table full get the
  stateless checks only.
* Live program: the old capture is truncated before `require_env()` can exit. Trades,
  quotes and bars of one frame are handled in that order, not in the frame's. A write
  that fails outside `read_frame()` ends the program, while a read that fails does not.
  A drop during start-up leads to a second authentication, which the server answers
  with an error that is logged.

## Proved

For every value of the constants that satisfies the named assumptions
(`WindowAssumption` and the like, next to the constants):

* arbitrator: types, window and occupancy, no aliasing, order, exactly once,
  integrity, gaps only below what was heard, both counter equations, that `flush()`
  drains, refinement of the ordered feed, and a bound on the steps of a call;
* order book: `BestFirst`, `KeptLevelsExact`, `ExactWithinDepth`, when `BestLevels` is
  lost, that a rebuild shows the best of a snapshot, and the builder's assumptions;
* builder: types, `LiveExact`, that the sequence never goes back, the exact verdict on a
  snapshot, that a current one is taken, and a bound on the steps of a call;
* ring, both variants: types, race freedom, `size_approx` in range, all slots usable,
  refinement of the FIFO;
* one symbol's stream: types, `GapsAddUp`, `ReferenceWithinTraded`,
  `SustainedMoveAccepted`, `OutlierDoesNotPoison`, `AccumulatorExact`, `BarVerdictExact`;
* validator: the table refines one state per symbol;
* feed handler: it drives the arbitrator as specified and is an ordered feed; `NoFalseGaps` and
  `HandledIsValidated` under `SkewWithinWindow` and `NoLookalikes`;
* live session: `HeaderHonest`, `CaptureComplete`, `SubscriptionHeld`, `ReadersAgree`,
  `NoDataDiscarded`, that no read is stranded, and that after the signal every step leads
  to the end;
* sharded and pipelined replay: `TimedExactly`, `AsSequential` for every number of symbols and
  of slots; all three programs are never stuck and nearer to their end with every step.

`Sum`, `Judging`, `Partition` and `Rebuilt` are functions defined by recursion on a number. The
provers cannot instantiate the library's induction theorems, so induction over the numbers
is proved once for a set (`NumbersByInduction`): the numbers below n form a finite set, strict
inclusion of finite sets is well founded, and so a nonempty set of numbers has a least
member. From it come, for each of these functions, that it exists, its value at every
number, and what one more element at the end changes.

`SequencesExt` is kept out of most of the proved modules: its definitions slow every
obligation down.

Only model-checked: the liveness properties themselves (TLAPS does not reason about
fairness here), and `DefectsExplained`. For `CallReturns`, `Recovers`, `Resumes`,
`StopHonoured` and `Finishes` the theorems above say that nobody waits in vain and that every
step counts, which leaves the scheduler to TLC; for `AllDelivered` and `Reports`, which
also rest on when a store becomes visible and on a timeout, nothing of the kind is proved. Which counters a defect raises depends on the sizes of the
defects, of the price moves and of the band, and on the rounding of the moving average,
so it cannot hold for every value of the constants; it is checked with the program's defects,
band and start prices, on data sets of the run's length. That no price above 66 dollars
breaks it in a longer one is the calculation given with `Replay`, not a result of TLC.

## Not modelled

* JSON decoding field by field, timestamp parsing, wire conversion and the formatting of
  reports: no state is kept between two messages, and the models' properties do not tell
  their results apart. `backoff_ceiling()` is a pure function that chooses a delay; the
  number of attempts changes nothing else.
* Socket set-up, TLS, the websocket's closing handshake, timers, latency histograms, core
  pinning: I/O and hardware. `replay_bench_rdtsc.cpp` makes the passes of `replay_bench` around
  a hardware counter and has no state of its own; the first part of
  `replay_bench_spsc.cpp` is the two threads of `SpscRing`.
* The server is taken to accept the credentials, and `auto_reconnect` to be on.
* `hardware_concurrency()` is taken to be at least 1 (`replay_bench_mt.cpp:143`).
* The layout of a record's body in the file, pinned by `static_assert`s on both sides, and
  `ml/replay_writer.py`. The version banner.
* The ML scripts: sequential floating-point code over arrays.
* Floating point: rounding, NaN and the tolerance.
* Book sequence numbers do not wrap in `BookBuilder`; its statistics saturate.

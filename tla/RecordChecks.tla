---------------------------- MODULE RecordChecks -----------------------------
(***************************************************************************)
(* The checks of src/validate/validator.cpp on the state kept for one      *)
(* symbol.  A check maps a slot and a record to the slot afterwards, the   *)
(* flags raised and the gap counted.                                       *)
(*                                                                         *)
(* Prices are integers on a fine grid, so the 1e-6 tolerance of            *)
(* approx_equal() is equality, and the moving average is rounded down to   *)
(* the grid.  Sequence numbers have a width.                               *)
(***************************************************************************)
EXTENDS Integers

CONSTANTS
  SeqWidth,           \* sequence numbers are below this (2^64)
  kBandReanchorRun    \* consecutive outliers that re-anchor the reference

ASSUME ChecksAssumption ==
  SeqWidth \in Nat \ {0, 1} /\ kBandReanchorRun \in Nat \ {0}

Streams == {"trade", "bar", "quote"}

EmptySlot ==
  [last_ts |-> [s \in Streams |-> 0], last_seq |-> 0, seen |-> FALSE,
   ref_price |-> 0, ref_init |-> FALSE, breach_run |-> 0,
   has_trades |-> FALSE, acc_count |-> 0, acc_volume |-> 0, acc_pv |-> 0,
   acc_open |-> 0, acc_high |-> 0, acc_low |-> 0, acc_close |-> 0]

Flag(cond, f) == IF cond THEN {f} ELSE {}

-----------------------------------------------------------------------------
(* Stateless checks                                                        *)

ValidTrade(t) == t.price > 0 /\ t.size # 0

TradeFlags(t) ==
  Flag(t.price <= 0, "TradeNonPositivePrice") \cup Flag(t.size = 0, "TradeNonPositiveSize")

BarFlags(b) ==
  LET outside(p) == p < b.low \/ p > b.high IN
  Flag(b.low > b.high, "BarLowAboveHigh")
    \cup Flag(outside(b.open), "BarOpenOutOfRange")
    \cup Flag(outside(b.close), "BarCloseOutOfRange")
    \cup Flag(outside(b.vwap), "BarVwapOutOfRange")
    \cup Flag(\E p \in {b.open, b.high, b.low, b.close} : p <= 0, "BarNonPositivePrice")
    \cup Flag((b.trade_count = 0) # (b.volume = 0), "BarVolumeInconsistent")

QuoteFlags(q) ==
  Flag(q.bid <= 0 \/ q.ask <= 0, "QuoteNonPositive")
    \cup Flag(q.bid_size = 0 \/ q.ask_size = 0, "QuoteZeroSize")
    \cup Flag(q.bid > q.ask, "QuoteCrossed")
    \cup Flag(q.bid = q.ask, "QuoteLocked")

-----------------------------------------------------------------------------
(* check_sequencing()                                                      *)

Regressed(s, stream, ts) == s.last_ts[stream] # 0 /\ ts < s.last_ts[stream]

\* Fault: the jump is counted instead of what it skips.
GapBeforeJump(s, seq) ==
  IF s.seen /\ seq > (s.last_seq + 1) % SeqWidth
  THEN (seq - s.last_seq) % SeqWidth ELSE 0

GapBefore(s, seq) ==
  IF s.seen /\ seq > (s.last_seq + 1) % SeqWidth
  THEN (seq - s.last_seq - 1) % SeqWidth ELSE 0

Sequenced(s, stream, ts, seq) ==
  [s EXCEPT !.last_ts[stream] = ts, !.seen = TRUE, !.last_seq = seq]

SequencingFlags(s, stream, ts, seq) ==
  Flag(Regressed(s, stream, ts), "TimestampRegression")
    \cup Flag(s.seen /\ seq > (s.last_seq + 1) % SeqWidth, "SequenceGap")

-----------------------------------------------------------------------------
(* check_price_band(): 5% around a moving average of weight 1/5            *)

Distance(p, q) == IF p < q THEN q - p ELSE p - q
OutOfBand(p, ref) == 20 * Distance(p, ref) > ref
Ewma(p, ref) == (p + 4 * ref) \div 5

Breaches(s, p) == s.ref_init /\ OutOfBand(p, s.ref_price)

\* Faults: no re-anchor; outliers move the average.
BandedNoReanchor(s, p) ==
  IF ~s.ref_init THEN [s EXCEPT !.ref_price = p, !.ref_init = TRUE]
  ELSE IF ~OutOfBand(p, s.ref_price) THEN [s EXCEPT !.ref_price = Ewma(p, @)]
  ELSE s
BandedTracksAll(s, p) ==
  IF ~s.ref_init THEN [s EXCEPT !.ref_price = p, !.ref_init = TRUE]
  ELSE [s EXCEPT !.breach_run = 0, !.ref_price = (p + @) \div 2]

\* The run of outliers is over; the reference moves.
Rebased(s, ref) == [s EXCEPT !.breach_run = 0, !.ref_price = ref]

Banded(s, p) ==
  IF ~s.ref_init THEN [s EXCEPT !.ref_price = p, !.ref_init = TRUE]
  ELSE IF ~OutOfBand(p, s.ref_price) THEN Rebased(s, Ewma(p, s.ref_price))
  ELSE IF s.breach_run + 1 >= kBandReanchorRun THEN Rebased(s, p)
  ELSE [s EXCEPT !.breach_run = @ + 1]

-----------------------------------------------------------------------------
(* accumulate() and reconcile()                                            *)

\* Fault: the low of the last window is not forgotten.
AccumulatedStaleLow(s, p, size) ==
  [s EXCEPT !.has_trades = TRUE,
            !.acc_open  = IF s.has_trades THEN @ ELSE p,
            !.acc_high  = IF s.has_trades /\ p <= @ THEN @ ELSE p,
            !.acc_low   = IF @ # 0 /\ p >= @ THEN @ ELSE p,
            !.acc_close = p,
            !.acc_count = @ + 1, !.acc_volume = @ + size, !.acc_pv = @ + p * size]

Accumulated(s, p, size) ==
  [s EXCEPT !.has_trades = TRUE,
            !.acc_open  = IF s.has_trades THEN @ ELSE p,
            !.acc_high  = IF s.has_trades /\ p <= @ THEN @ ELSE p,
            !.acc_low   = IF s.has_trades /\ p >= @ THEN @ ELSE p,
            !.acc_close = p,
            !.acc_count = @ + 1, !.acc_volume = @ + size, !.acc_pv = @ + p * size]

ReconcileFlags(s, b) ==
  IF ~s.has_trades THEN {}
  ELSE Flag(s.acc_volume # b.volume, "BarVolumeReconstructMismatch")
         \cup Flag(s.acc_count # b.trade_count, "BarTradeCountReconstructMismatch")
         \cup Flag(s.acc_volume # 0 /\ s.acc_pv # b.vwap * s.acc_volume,
                   "BarVwapReconstructMismatch")
         \cup Flag(<<s.acc_open, s.acc_high, s.acc_low, s.acc_close>>
                     # <<b.open, b.high, b.low, b.close>>, "BarOhlcReconstructMismatch")

\* Fault: the price-volume sum is not reset.
ReconciledKeepsPv(s) ==
  IF ~s.has_trades THEN s
  ELSE [s EXCEPT !.has_trades = FALSE, !.acc_count = 0, !.acc_volume = 0]

\* The open, high, low and close of the last window stay behind.
Reconciled(s) ==
  IF ~s.has_trades THEN s
  ELSE [s EXCEPT !.has_trades = FALSE, !.acc_count = 0, !.acc_volume = 0, !.acc_pv = 0]

-----------------------------------------------------------------------------
(* check(): the slot afterwards, and the flags, for a symbol that has one  *)

\* Fault: a corrupt trade reaches the price band.
CheckedTradeAny(s, t) ==
  LET q == Sequenced(s, "trade", t.ts, t.seq) IN
  IF ValidTrade(t) THEN Banded(Accumulated(q, t.price, t.size), t.price)
  ELSE Banded(q, t.price)

CheckedTrade(s, t) ==
  LET q == Sequenced(s, "trade", t.ts, t.seq) IN
  IF ValidTrade(t) THEN Banded(Accumulated(q, t.price, t.size), t.price) ELSE q

CheckedBar(s, b) == Reconciled(Sequenced(s, "bar", b.ts, b.seq))

CheckedQuote(s, q) == Sequenced(s, "quote", q.ts, q.seq)

\* A quote is held against the reference and does not move it; 2 * mid = bid + ask.
MidOutOfBand(s, q) ==
  /\ s.ref_init /\ q.bid > 0 /\ q.ask > 0
  /\ 20 * Distance(q.bid + q.ask, 2 * s.ref_price) > 2 * s.ref_price

Checked(s, r) ==
  CASE r.type = "trade" -> CheckedTrade(s, r)
    [] r.type = "bar" -> CheckedBar(s, r)
    [] r.type = "quote" -> CheckedQuote(s, r)

StatelessFlags(r) ==
  CASE r.type = "trade" -> TradeFlags(r)
    [] r.type = "bar" -> BarFlags(r)
    [] r.type = "quote" -> QuoteFlags(r)

StatefulFlags(s, r) ==
  SequencingFlags(s, r.type, r.ts, r.seq) \cup
    CASE r.type = "trade" -> Flag(ValidTrade(r) /\ Breaches(s, r.price), "PriceBandBreach")
      [] r.type = "bar" -> ReconcileFlags(s, r)
      [] r.type = "quote" -> Flag(MidOutOfBand(s, r), "PriceBandBreach")

Verdict(s, r) ==
  [flags |-> StatelessFlags(r) \cup StatefulFlags(s, r), gap |-> GapBefore(s, r.seq)]
=============================================================================

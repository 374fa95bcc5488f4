-------------------------- MODULE BarReconstruction --------------------------
(***************************************************************************)
(* The bars rebuilt from trades, by accumulate() and reconcile(), against  *)
(* the aggregate of those trades.                                          *)
(***************************************************************************)
EXTENDS SymbolStream, FiniteSetsExt

\* The sum of a sequence of numbers.
Sum(q) ==
  LET upto[i \in 0..Len(q)] == IF i = 0 THEN 0 ELSE upto[i-1] + q[i] IN upto[Len(q)]

\* What the venue would publish for these trades.
Prices(w) == {w[i].price : i \in DOMAIN w}
Sizes(w) == [i \in DOMAIN w |-> w[i].size]
Values(w) == [i \in DOMAIN w |-> w[i].price * w[i].size]
Aggregate ==
  [open |-> window[1].price, close |-> window[Len(window)].price,
   high |-> Max(Prices(window)), low |-> Min(Prices(window)),
   volume |-> Sum(Sizes(window)), trade_count |-> Len(window),
   pv |-> Sum(Values(window))]

\* The incremental accumulator is the aggregate of the valid trades since the last
\* bar, whatever came in between (quotes, corrupt ticks, outliers) and whatever an
\* earlier window left behind.
AccumulatorExact ==
  /\ slot.has_trades <=> window # <<>>
  /\ window # <<>> =>
       [open |-> slot.acc_open, close |-> slot.acc_close, high |-> slot.acc_high,
        low |-> slot.acc_low, volume |-> slot.acc_volume,
        trade_count |-> slot.acc_count, pv |-> slot.acc_pv] = Aggregate

ReconstructFlags ==
  {"BarVolumeReconstructMismatch", "BarTradeCountReconstructMismatch",
   "BarVwapReconstructMismatch", "BarOhlcReconstructMismatch"}

\* A bar is accused by the reconstruction exactly if it differs from what its
\* constituent trades make; without trades it is never accused.
BarVerdictExact ==
  [][\A b \in Record(Bars) : CheckBar(b) =>
       LET agg == Aggregate
           honest == /\ <<agg.open, agg.high, agg.low, agg.close>>
                          = <<b.open, b.high, b.low, b.close>>
                     /\ <<agg.volume, agg.trade_count>> = <<b.volume, b.trade_count>>
                     /\ agg.pv = b.vwap * b.volume
       IN  (result'.flags \cap ReconstructFlags = {}) <=> (window = <<>> \/ honest)]_vars
=============================================================================

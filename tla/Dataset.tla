------------------------------- MODULE Dataset -------------------------------
(***************************************************************************)
(* The data set generator (src/bin/gen_dataset.cpp): windows of trades and *)
(* quotes of one symbol closed by the bar built from them, at most one     *)
(* injected defect per window, written out as a replay file.  The random   *)
(* draws are choices.  Prices are in tenths of a cent, on which 0.1% of    *)
(* any price of the walk shows; times are in milliseconds.                 *)
(***************************************************************************)
EXTENDS Integers, Sequences, ReplayFormat

CONSTANTS
  Symbols,       \* the symbols, in the order they take turns
  n,             \* records asked for
  TradeCounts,   \* trades of a window
  Jitters,       \* price moves
  UsualJitter,   \* the one among them that is free
  Sizes,         \* trade sizes
  MaxOdd         \* bound: draws of a defect or of another price move

ASSUME DatasetAssumption ==
  /\ Symbols \in Seq({Symbols[i] : i \in DOMAIN Symbols}) /\ Len(Symbols) >= 1 /\ n \in Nat
  /\ TradeCounts \subseteq Nat \ {0} /\ Jitters \subseteq Int /\ Sizes \subseteq Nat \ {0}
  /\ UsualJitter \in Jitters /\ MaxOdd \in Nat

VARIABLES
  seq, ts, px,   \* per symbol: last sequence number, last time, price
  s,             \* whose turn it is
  window,        \* what is left of the window: its defect, records to come, aggregate
  records,       \* the records so far
  label,         \* the defect injected into each of them, or "clean"
  odd,           \* draws so far that were not the usual one
  file           \* the file as it is on disk; no bytes when there is none

dataset == <<seq, ts, px, s, window, records, label, odd, file>>

Dollar == 1000

TradeDefects == {"corrupt_trade", "seq_gap", "ts_regress", "price_spike"}
QuoteDefects == {"quote_crossed", "quote_locked"}
BarDefects == {"recon_volume", "recon_count", "recon_vwap", "recon_ohlc", "band"}
Defects == {"clean"} \cup TradeDefects \cup QuoteDefects \cup BarDefects

NoTrades == [have |-> FALSE, vol |-> 0, cnt |-> 0, pv |-> 0,
             open |-> 0, high |-> 0, low |-> 0, close |-> 0]
Closed == [defect |-> "clean", first |-> FALSE, trades |-> 0, quotes |-> 0,
           bar |-> FALSE, acc |-> NoTrades]
NoFile == File(0, Header(0))

DatasetInit ==
  /\ seq = [i \in DOMAIN Symbols |-> 1]
  /\ ts = [i \in DOMAIN Symbols |-> 100 + i]
  /\ px = [i \in DOMAIN Symbols |-> 100 * Dollar + ((i - 1) % 50) * 10 * Dollar]
  /\ s = Len(Symbols) /\ window = Closed
  /\ records = <<>> /\ label = <<>> /\ odd = 0 /\ file = NoFile

Room == Len(records) < n

Draw(usual) == odd' = (IF usual THEN odd ELSE odd + 1) /\ odd' <= MaxOdd

\* The record goes out, with the defect if it is this one that carries it.
Emit(r, hit) ==
  /\ records' = Append(records, r)
  /\ label' = Append(label, IF hit THEN window.defect ELSE "clean")
  /\ ts' = [ts EXCEPT ![s] = @ + 1]
  /\ UNCHANGED <<s, file>>

-----------------------------------------------------------------------------
StartWindow ==
  /\ Room /\ window = Closed
  /\ s' = (s % Len(Symbols)) + 1
  /\ \E defect \in Defects, k \in TradeCounts :
       /\ Draw(defect = "clean")
       /\ window' = [defect |-> defect, first |-> TRUE, trades |-> k, quotes |-> 2,
                     bar |-> TRUE, acc |-> NoTrades]
  /\ UNCHANGED <<seq, ts, px, records, label, file>>

AddTrade(acc, t) ==
  [have |-> TRUE, vol |-> acc.vol + t.size, cnt |-> acc.cnt + 1,
   pv |-> acc.pv + t.price * t.size,
   open |-> IF acc.have THEN acc.open ELSE t.price,
   high |-> IF acc.have /\ t.price <= acc.high THEN acc.high ELSE t.price,
   low |-> IF acc.have /\ t.price >= acc.low THEN acc.low ELSE t.price,
   close |-> t.price]

\* Fault: a tick without a valid price is part of the aggregate.
AggregatedAny(acc, t) == AddTrade(acc, t)

\* Only valid trades feed the aggregate; the corrupt one is the only invalid one.
Aggregated(acc, t) == IF t.price < 0 THEN acc ELSE AddTrade(acc, t)

\* A trade defect lands on the first trade of the window.
EmitTrade(jitter, size) ==
  LET d == IF window.first THEN window.defect ELSE "clean"
      p == IF px[s] + jitter < Dollar THEN Dollar ELSE px[s] + jitter
      q == seq[s] + (IF d = "seq_gap" THEN 4 ELSE 1)
      t == [type |-> "trade", symbol |-> Symbols[s], seq |-> q,
            ts |-> ts[s] + 1 - (IF d = "ts_regress" THEN 5 ELSE 0),
            price |-> CASE d = "corrupt_trade" -> -Dollar
                        [] d = "price_spike" -> (p * 8) \div 5
                        [] OTHER -> p,
            size |-> size]
  IN  /\ Room /\ window.trades > 0 /\ Draw(jitter = UsualJitter)
      /\ Emit(t, window.first /\ d \in TradeDefects)
      /\ seq' = [seq EXCEPT ![s] = q] /\ px' = [px EXCEPT ![s] = p]
      /\ window' = [window EXCEPT !.first = FALSE, !.trades = @ - 1,
                                  !.acc = Aggregated(@, t)]

\* Two quotes; a quote defect lands on the first.
EmitQuote ==
  LET d == IF window.quotes = 2 THEN window.defect ELSE "clean"
      spread == CASE d = "quote_crossed" -> -(Dollar \div 20)
                  [] d = "quote_locked" -> 0
                  [] OTHER -> Dollar \div 20
  IN  /\ Room /\ window.trades = 0 /\ window.quotes > 0
      /\ Emit([type |-> "quote", symbol |-> Symbols[s], seq |-> seq[s] + 1, ts |-> ts[s] + 1,
               bid |-> px[s] - spread, ask |-> px[s] + spread,
               bid_size |-> 1, ask_size |-> 1], d \in QuoteDefects)
      /\ seq' = [seq EXCEPT ![s] = @ + 1]
      /\ window' = [window EXCEPT !.quotes = @ - 1]
      /\ UNCHANGED <<px, odd>>

\* The bar, from the aggregate; a bar defect perturbs it.
EmitBar ==
  LET d == window.defect
      a == window.acc
      vwap == IF a.vol # 0 THEN a.pv \div a.vol ELSE a.open
  IN  /\ Room /\ window.trades = 0 /\ window.quotes = 0 /\ window.bar
      /\ Emit([type |-> "bar", symbol |-> Symbols[s], seq |-> seq[s] + 1, ts |-> ts[s] + 1,
               open |-> a.open, close |-> a.close,
               high |-> IF d = "recon_ohlc" THEN a.high + 5 * Dollar ELSE a.high,
               low |-> IF d = "band" THEN a.high + 5 * Dollar ELSE a.low,
               vwap |-> IF d = "recon_vwap" THEN vwap + vwap \div 1000 ELSE vwap,
               volume |-> IF d = "recon_volume" THEN a.vol + 100 ELSE a.vol,
               trade_count |-> IF d = "recon_count" THEN a.cnt + 1 ELSE a.cnt],
              d \in BarDefects)
      /\ seq' = [seq EXCEPT ![s] = @ + 1]
      /\ window' = Closed
      /\ UNCHANGED <<px, odd>>

-----------------------------------------------------------------------------
\* The sizes at which a write may have stopped: around the header, the first and the
\* last record.
Cuts ==
  {0, HeaderSize - 1, HeaderSize, HeaderSize + Stride * n}
    \cup {HeaderSize + Stride * k - 1 : k \in {1, n}}

\* Every loop ends when the records are there.  Nobody looks at what fwrite() and
\* fclose() return: any part of the file may reach the disk, nothing of it included.
WriteFile ==
  /\ ~Room /\ file = NoFile
  /\ \E size \in Cuts : file' = File(size, Header(Len(records)))
  /\ UNCHANGED <<seq, ts, px, s, window, records, label, odd>>

Generate ==
  \/ StartWindow
  \/ \E j \in Jitters, z \in Sizes : EmitTrade(j, z)
  \/ EmitQuote \/ EmitBar \/ WriteFile
=============================================================================

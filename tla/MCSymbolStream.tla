--------------------------- MODULE MCSymbolStream ----------------------------
(***************************************************************************)
(* Prices in band of each other (100, 104), out of band (120) and corrupt  *)
(* (0); honest and dishonest bars for the windows they can make.           *)
(***************************************************************************)
EXTENDS BarReconstruction

Trade(ts, price, size) ==
  [type |-> "trade", ts |-> ts, seq |-> 0, price |-> price, size |-> size]
Bar(open, high, low, close, vwap, volume, count) ==
  [type |-> "bar", ts |-> 1, seq |-> 0, open |-> open, high |-> high, low |-> low,
   close |-> close, vwap |-> vwap, volume |-> volume, trade_count |-> count]
Quote(bid, ask) ==
  [type |-> "quote", ts |-> 1, seq |-> 0, bid |-> bid, ask |-> ask,
   bid_size |-> 1, ask_size |-> 1]

MCTrades == {Trade(1, 0, 1), Trade(1, 100, 1), Trade(2, 104, 3), Trade(1, 120, 1)}
MCBars == {Bar(100, 104, 100, 104, 103, 4, 2),
           Bar(104, 120, 104, 120, 108, 4, 2)}
MCQuotes == {Quote(119, 121)}
=============================================================================

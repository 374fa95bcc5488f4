---------------------------- MODULE SymbolStream -----------------------------
(***************************************************************************)
(* One symbol's records through the checks of the validator, next to what  *)
(* those records say when looked at as a whole.                            *)
(***************************************************************************)
EXTENDS RecordChecks, Sequences

CONSTANTS
  Trades, Bars, Quotes,   \* the records, but for their sequence number
  MaxRecords              \* bound: records fed

Record(set) == {[r EXCEPT !.seq = n] : r \in set, n \in 0..SeqWidth-1}

ASSUME RecordsAssumption ==
  /\ Trades \subseteq [type : {"trade"}, ts : Nat, seq : {0}, price : Int, size : Nat]
  /\ Bars \subseteq [type : {"bar"}, ts : Nat, seq : {0}, open : Int, high : Int, low : Int,
                     close : Int, vwap : Int, volume : Nat, trade_count : Nat]
  /\ Quotes \subseteq [type : {"quote"}, ts : Nat, seq : {0}, bid : Int, ask : Int,
                       bid_size : Nat, ask_size : Nat]
  /\ MaxRecords \in Nat

VARIABLES
  slot,      \* the symbol's entry of table_
  result,    \* what the last check() returned
  \* History, read by no check.
  fed,       \* number of records
  first,     \* sequence number of the first one
  missing,   \* sum of the gaps reported
  ordered,   \* every sequence number was above the one before
  window,    \* valid trades since the last bar
  lo, hi,    \* range of the valid trades' prices
  last,      \* price of the last valid trade
  repeats,   \* how many of the last valid trades had that price
  calm,      \* price of the last valid trade that was not an outlier
  outliers   \* valid trades since that one

stream == <<fed, first, missing, ordered>>
tape == <<window, lo, hi, last, repeats, calm, outliers>>
vars == <<slot, result, stream, tape>>

Init ==
  /\ slot = EmptySlot
  /\ result = [flags |-> {}, gap |-> 0]
  /\ fed = 0 /\ first = 0 /\ missing = 0 /\ ordered = TRUE
  /\ window = <<>> /\ lo = 0 /\ hi = 0 /\ last = 0 /\ repeats = 0 /\ calm = 0 /\ outliers = 0

\* check() of a record, and the history of the merged stream.
Check(r) ==
  /\ fed < MaxRecords
  /\ slot' = Checked(slot, r)
  /\ result' = Verdict(slot, r)
  /\ fed' = fed + 1
  /\ first' = IF fed = 0 THEN r.seq ELSE first
  /\ missing' = missing + GapBefore(slot, r.seq)
  /\ ordered' = (ordered /\ (fed = 0 \/ r.seq > slot.last_seq))

ValidTradeSeen(t) ==
  /\ ValidTrade(t)
  /\ window' = Append(window, t)
  /\ lo' = IF slot.ref_init /\ lo < t.price THEN lo ELSE t.price
  /\ hi' = IF slot.ref_init /\ hi > t.price THEN hi ELSE t.price
  /\ last' = t.price
  /\ repeats' = IF last = t.price THEN repeats + 1 ELSE 1
  /\ IF "PriceBandBreach" \in result'.flags
     THEN outliers' = outliers + 1 /\ UNCHANGED calm
     ELSE outliers' = 0 /\ calm' = t.price

CheckTrade(t) ==
  /\ Check(t)
  /\ ValidTradeSeen(t) \/ (~ValidTrade(t) /\ UNCHANGED tape)

CheckBar(b) ==
  /\ Check(b)
  /\ window' = <<>>
  /\ UNCHANGED <<lo, hi, last, repeats, calm, outliers>>

CheckQuote(q) == Check(q) /\ UNCHANGED tape

Next ==
  \/ \E t \in Record(Trades) : CheckTrade(t)
  \/ \E b \in Record(Bars) : CheckBar(b)
  \/ \E q \in Record(Quotes) : CheckQuote(q)

Spec == Init /\ [][Next]_vars

-----------------------------------------------------------------------------
(* Properties                                                              *)

SlotType ==
  [last_ts : [Streams -> Nat], last_seq : 0..SeqWidth-1, seen : BOOLEAN,
   ref_price : Nat, ref_init : BOOLEAN, breach_run : 0..kBandReanchorRun-1,
   has_trades : BOOLEAN, acc_count : Nat, acc_volume : Nat, acc_pv : Nat,
   acc_open : Nat, acc_high : Nat, acc_low : Nat, acc_close : Nat]

\* Every variable stays within its type; the breach counter is reset in time.
TypeOK ==
  /\ slot \in SlotType
  /\ result.gap \in 0..SeqWidth-1
  /\ fed \in Nat /\ first \in 0..SeqWidth-1 /\ missing \in Nat /\ ordered \in BOOLEAN
  /\ lo \in Nat /\ hi \in Nat /\ last \in Nat /\ repeats \in Nat
  /\ calm \in Nat /\ outliers \in Nat

\* On a stream in sequence order the gaps reported add up to the sequence numbers
\* that never came, over all three record types together.
GapsAddUp == ordered /\ fed > 0 => slot.last_seq - first + 1 = fed + missing

\* The reference is never outside the range of prices that traded: neither corrupt
\* ticks nor quotes can drag it.
ReferenceWithinTraded == slot.ref_init => slot.ref_price \in lo..hi

\* "a sustained move ... recovers instead of flagging forever": a price that printed
\* kBandReanchorRun times in a row is in band, wherever the reference was.
SustainedMoveAccepted ==
  repeats >= kBandReanchorRun => ~OutOfBand(last, slot.ref_price)

\* "one bad tick must not poison it": fewer than kBandReanchorRun outliers after a
\* normal print leave that print's price in band.
OutlierDoesNotPoison ==
  slot.ref_init /\ outliers < kBandReanchorRun => ~OutOfBand(calm, slot.ref_price)
=============================================================================

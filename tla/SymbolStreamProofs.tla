------------------------- MODULE SymbolStreamProofs --------------------------
(***************************************************************************)
(* Proofs about one symbol's stream, for every sequence width, re-anchor   *)
(* run and set of records: its gaps, its price band, and the bars rebuilt  *)
(* from its trades.                                                        *)
(***************************************************************************)
EXTENDS BarReconstruction, FiniteSetTheorems, TLAPS

\* The counter of outliers is exact until it re-anchors the reference; a price that
\* is still out of band has not printed more often than the counter says.
BandInv ==
  /\ slot.ref_init => slot.ref_price \in lo..hi /\ lo > 0
  /\ ~slot.ref_init => repeats = 0 /\ slot.breach_run = 0
  /\ slot.ref_init /\ OutOfBand(last, slot.ref_price) => repeats <= slot.breach_run
  /\ slot.ref_init /\ outliers < kBandReanchorRun =>
       outliers = slot.breach_run /\ ~OutOfBand(calm, slot.ref_price)

SeqInv ==
  /\ slot.seen <=> fed > 0
  /\ fed = 0 => missing = 0
  /\ GapsAddUp

IInv == TypeOK /\ SeqInv /\ BandInv

-----------------------------------------------------------------------------
(* What the checks leave in the slot                                       *)

\* check_sequencing() moves the cursors and nothing else.
LEMMA SequencedFields ==
  ASSUME NEW s \in SlotType, NEW st \in Streams, NEW ts \in Nat, NEW n \in 0..SeqWidth-1
  PROVE  /\ Sequenced(s, st, ts, n) \in SlotType
         /\ Sequenced(s, st, ts, n).last_seq = n /\ Sequenced(s, st, ts, n).seen = TRUE
         /\ Sequenced(s, st, ts, n).ref_price = s.ref_price
         /\ Sequenced(s, st, ts, n).ref_init = s.ref_init
         /\ Sequenced(s, st, ts, n).breach_run = s.breach_run
BY Zenon DEF Sequenced, SlotType

\* The fields that are not the accumulator's.
SameCore(q, s) ==
  /\ q.last_seq = s.last_seq /\ q.seen = s.seen
  /\ q.ref_price = s.ref_price /\ q.ref_init = s.ref_init /\ q.breach_run = s.breach_run

\* An update of one field of the accumulator.
LEMMA AccField ==
  ASSUME NEW s \in SlotType, NEW x \in Nat
  PROVE  /\ [s EXCEPT !.has_trades = TRUE] \in SlotType
         /\ SameCore([s EXCEPT !.has_trades = TRUE], s)
         /\ [s EXCEPT !.acc_open = x] \in SlotType /\ SameCore([s EXCEPT !.acc_open = x], s)
         /\ [s EXCEPT !.acc_high = x] \in SlotType /\ SameCore([s EXCEPT !.acc_high = x], s)
         /\ [s EXCEPT !.acc_low = x] \in SlotType /\ SameCore([s EXCEPT !.acc_low = x], s)
         /\ [s EXCEPT !.acc_close = x] \in SlotType /\ SameCore([s EXCEPT !.acc_close = x], s)
         /\ [s EXCEPT !.acc_count = x] \in SlotType /\ SameCore([s EXCEPT !.acc_count = x], s)
         /\ [s EXCEPT !.acc_volume = x] \in SlotType /\ SameCore([s EXCEPT !.acc_volume = x], s)
         /\ [s EXCEPT !.acc_pv = x] \in SlotType /\ SameCore([s EXCEPT !.acc_pv = x], s)
<1>1. [s EXCEPT !.has_trades = TRUE] \in SlotType /\ [s EXCEPT !.acc_open = x] \in SlotType
  BY Zenon DEF SlotType
<1>2. [s EXCEPT !.acc_high = x] \in SlotType /\ [s EXCEPT !.acc_low = x] \in SlotType
  BY DEF SlotType
<1>3. [s EXCEPT !.acc_close = x] \in SlotType /\ [s EXCEPT !.acc_count = x] \in SlotType
  BY DEF SlotType
<1>4. [s EXCEPT !.acc_volume = x] \in SlotType /\ [s EXCEPT !.acc_pv = x] \in SlotType
  BY DEF SlotType
<1> QED BY <1>1, <1>2, <1>3, <1>4, Zenon DEF SlotType, SameCore

\* accumulate() leaves cursors and reference alone.
LEMMA AccumulatedFields ==
  ASSUME NEW s \in SlotType, NEW p \in Nat, NEW size \in Nat
  PROVE  Accumulated(s, p, size) \in SlotType /\ SameCore(Accumulated(s, p, size), s)
<1> DEFINE open == IF s.has_trades THEN s.acc_open ELSE p
           high == IF s.has_trades /\ p <= s.acc_high THEN s.acc_high ELSE p
           low == IF s.has_trades /\ p >= s.acc_low THEN s.acc_low ELSE p
           count == s.acc_count + 1
           volume == s.acc_volume + size
           pv == s.acc_pv + p * size
           a == [s EXCEPT !.has_trades = TRUE]
           b == [a EXCEPT !.acc_open = open]
           c == [b EXCEPT !.acc_high = high]
           d == [c EXCEPT !.acc_low = low]
           e == [d EXCEPT !.acc_close = p]
           f == [e EXCEPT !.acc_count = count]
           g == [f EXCEPT !.acc_volume = volume]
<1>1. open \in Nat /\ high \in Nat /\ low \in Nat /\ count \in Nat /\ volume \in Nat
  BY DEF SlotType
<1>2. pv \in Nat
  <2>1. p * size \in Nat /\ s.acc_pv \in Nat
    BY DEF SlotType
  <2> QED BY <2>1
<1>3. Accumulated(s, p, size) = [g EXCEPT !.acc_pv = pv]
  BY DEF Accumulated
<1> HIDE DEF open, high, low, count, volume, pv, a, b, c, d, e, f, g
<1>4. a \in SlotType /\ SameCore(a, s)
  BY AccField, Zenon DEF a
<1>5. b \in SlotType /\ SameCore(b, a)
  BY AccField, <1>1, <1>4, Zenon DEF b
<1>6. c \in SlotType /\ SameCore(c, b)
  BY AccField, <1>1, <1>5, Zenon DEF c
<1>7. d \in SlotType /\ SameCore(d, c)
  BY AccField, <1>1, <1>6, Zenon DEF d
<1>8. e \in SlotType /\ SameCore(e, d)
  BY AccField, <1>7, Zenon DEF e
<1>9. f \in SlotType /\ SameCore(f, e)
  BY AccField, <1>1, <1>8, Zenon DEF f
<1>10. g \in SlotType /\ SameCore(g, f)
  BY AccField, <1>1, <1>9, Zenon DEF g
<1>11. [g EXCEPT !.acc_pv = pv] \in SlotType /\ SameCore([g EXCEPT !.acc_pv = pv], g)
  BY AccField, <1>2, <1>10, Zenon
<1> QED BY <1>3, <1>4, <1>5, <1>6, <1>7, <1>8, <1>9, <1>10, <1>11 DEF SameCore

\* Setting the reference and the counter.
LEMMA BandField ==
  ASSUME NEW s \in SlotType, NEW p \in Nat
  PROVE  LET q == Rebased(s, p) IN
         /\ q \in SlotType /\ q.last_seq = s.last_seq /\ q.seen = s.seen
         /\ q.ref_init = s.ref_init /\ q.ref_price = p /\ q.breach_run = 0
<1> DEFINE r == [s EXCEPT !.breach_run = 0]
           q == Rebased(s, p)
<1>1. r \in SlotType
  BY ChecksAssumption DEF SlotType
<1>2. [r EXCEPT !.ref_price = p] \in SlotType
  <2> HIDE DEF r
  <2> QED BY <1>1 DEF SlotType
<1>3. q = [r EXCEPT !.ref_price = p]
  BY DEF Rebased
<1>4. q.last_seq = s.last_seq /\ q.seen = s.seen /\ q.ref_init = s.ref_init
  BY DEF SlotType, Rebased
<1>5. q.ref_price = p /\ q.breach_run = 0
  BY DEF SlotType, Rebased
<1> HIDE DEF q, r
<1>6. q \in SlotType
  BY <1>2, <1>3
<1> QED BY <1>4, <1>5, <1>6 DEF q

\* So does reconcile().
LEMMA ReconciledFields ==
  ASSUME NEW s \in SlotType
  PROVE  Reconciled(s) \in SlotType /\ SameCore(Reconciled(s), s)
BY Zenon DEF Reconciled, SlotType, SameCore

\* The moving average lies between its arguments, and an in-band price stays in
\* band of it.
LEMMA EwmaBetween ==
  ASSUME NEW p \in Nat, NEW ref \in Nat
  PROVE  /\ Ewma(p, ref) \in Nat
         /\ p <= ref => Ewma(p, ref) \in p..ref
         /\ p >= ref => Ewma(p, ref) \in ref..p
         /\ ~OutOfBand(p, ref) => ~OutOfBand(p, Ewma(p, ref))
<1> DEFINE e == Ewma(p, ref)
<1>1. e \in Int /\ 5 * e <= p + 4 * ref /\ p + 4 * ref < 5 * e + 5
  BY DEF Ewma
<1> HIDE DEF e
<1>2. e \in Nat /\ (p <= ref => e \in p..ref) /\ (p >= ref => e \in ref..p)
  BY <1>1
<1>3. ~OutOfBand(p, ref) => ~OutOfBand(p, e)
  BY <1>1, <1>2 DEF OutOfBand, Distance
<1> QED BY <1>2, <1>3 DEF e

\* check_price_band() touches the reference and the counter only.
LEMMA BandedFields ==
  ASSUME NEW s \in SlotType, NEW p \in Nat
  PROVE  LET q == Banded(s, p) IN
         /\ q \in SlotType /\ q.last_seq = s.last_seq /\ q.seen = s.seen /\ q.ref_init = TRUE
         /\ ~s.ref_init => q.ref_price = p /\ q.breach_run = s.breach_run
         /\ s.ref_init /\ ~OutOfBand(p, s.ref_price) =>
              q.ref_price = Ewma(p, s.ref_price) /\ q.breach_run = 0
         /\ s.ref_init /\ OutOfBand(p, s.ref_price) =>
              \/ q.ref_price = p /\ q.breach_run = 0 /\ s.breach_run + 1 >= kBandReanchorRun
              \/ q.ref_price = s.ref_price /\ q.breach_run = s.breach_run + 1
<1>1. Ewma(p, s.ref_price) \in Nat
  BY EwmaBetween, Zenon DEF SlotType
<1>2. s.breach_run \in 0..kBandReanchorRun-1 /\ kBandReanchorRun \in Nat \ {0}
  BY ChecksAssumption DEF SlotType
<1>3. CASE ~s.ref_init
  BY <1>3, Zenon DEF Banded, SlotType
<1>4. CASE s.ref_init /\ ~OutOfBand(p, s.ref_price)
  <2>1. Banded(s, p) = Rebased(s, Ewma(p, s.ref_price))
    BY <1>4 DEF Banded
  <2> DEFINE e == Ewma(p, s.ref_price)
  <2> HIDE DEF e
  <2>2. e \in Nat /\ Banded(s, p) = Rebased(s, e)
    BY <2>1, <1>1 DEF e
  <2>3. LET q == Banded(s, p) IN
        /\ q \in SlotType /\ q.last_seq = s.last_seq /\ q.seen = s.seen
        /\ q.ref_init = s.ref_init /\ q.ref_price = e /\ q.breach_run = 0
    BY <2>2, BandField, SMTT(30)
  <2> QED BY <2>3, <1>4 DEF e
<1>5. CASE s.ref_init /\ OutOfBand(p, s.ref_price) /\ s.breach_run + 1 >= kBandReanchorRun
  <2>1. Banded(s, p) = Rebased(s, p)
    BY <1>5 DEF Banded
  <2>2. LET q == Banded(s, p) IN
        /\ q \in SlotType /\ q.last_seq = s.last_seq /\ q.seen = s.seen
        /\ q.ref_init = s.ref_init /\ q.ref_price = p /\ q.breach_run = 0
    BY <2>1, BandField
  <2> QED BY <2>2, <1>5
<1>6. CASE s.ref_init /\ OutOfBand(p, s.ref_price) /\ ~(s.breach_run + 1 >= kBandReanchorRun)
  BY <1>2, <1>6 DEF Banded, SlotType
<1> QED BY <1>3, <1>4, <1>5, <1>6, Zenon

-----------------------------------------------------------------------------
(* The records                                                             *)

\* A record fed to check() is one of the given ones with some sequence number.
LEMMA RecordFields ==
  /\ \A t \in Record(Trades) :
       /\ t.type = "trade" /\ t.ts \in Nat /\ t.seq \in 0..SeqWidth-1
       /\ t.price \in Int /\ t.size \in Nat
  /\ \A b \in Record(Bars) : b.type = "bar" /\ b.ts \in Nat /\ b.seq \in 0..SeqWidth-1
  /\ \A q \in Record(Quotes) : q.type = "quote" /\ q.ts \in Nat /\ q.seq \in 0..SeqWidth-1
BY RecordsAssumption DEF Record

\* The slot after each kind of record.
LEMMA TradeSlot ==
  ASSUME NEW t \in Record(Trades), slot \in SlotType
  PROVE  /\ Checked(slot, t) \in SlotType
         /\ Checked(slot, t).last_seq = t.seq /\ Checked(slot, t).seen = TRUE
         /\ ~ValidTrade(t) => /\ Checked(slot, t).ref_price = slot.ref_price
                              /\ Checked(slot, t).ref_init = slot.ref_init
                              /\ Checked(slot, t).breach_run = slot.breach_run
         /\ ValidTrade(t) => \E a \in SlotType :
              /\ a.ref_price = slot.ref_price /\ a.ref_init = slot.ref_init
              /\ a.breach_run = slot.breach_run /\ Checked(slot, t) = Banded(a, t.price)
<1> DEFINE q == Sequenced(slot, "trade", t.ts, t.seq)
           a == Accumulated(q, t.price, t.size)
<1>1. t.type = "trade" /\ t.ts \in Nat /\ t.seq \in 0..SeqWidth-1 /\ t.price \in Int /\ t.size \in Nat
  BY RecordFields
<1>2. Checked(slot, t) = IF ValidTrade(t) THEN Banded(a, t.price) ELSE q
  BY <1>1 DEF Checked, CheckedTrade
<1>3. /\ q \in SlotType /\ q.last_seq = t.seq /\ q.seen = TRUE
      /\ q.ref_price = slot.ref_price /\ q.ref_init = slot.ref_init
      /\ q.breach_run = slot.breach_run
  <2>1. "trade" \in Streams
    BY DEF Streams
  <2>2. t.ts \in Nat /\ t.seq \in 0..SeqWidth-1
    BY <1>1
  <2> HIDE DEF a
  <2> QED BY <2>1, <2>2, SequencedFields, ZenonT(60)
<1> HIDE DEF q
<1>4. ASSUME ValidTrade(t)
      PROVE  /\ t.price \in Nat /\ a \in SlotType /\ SameCore(a, q)
             /\ Banded(a, t.price) \in SlotType /\ Banded(a, t.price).last_seq = a.last_seq
             /\ Banded(a, t.price).seen = a.seen
  <2>1. t.price \in Nat
    BY <1>1, <1>4 DEF ValidTrade
  <2>2. a \in SlotType /\ SameCore(a, q)
    BY <2>1, <1>1, <1>3, AccumulatedFields, Zenon
  <2> HIDE DEF a
  <2> QED BY <2>1, <2>2, BandedFields, Zenon
<1> HIDE DEF a
<1>5. CASE ValidTrade(t)
  BY <1>2, <1>3, <1>4, <1>5 DEF SameCore
<1>6. CASE ~ValidTrade(t)
  BY <1>2, <1>3, <1>6
<1> QED BY <1>5, <1>6, Zenon

\* What check(WireBar) leaves in the slot.
LEMMA BarSlot ==
  ASSUME NEW b \in Record(Bars), slot \in SlotType
  PROVE  /\ Checked(slot, b) \in SlotType
         /\ Checked(slot, b).last_seq = b.seq /\ Checked(slot, b).seen = TRUE
         /\ Checked(slot, b).ref_price = slot.ref_price
         /\ Checked(slot, b).ref_init = slot.ref_init
         /\ Checked(slot, b).breach_run = slot.breach_run
<1> DEFINE q == Sequenced(slot, "bar", b.ts, b.seq)
<1>1. b.type = "bar" /\ b.ts \in Nat /\ b.seq \in 0..SeqWidth-1
  BY RecordFields
<1>2. Checked(slot, b) = Reconciled(q)
  BY <1>1 DEF Checked, CheckedBar
<1>3. /\ q \in SlotType /\ q.last_seq = b.seq /\ q.seen = TRUE
      /\ q.ref_price = slot.ref_price /\ q.ref_init = slot.ref_init
      /\ q.breach_run = slot.breach_run
  <2>1. "bar" \in Streams
    BY DEF Streams
  <2>2. b.ts \in Nat /\ b.seq \in 0..SeqWidth-1
    BY <1>1
  <2> QED BY <2>1, <2>2, SequencedFields, ZenonT(60)
<1> HIDE DEF q
<1>4. Reconciled(q) \in SlotType /\ SameCore(Reconciled(q), q)
  BY <1>3, ReconciledFields
<1> QED BY <1>2, <1>3, <1>4 DEF SameCore

\* What check(WireQuote) leaves in the slot.
LEMMA QuoteSlot ==
  ASSUME NEW r \in Record(Quotes), slot \in SlotType
  PROVE  /\ Checked(slot, r) \in SlotType
         /\ Checked(slot, r).last_seq = r.seq /\ Checked(slot, r).seen = TRUE
         /\ Checked(slot, r).ref_price = slot.ref_price
         /\ Checked(slot, r).ref_init = slot.ref_init
         /\ Checked(slot, r).breach_run = slot.breach_run
<1> DEFINE q == Sequenced(slot, "quote", r.ts, r.seq)
<1>1. r.type = "quote" /\ r.ts \in Nat /\ r.seq \in 0..SeqWidth-1
  BY RecordFields
<1>2. Checked(slot, r) = q
  BY <1>1 DEF Checked, CheckedQuote
<1>3. "quote" \in Streams
  BY DEF Streams
<1>4. r.ts \in Nat /\ r.seq \in 0..SeqWidth-1
  BY <1>1
<1>5. /\ q \in SlotType /\ q.last_seq = r.seq /\ q.seen = TRUE
      /\ q.ref_price = slot.ref_price /\ q.ref_init = slot.ref_init
      /\ q.breach_run = slot.breach_run
  BY <1>3, <1>4, SequencedFields, ZenonT(60)
<1> HIDE DEF q
<1> QED BY <1>2, <1>5

-----------------------------------------------------------------------------
(* The sequence cursor                                                     *)

\* The modulus disappears from the gap on a step upwards.
LEMMA GapValue ==
  ASSUME NEW s \in SlotType, NEW n \in 0..SeqWidth-1
  PROVE  /\ GapBefore(s, n) \in 0..SeqWidth-1
         /\ s.seen /\ n > s.last_seq => GapBefore(s, n) = n - s.last_seq - 1
<1> DEFINE l == s.last_seq
           d == n - l - 1
<1>1. SeqWidth \in Nat /\ SeqWidth > 1 /\ l \in 0..SeqWidth-1 /\ d \in Int
  BY ChecksAssumption DEF SlotType
<1>2. (d % SeqWidth) \in 0..SeqWidth-1 /\ (d >= 0 => (d % SeqWidth) = d)
  <2> HIDE DEF l, d
  <2>1. d < SeqWidth
    BY <1>1 DEF d
  <2> QED BY <1>1, <2>1
<1>3. n > l => ((l + 1) % SeqWidth) = l + 1
  <2> HIDE DEF l, d
  <2> QED BY <1>1
<1>4. GapBefore(s, n) = IF s.seen /\ n > ((l + 1) % SeqWidth) THEN (d % SeqWidth) ELSE 0
  BY DEF GapBefore
<1> HIDE DEF d
<1>5. GapBefore(s, n) \in 0..SeqWidth-1
  BY <1>1, <1>2, <1>4
<1>6. ASSUME s.seen, n > l
      PROVE  GapBefore(s, n) = n - l - 1
  BY <1>1, <1>2, <1>3, <1>4, <1>6 DEF d
<1> QED BY <1>5, <1>6

\* check() of any record keeps the sequence part of the invariant.
LEMMA SeqStep ==
  ASSUME NEW r, TypeOK, SeqInv, Check(r), r.seq \in 0..SeqWidth-1,
         Checked(slot, r).last_seq = r.seq, Checked(slot, r).seen = TRUE
  PROVE  /\ SeqInv'
         /\ result'.gap \in 0..SeqWidth-1 /\ fed' \in Nat /\ first' \in 0..SeqWidth-1
         /\ missing' \in Nat /\ ordered' \in BOOLEAN
<1> DEFINE g == GapBefore(slot, r.seq)
<1>1. slot \in SlotType /\ fed \in Nat /\ first \in 0..SeqWidth-1 /\ missing \in Nat
  BY DEF TypeOK
<1>2. g \in 0..SeqWidth-1 /\ (slot.seen /\ r.seq > slot.last_seq => g = r.seq - slot.last_seq - 1)
  BY <1>1, GapValue
<1> HIDE DEF g
<1>3. /\ slot'.last_seq = r.seq /\ slot'.seen = TRUE /\ result'.gap = g
      /\ fed' = fed + 1 /\ missing' = missing + g
      /\ first' = IF fed = 0 THEN r.seq ELSE first
      /\ ordered' = (ordered /\ (fed = 0 \/ r.seq > slot.last_seq))
  BY DEF Check, Verdict, g
<1>4. slot.last_seq \in Int /\ SeqWidth \in Nat
  BY <1>1, ChecksAssumption DEF SlotType
<1>5. /\ result'.gap \in 0..SeqWidth-1 /\ fed' \in Nat /\ first' \in 0..SeqWidth-1
      /\ missing' \in Nat /\ fed' > 0
  BY <1>1, <1>2, <1>3, <1>4
<1>6. ordered' \in BOOLEAN
  BY <1>3
<1>7. GapsAddUp'
  <2>1. CASE fed = 0
    <3>1. ~slot.seen
      BY <2>1 DEF SeqInv
    <3>2. g = 0
      BY <3>1 DEF g, GapBefore
    <3>3. missing = 0
      BY <2>1 DEF SeqInv
    <3> QED BY <2>1, <3>2, <3>3, <1>3 DEF GapsAddUp
  <2>2. CASE fed > 0
    <3>1. slot.seen
      BY <2>2 DEF SeqInv
    <3> SUFFICES ASSUME ordered' PROVE slot'.last_seq - first' + 1 = fed' + missing'
      BY DEF GapsAddUp
    <3>2. ordered /\ r.seq > slot.last_seq
      <4>1. fed # 0
        BY <2>2, <1>1
      <4> QED BY <4>1, <1>3, Zenon
    <3>3. slot.last_seq - first + 1 = fed + missing
      BY <2>2, <3>2 DEF SeqInv, GapsAddUp
    <3>4. g = r.seq - slot.last_seq - 1
      BY <1>2, <3>1, <3>2
    <3>5. first' = first /\ r.seq \in Int /\ first \in Int
      BY <1>1, <1>3, <1>4, <2>2
    <3> QED BY <3>3, <3>4, <3>5, <1>1, <1>3, <1>4
  <2> QED BY <2>1, <2>2, <1>1
<1>8. slot'.seen <=> fed' > 0
  BY <1>3, <1>5
<1>9. fed' = 0 => missing' = 0
  BY <1>5
<1> QED BY <1>5, <1>6, <1>7, <1>8, <1>9 DEF SeqInv

-----------------------------------------------------------------------------
(* The price band                                                          *)

\* A step that leaves reference, counter and tape alone keeps the band's part.
LEMMA BandKept ==
  ASSUME BandInv, UNCHANGED <<lo, hi, last, repeats, calm, outliers>>,
         slot'.ref_price = slot.ref_price, slot'.ref_init = slot.ref_init,
         slot'.breach_run = slot.breach_run
  PROVE  BandInv'
BY DEF BandInv, OutOfBand, Distance

\* The history sees an outlier exactly where check_price_band() does.
LEMMA BreachFlag ==
  ASSUME NEW t \in Record(Trades), ValidTrade(t)
  PROVE  "PriceBandBreach" \in Verdict(slot, t).flags <=> Breaches(slot, t.price)
BY RecordFields DEF Verdict, StatelessFlags, StatefulFlags, TradeFlags, SequencingFlags, Flag

\* A valid trade keeps the band's part: by the case of check_price_band() taken.
LEMMA BandStep ==
  ASSUME NEW p \in Nat, NEW a \in SlotType, TypeOK, BandInv, p > 0,
         a.ref_price = slot.ref_price, a.ref_init = slot.ref_init,
         a.breach_run = slot.breach_run, slot' = Banded(a, p),
         lo' = IF slot.ref_init /\ lo < p THEN lo ELSE p,
         hi' = IF slot.ref_init /\ hi > p THEN hi ELSE p,
         last' = p, repeats' = IF last = p THEN repeats + 1 ELSE 1,
         IF Breaches(slot, p) THEN outliers' = outliers + 1 /\ UNCHANGED calm
                              ELSE outliers' = 0 /\ calm' = p
  PROVE  BandInv'
<1> DEFINE ref == slot.ref_price
           run == slot.breach_run
           init == slot.ref_init
<1>1. /\ ref \in Nat /\ run \in Nat /\ run < kBandReanchorRun /\ kBandReanchorRun \in Nat
      /\ lo \in Nat /\ hi \in Nat /\ last \in Nat /\ repeats \in Nat /\ calm \in Nat
      /\ outliers \in Nat
  BY ChecksAssumption DEF TypeOK, SlotType
<1>2. /\ slot'.ref_init = TRUE
      /\ ~init => slot'.ref_price = p /\ slot'.breach_run = run
      /\ init /\ ~OutOfBand(p, ref) =>
           slot'.ref_price = Ewma(p, ref) /\ slot'.breach_run = 0
      /\ init /\ OutOfBand(p, ref) =>
           \/ slot'.ref_price = p /\ slot'.breach_run = 0 /\ run + 1 >= kBandReanchorRun
           \/ slot'.ref_price = ref /\ slot'.breach_run = run + 1
  <2> DEFINE q == Banded(a, p)
  <2>1. /\ q.ref_init = TRUE
        /\ ~a.ref_init => q.ref_price = p /\ q.breach_run = a.breach_run
        /\ a.ref_init /\ ~OutOfBand(p, a.ref_price) =>
             q.ref_price = Ewma(p, a.ref_price) /\ q.breach_run = 0
        /\ a.ref_init /\ OutOfBand(p, a.ref_price) =>
             \/ q.ref_price = p /\ q.breach_run = 0 /\ a.breach_run + 1 >= kBandReanchorRun
             \/ q.ref_price = a.ref_price /\ q.breach_run = a.breach_run + 1
    BY BandedFields, Zenon
  <2>2. slot' = q
    OBVIOUS
  <2> HIDE DEF q
  <2> QED BY <2>1, <2>2
<1>3. ~OutOfBand(p, p)
  BY DEF OutOfBand, Distance
<1>4. /\ init => ref \in lo..hi /\ lo > 0
      /\ ~init => repeats = 0 /\ run = 0
      /\ init /\ OutOfBand(last, ref) => repeats <= run
      /\ init /\ outliers < kBandReanchorRun => outliers = run /\ ~OutOfBand(calm, ref)
  BY DEF BandInv
<1>5. Breaches(slot, p) <=> (init /\ OutOfBand(p, ref))
  BY DEF Breaches
<1> SUFFICES /\ slot'.ref_price \in lo'..hi' /\ lo' > 0
             /\ OutOfBand(p, slot'.ref_price) => repeats' <= slot'.breach_run
             /\ outliers' < kBandReanchorRun =>
                  outliers' = slot'.breach_run /\ ~OutOfBand(calm', slot'.ref_price)
  BY <1>2 DEF BandInv, OutOfBand, Distance
<1> HIDE DEF ref, run, init
<1>6. CASE ~init
  <2>1. slot'.ref_price = p /\ slot'.breach_run = 0 /\ lo' = p /\ hi' = p /\ outliers' = 0 /\ calm' = p
    BY <1>2, <1>4, <1>5, <1>6 DEF init
  <2> QED BY <2>1, <1>3
<1>7. CASE init /\ ~OutOfBand(p, ref)
  <2> DEFINE e == Ewma(p, ref)
  <2>1. /\ e \in Nat /\ (p <= ref => e \in p..ref) /\ (p >= ref => e \in ref..p)
        /\ ~OutOfBand(p, e)
    BY <1>1, <1>7, EwmaBetween, Zenon
  <2>2. slot'.ref_price = e /\ slot'.breach_run = 0 /\ outliers' = 0 /\ calm' = p
    BY <1>2, <1>5, <1>7
  <2> HIDE DEF e
  <2>3. lo' = (IF lo < p THEN lo ELSE p) /\ hi' = (IF hi > p THEN hi ELSE p)
    BY <1>7 DEF init
  <2>4. e \in lo'..hi' /\ lo' > 0
    BY <1>1, <1>4, <1>7, <2>1, <2>3
  <2> QED BY <2>1, <2>2, <2>4
<1>8. CASE init /\ OutOfBand(p, ref)
  <2>1. lo' = (IF lo < p THEN lo ELSE p) /\ hi' = (IF hi > p THEN hi ELSE p)
    BY <1>8 DEF init
  <2>2. p \in lo'..hi' /\ ref \in lo'..hi' /\ lo' > 0
    BY <1>1, <1>4, <1>8, <2>1
  <2>3. outliers' = outliers + 1 /\ calm' = calm
    BY <1>5, <1>8
  <2>4. CASE slot'.ref_price = p /\ slot'.breach_run = 0 /\ run + 1 >= kBandReanchorRun
    <3>1. ~(outliers' < kBandReanchorRun)
      BY <1>1, <1>4, <1>8, <2>3, <2>4
    <3> QED BY <3>1, <2>2, <2>4, <1>3
  <2>5. CASE slot'.ref_price = ref /\ slot'.breach_run = run + 1
    <3>1. repeats' <= run + 1
      <4>1. CASE last = p
        BY <4>1, <1>1, <1>4, <1>8
      <4>2. CASE last # p
        BY <4>2, <1>1
      <4> QED BY <4>1, <4>2
    <3>2. outliers' < kBandReanchorRun => outliers' = run + 1 /\ ~OutOfBand(calm', ref)
      BY <1>1, <1>4, <1>8, <2>3
    <3> QED BY <3>1, <3>2, <2>2, <2>5
  <2> QED BY <1>2, <1>8, <2>4, <2>5
<1> QED BY <1>6, <1>7, <1>8

-----------------------------------------------------------------------------
(* The invariant                                                           *)

\* The tape's part of TypeOK.
TapeType ==
  /\ lo \in Nat /\ hi \in Nat /\ last \in Nat /\ repeats \in Nat
  /\ calm \in Nat /\ outliers \in Nat

\* It holds of the empty slot.
LEMMA InitInv == Init => IInv
<1> SUFFICES ASSUME Init PROVE IInv
  OBVIOUS
<1>1. EmptySlot \in SlotType
  BY ChecksAssumption DEF EmptySlot, SlotType
<1>2. TypeOK
  BY <1>1, ChecksAssumption DEF Init, TypeOK
<1>3. ~slot.seen /\ ~slot.ref_init /\ slot.breach_run = 0
  BY DEF Init, EmptySlot
<1>4. SeqInv
  BY <1>3 DEF Init, SeqInv, GapsAddUp
<1>5. BandInv
  BY <1>3 DEF Init, BandInv
<1> QED BY <1>2, <1>4, <1>5 DEF IInv

\* check(trade) keeps it.
LEMMA TradeStep ==
  ASSUME NEW t \in Record(Trades), IInv, CheckTrade(t)
  PROVE  IInv'
<1>1. TypeOK /\ SeqInv /\ BandInv /\ slot \in SlotType /\ Check(t)
  BY DEF IInv, TypeOK, CheckTrade
<1>2. t.seq \in 0..SeqWidth-1 /\ t.price \in Int
  BY RecordFields
<1>3. slot' = Checked(slot, t) /\ result' = Verdict(slot, t)
  BY <1>1 DEF Check
<1>4. /\ Checked(slot, t) \in SlotType
      /\ Checked(slot, t).last_seq = t.seq /\ Checked(slot, t).seen = TRUE
  BY <1>1, TradeSlot, Zenon
<1>5. /\ SeqInv' /\ result'.gap \in 0..SeqWidth-1 /\ fed' \in Nat /\ first' \in 0..SeqWidth-1
      /\ missing' \in Nat /\ ordered' \in BOOLEAN
  BY <1>1, <1>2, <1>4, SeqStep, Zenon
<1>6. TapeType' /\ BandInv'
  <2>1. CASE ~ValidTrade(t)
    <3>1. UNCHANGED <<lo, hi, last, repeats, calm, outliers>>
      BY <2>1 DEF CheckTrade, ValidTradeSeen, tape
    <3>2. TapeType'
      BY <3>1, <1>1 DEF TypeOK, TapeType
    <3>3. /\ slot'.ref_price = slot.ref_price /\ slot'.ref_init = slot.ref_init
          /\ slot'.breach_run = slot.breach_run
      BY <2>1, <1>1, <1>3, TradeSlot, Zenon
    <3> QED BY <3>1, <3>2, <3>3, <1>1, BandKept
  <2>2. CASE ValidTrade(t)
    <3>1. ValidTradeSeen(t)
      BY <2>2 DEF CheckTrade
    <3>2. t.price \in Nat /\ t.price > 0
      BY <1>2, <2>2 DEF ValidTrade
    <3>3. "PriceBandBreach" \in result'.flags <=> Breaches(slot, t.price)
      BY <1>3, <2>2, BreachFlag
    <3>4. /\ lo' = IF slot.ref_init /\ lo < t.price THEN lo ELSE t.price
          /\ hi' = IF slot.ref_init /\ hi > t.price THEN hi ELSE t.price
          /\ last' = t.price /\ repeats' = IF last = t.price THEN repeats + 1 ELSE 1
      BY <3>1 DEF ValidTradeSeen
    <3>5. IF Breaches(slot, t.price) THEN outliers' = outliers + 1 /\ UNCHANGED calm
                                     ELSE outliers' = 0 /\ calm' = t.price
      BY <3>1, <3>3 DEF ValidTradeSeen
    <3>6. TapeType'
      BY <1>1, <3>2, <3>4, <3>5 DEF TypeOK, TapeType
    <3>7. PICK a \in SlotType :
            /\ a.ref_price = slot.ref_price /\ a.ref_init = slot.ref_init
            /\ a.breach_run = slot.breach_run /\ Checked(slot, t) = Banded(a, t.price)
      BY <1>1, <2>2, TradeSlot, Zenon
    <3>8. slot' = Banded(a, t.price)
      BY <1>3, <3>7
    <3>9. BandInv'
      BY <1>1, <3>2, <3>4, <3>5, <3>7, <3>8, BandStep
    <3> QED BY <3>6, <3>9
  <2> QED BY <2>1, <2>2
<1>7. TypeOK'
  BY <1>3, <1>4, <1>5, <1>6 DEF TypeOK, TapeType
<1> QED BY <1>5, <1>6, <1>7 DEF IInv

\* check(bar) and check(quote) keep it: they leave reference and tape alone.
LEMMA OtherStep ==
  ASSUME NEW r, IInv, Check(r), r.seq \in 0..SeqWidth-1,
         UNCHANGED <<lo, hi, last, repeats, calm, outliers>>,
         Checked(slot, r) \in SlotType,
         Checked(slot, r).last_seq = r.seq, Checked(slot, r).seen = TRUE,
         Checked(slot, r).ref_price = slot.ref_price,
         Checked(slot, r).ref_init = slot.ref_init,
         Checked(slot, r).breach_run = slot.breach_run
  PROVE  IInv'
<1>1. TypeOK /\ SeqInv /\ BandInv
  BY DEF IInv
<1>2. slot' = Checked(slot, r)
  BY DEF Check
<1>3. /\ SeqInv' /\ result'.gap \in 0..SeqWidth-1 /\ fed' \in Nat /\ first' \in 0..SeqWidth-1
      /\ missing' \in Nat /\ ordered' \in BOOLEAN
  BY <1>1, SeqStep, Zenon
<1>4. BandInv'
  BY <1>1, <1>2, BandKept
<1>5. TypeOK'
  BY <1>1, <1>2, <1>3 DEF TypeOK
<1> QED BY <1>3, <1>4, <1>5 DEF IInv

\* Every step keeps it.
LEMMA NextInv == IInv /\ [Next]_vars => IInv'
<1> SUFFICES ASSUME IInv, [Next]_vars PROVE IInv'
  OBVIOUS
<1>0. slot \in SlotType
  BY DEF IInv, TypeOK
<1>1. ASSUME NEW t \in Record(Trades), CheckTrade(t) PROVE IInv'
  BY <1>1, TradeStep
<1>2. ASSUME NEW b \in Record(Bars), CheckBar(b) PROVE IInv'
  <2>1. Check(b) /\ UNCHANGED <<lo, hi, last, repeats, calm, outliers>>
    BY <1>2 DEF CheckBar
  <2>2. b.seq \in 0..SeqWidth-1
    BY RecordFields
  <2> QED BY <1>0, <2>1, <2>2, BarSlot, OtherStep, Zenon
<1>3. ASSUME NEW q \in Record(Quotes), CheckQuote(q) PROVE IInv'
  <2>1. Check(q) /\ UNCHANGED <<lo, hi, last, repeats, calm, outliers>>
    BY <1>3 DEF CheckQuote, tape
  <2>2. q.seq \in 0..SeqWidth-1
    BY RecordFields
  <2> QED BY <1>0, <2>1, <2>2, QuoteSlot, OtherStep, Zenon
<1>4. CASE UNCHANGED vars
  <2>1. slot' = slot /\ result' = result /\ UNCHANGED <<fed, first, missing, ordered>>
        /\ UNCHANGED <<lo, hi, last, repeats, calm, outliers>>
    BY <1>4 DEF vars, stream, tape
  <2>2. TypeOK'
    BY <2>1 DEF IInv, TypeOK
  <2>3. SeqInv'
    BY <2>1 DEF IInv, SeqInv, GapsAddUp
  <2>4. BandInv'
    BY <2>1, BandKept DEF IInv
  <2> QED BY <2>2, <2>3, <2>4 DEF IInv
<1> QED BY <1>1, <1>2, <1>3, <1>4 DEF Next

\* The inductive invariant holds throughout.
THEOREM Invariance == Spec => []IInv
BY InitInv, NextInv, PTL DEF Spec

-----------------------------------------------------------------------------
(* What follows                                                            *)

\* The slot and the history stay typed: breach_run is reset before it reaches the
\* run that re-anchors.
THEOREM TypeCorrect == Spec => []TypeOK
<1>1. IInv => TypeOK
  BY DEF IInv
<1> QED BY <1>1, Invariance, PTL

\* check_sequencing() accounts for every skipped sequence number of an ordered
\* stream, whatever the width and the mix of record types.
THEOREM GapsAccounted == Spec => []GapsAddUp
<1>1. IInv => GapsAddUp
  BY DEF IInv, SeqInv
<1> QED BY <1>1, Invariance, PTL

\* check_price_band() keeps its reference within the range that traded.
THEOREM ReferenceTraded == Spec => []ReferenceWithinTraded
<1>1. IInv => ReferenceWithinTraded
  BY DEF IInv, BandInv, ReferenceWithinTraded
<1> QED BY <1>1, Invariance, PTL

\* A sustained move is accepted after kBandReanchorRun prints.
THEOREM MoveAccepted == Spec => []SustainedMoveAccepted
<1>1. ASSUME IInv PROVE SustainedMoveAccepted
  <2>1. /\ slot.breach_run < kBandReanchorRun /\ kBandReanchorRun > 0 /\ repeats \in Nat
        /\ slot.breach_run \in Nat /\ kBandReanchorRun \in Nat
    BY <1>1, ChecksAssumption DEF IInv, TypeOK, SlotType
  <2>2. /\ ~slot.ref_init => repeats = 0
        /\ slot.ref_init /\ OutOfBand(last, slot.ref_price) => repeats <= slot.breach_run
    BY <1>1 DEF IInv, BandInv
  <2> QED BY <2>1, <2>2 DEF SustainedMoveAccepted
<1> QED BY <1>1, Invariance, PTL

\* Outliers short of a re-anchor leave the last normal price in band.
THEOREM OutlierHarmless == Spec => []OutlierDoesNotPoison
<1>1. IInv => OutlierDoesNotPoison
  BY DEF IInv, BandInv, OutlierDoesNotPoison
<1> QED BY <1>1, Invariance, PTL
-----------------------------------------------------------------------------
(* Sums                                                                    *)

\* Induction, for a set of numbers: the finite subsets of Nat are well-founded.
LEMMA NumbersByInduction ==
  ASSUME NEW S \in SUBSET Nat, 0 \in S, \A n \in S : n + 1 \in S
  PROVE  S = Nat
<1> SUFFICES ASSUME NEW k \in Nat, k \notin S PROVE FALSE
  BY Zenon
<1> DEFINE below == {0..x : x \in Nat \ S}
<1>1. below \subseteq FiniteSubsetsOf(Nat) /\ below # {}
  <2>1. ASSUME NEW x \in Nat PROVE 0..x \in SUBSET Nat /\ IsFiniteSet(0..x)
    BY FS_Interval
  <2> QED
    BY <2>1 DEF FiniteSubsetsOf
<1> HIDE DEF below
<1>2. PICK X \in below : \A Y \in below : <<Y, X>> \notin StrictSubsetOrdering(Nat)
  BY <1>1, FS_StrictSubsetOrderingWellFounded, WFMin
<1>3. PICK x \in Nat \ S : X = 0..x
  BY DEF below
<1>4. x - 1 \in Nat /\ (x - 1) + 1 = x
  BY <1>3
<1>5. x - 1 \notin S
  BY <1>3, <1>4
<1>6. 0..(x - 1) \in SUBSET Nat /\ X \in SUBSET Nat /\ 0..(x - 1) \subseteq X /\ 0..(x - 1) # X
  <2>1. x \in X /\ x \notin 0..(x - 1)
    BY <1>3
  <2> QED
    BY <1>3, <2>1
<1>7. 0..(x - 1) \in below
  BY <1>4, <1>5 DEF below
<1> QED
  BY <1>2, <1>6, <1>7, Zenon DEF StrictSubsetOrdering

\* f holds the sums of the first n numbers of q, as the recursion says.
SumsTo(q, n, f) == f = [i \in 0..n |-> IF i = 0 THEN 0 ELSE f[i-1] + q[i]]

\* One equation of it.
LEMMA SumsToFields ==
  ASSUME NEW q, NEW n \in Nat, NEW f, SumsTo(q, n, f)
  PROVE  /\ DOMAIN f = 0..n /\ f[0] = 0
         /\ \A i \in 0..n : i # 0 => f[i] = f[i-1] + q[i]
BY DEF SumsTo

\* The recursion has a solution.
LEMMA SumsExist ==
  ASSUME NEW q \in Seq(Int)
  PROVE  \A n \in Nat : n <= Len(q) => \E f \in [0..n -> Int] : SumsTo(q, n, f)
<1> DEFINE S == {n \in Nat : n <= Len(q) => \E f \in [0..n -> Int] : SumsTo(q, n, f)}
<1>1. 0 \in S
  <2> DEFINE f == [i \in 0..0 |-> 0]
  <2>1. f \in [0..0 -> Int]
    OBVIOUS
  <2>2. f = [i \in 0..0 |-> IF i = 0 THEN 0 ELSE f[i-1] + q[i]]
    OBVIOUS
  <2> HIDE DEF f
  <2> QED
    BY <2>1, <2>2 DEF SumsTo
<1>2. ASSUME NEW n \in S PROVE n + 1 \in S
  <2> SUFFICES ASSUME n + 1 <= Len(q)
               PROVE  \E g \in [0..(n+1) -> Int] : SumsTo(q, n + 1, g)
    OBVIOUS
  <2>1. PICK f \in [0..n -> Int] : SumsTo(q, n, f)
    BY <1>2
  <2>2. q[n + 1] \in Int /\ f[n] \in Int /\ n \in Nat
    BY <2>1
  <2> DEFINE g == [i \in 0..(n+1) |-> IF i = n + 1 THEN f[n] + q[n + 1] ELSE f[i]]
  <2>3. g \in [0..(n+1) -> Int]
    BY <2>1, <2>2
  <2>4. ASSUME NEW i \in 0..(n+1) PROVE g[i] = IF i = 0 THEN 0 ELSE g[i-1] + q[i]
    <3>1. CASE i = n + 1
      <4>1. i - 1 = n /\ n \in 0..(n+1) /\ n # n + 1 /\ i # 0
        BY <3>1, <2>2
      <4>2. g[n] = f[n] /\ g[i] = f[n] + q[n + 1]
        BY <4>1, <3>1
      <4> QED
        BY <4>1, <4>2, <3>1
    <3>2. CASE i # n + 1 /\ i # 0
      <4>1. i \in 0..n /\ i - 1 \in 0..(n+1) /\ i - 1 # n + 1
        BY <3>2, <2>2
      <4>2. g[i] = f[i] /\ g[i-1] = f[i-1] /\ f[i] = f[i-1] + q[i]
        BY <4>1, <3>2, <2>1, SumsToFields, Zenon
      <4> QED
        BY <4>2, <3>2
    <3>3. CASE i = 0
      <4>1. g[i] = f[0]
        BY <3>3, <2>2
      <4> QED
        BY <4>1, <3>3, <2>1, <2>2, SumsToFields
    <3> QED
      BY <3>1, <3>2, <3>3
  <2>5. g = [i \in 0..(n+1) |-> g[i]]
    OBVIOUS
  <2> HIDE DEF g
  <2>6. SumsTo(q, n + 1, g)
    BY <2>4, <2>5, Zenon DEF SumsTo
  <2> QED
    BY <2>3, <2>6
<1> HIDE DEF S
<1>3. S = Nat
  <2>1. S \in SUBSET Nat
    BY DEF S
  <2> QED
    BY <1>1, <1>2, <2>1, NumbersByInduction, Zenon
<1> QED
  BY <1>3 DEF S

SamePrefix(q, r, n) == \A i \in 1..n : q[i] = r[i]

\* And what it computes depends on the first n numbers only.
LEMMA SumsAgree ==
  ASSUME NEW q, NEW r, NEW n \in Nat, NEW m \in Nat, n <= m, NEW f, NEW g,
         SumsTo(q, n, f), SumsTo(r, m, g), SamePrefix(q, r, n)
  PROVE  \A i \in 0..n : f[i] = g[i]
<1> DEFINE S == {k \in Nat : k <= n => f[k] = g[k]}
<1>1. 0 \in S
  <2>1. f[0] = 0 /\ g[0] = 0
    BY SumsToFields, Zenon
  <2> QED
    BY <2>1
<1>2. ASSUME NEW k \in S PROVE k + 1 \in S
  <2> SUFFICES ASSUME k + 1 <= n PROVE f[k + 1] = g[k + 1]
    OBVIOUS
  <2>1. k \in Nat /\ f[k] = g[k] /\ k + 1 \in 0..n /\ k + 1 \in 0..m /\ k + 1 # 0
        /\ (k + 1) - 1 = k /\ q[k + 1] = r[k + 1]
    BY <1>2 DEF SamePrefix
  <2>2. f[k + 1] = f[(k + 1) - 1] + q[k + 1] /\ g[k + 1] = g[(k + 1) - 1] + r[k + 1]
    BY <2>1, SumsToFields
  <2> QED
    BY <2>1, <2>2
<1> HIDE DEF S
<1>3. S = Nat
  <2>1. S \in SUBSET Nat
    BY DEF S
  <2> QED
    BY <1>1, <1>2, <2>1, NumbersByInduction
<1> QED
  BY <1>3 DEF S

\* The sum is what the recursion computes, a number.
LEMMA SumValue ==
  ASSUME NEW q \in Seq(Int)
  PROVE  \E f \in [0..Len(q) -> Int] : SumsTo(q, Len(q), f) /\ Sum(q) = f[Len(q)]
<1> DEFINE f == CHOOSE x : SumsTo(q, Len(q), x)
<1>1. Len(q) \in Nat
  OBVIOUS
<1>2. PICK g \in [0..Len(q) -> Int] : SumsTo(q, Len(q), g)
  BY <1>1, SumsExist
<1>3. SumsTo(q, Len(q), f)
  BY <1>2
<1>4. Sum(q) = f[Len(q)]
  BY DEF Sum, SumsTo
<1> HIDE DEF f
<1>5. DOMAIN f = 0..Len(q) /\ f = [i \in 0..Len(q) |-> f[i]]
  BY <1>3 DEF SumsTo
<1>6. \A i \in 0..Len(q) : f[i] = g[i]
  <2>1. SamePrefix(q, q, Len(q)) /\ Len(q) <= Len(q)
    BY <1>1 DEF SamePrefix
  <2> QED
    BY <2>1, <1>1, <1>2, <1>3, SumsAgree
<1>7. f \in [0..Len(q) -> Int]
  BY <1>2, <1>5, <1>6
<1> QED
  BY <1>3, <1>4, <1>7

\* The sum of nothing is 0, and one more number adds to it.
LEMMA SumAppend ==
  /\ Sum(<<>>) = 0
  /\ \A q \in Seq(Int), x \in Int : Sum(Append(q, x)) = Sum(q) + x /\ Sum(q) \in Int
<1>1. Sum(<<>>) = 0
  <2>1. <<>> \in Seq(Int) /\ Len(<<>>) = 0
    OBVIOUS
  <2>2. PICK f \in [0..Len(<<>>) -> Int] : SumsTo(<<>>, Len(<<>>), f) /\ Sum(<<>>) = f[Len(<<>>)]
    BY <2>1, SumValue, Zenon
  <2>3. SumsTo(<<>>, 0, f) /\ Sum(<<>>) = f[0]
    BY <2>1, <2>2
  <2> QED
    BY <2>3, SumsToFields
<1>2. ASSUME NEW q \in Seq(Int), NEW x \in Int
      PROVE  Sum(Append(q, x)) = Sum(q) + x /\ Sum(q) \in Int
  <2> DEFINE n == Len(q)
             r == Append(q, x)
  <2>1. n \in Nat /\ r \in Seq(Int) /\ Len(r) = n + 1 /\ r[n + 1] = x
        /\ \A i \in 1..n : q[i] = r[i]
    OBVIOUS
  <2>2. PICK f : SumsTo(q, n, f) /\ Sum(q) = f[n] /\ f[n] \in Int
    BY <2>1, SumValue
  <2> HIDE DEF n, r
  <2>3. PICK g : SumsTo(r, Len(r), g) /\ Sum(r) = g[Len(r)]
    BY <2>1, SumValue, Zenon
  <2>4. SumsTo(r, n + 1, g) /\ Sum(r) = g[n + 1] /\ n + 1 \in Nat /\ n <= n + 1
    BY <2>1, <2>3
  <2>5. \A i \in 0..n : f[i] = g[i]
    <3>1. PICK l \in Nat, m \in Nat : l = n /\ m = n + 1
      BY <2>1
    <3>0. SamePrefix(q, r, n) /\ SumsTo(q, n, f) /\ SumsTo(r, n + 1, g) /\ n <= n + 1
      BY <2>1, <2>2, <2>4 DEF SamePrefix
    <3>2. l <= m /\ SumsTo(q, l, f) /\ SumsTo(r, m, g) /\ SamePrefix(q, r, l)
      BY <3>0, <3>1
    <3>3. \A i \in 0..l : f[i] = g[i]
      BY <3>2, SumsAgree
    <3> QED
      BY <3>1, <3>3
  <2>6. f[n] = g[n] /\ n + 1 \in 0..(n+1) /\ n + 1 # 0 /\ (n + 1) - 1 = n
    <3>1. PICK l \in Nat : l = n
      BY <2>1, Zenon
    <3>2. l \in 0..l /\ l + 1 \in 0..(l+1) /\ l + 1 # 0 /\ (l + 1) - 1 = l
      OBVIOUS
    <3> QED
      BY <2>5, <3>1, <3>2, Zenon
  <2>7. g[n + 1] = g[(n + 1) - 1] + r[n + 1]
    BY <2>4, <2>6, SumsToFields
  <2>8. Sum(r) = Sum(q) + x
    BY <2>1, <2>2, <2>4, <2>6, <2>7
  <2> QED
    BY <2>1, <2>2, <2>8 DEF r
<1> QED
  BY <1>1, <1>2

-----------------------------------------------------------------------------
(* The accumulator                                                         *)

\* The greatest and the least of a set of numbers.
LEMMA MaxIs ==
  ASSUME NEW S \in SUBSET Int, NEW m \in S, \A y \in S : y <= m
  PROVE  Max(S) = m
<1>1. \A y \in S : m >= y
  OBVIOUS
<1>2. Max(S) \in S /\ \A y \in S : Max(S) >= y
  BY <1>1, Zenon DEF Max
<1>3. Max(S) \in Int /\ m \in Int /\ Max(S) >= m /\ m >= Max(S)
  BY <1>1, <1>2, Zenon
<1> QED
  BY <1>3

\* The same for the least.
LEMMA MinIs ==
  ASSUME NEW S \in SUBSET Int, NEW m \in S, \A y \in S : m <= y
  PROVE  Min(S) = m
<1>1. Min(S) \in S /\ \A y \in S : Min(S) <= y
  BY Zenon DEF Min
<1>2. Min(S) \in Int /\ m \in Int /\ Min(S) <= m /\ m <= Min(S)
  BY <1>1, Zenon
<1> QED
  BY <1>2

\* The trades the accumulator takes.
TapeTrade == {t \in Record(Trades) : ValidTrade(t)}

\* Their prices and sizes are positive.
LEMMA TapeTradeFields ==
  ASSUME NEW t \in TapeTrade
  PROVE  /\ t.price \in Nat /\ t.size \in Nat /\ t.size > 0
         /\ t.price * t.size \in Nat
<1>1. t.price \in Nat /\ t.size \in Nat /\ t.size > 0
  BY RecordFields DEF TapeTrade, ValidTrade
<1> QED
  BY <1>1

\* The slot's accumulator describes the window w.
Describes(s, w) ==
  /\ s.acc_open = w[1].price /\ s.acc_close = w[Len(w)].price
  /\ s.acc_high \in Prices(w) /\ \A p \in Prices(w) : p <= s.acc_high
  /\ s.acc_low \in Prices(w) /\ \A p \in Prices(w) : s.acc_low <= p
  /\ s.acc_volume > 0

\* Its sums, which are reset with the window.
Sums(s, w) ==
  s.acc_count = Len(w) /\ s.acc_volume = Sum(Sizes(w)) /\ s.acc_pv = Sum(Values(w))

\* Outside a window the sums are zero: what the last window left in the other fields is
\* overwritten by the first trade of the next.
AccInv ==
  /\ window \in Seq(TapeTrade)
  /\ slot.has_trades <=> window # <<>>
  /\ window # <<>> => Describes(slot, window)
  /\ Sums(slot, window)

\* The accumulator's fields.
SameAcc(q, s) ==
  /\ q.has_trades = s.has_trades /\ q.acc_open = s.acc_open /\ q.acc_close = s.acc_close
  /\ q.acc_high = s.acc_high /\ q.acc_low = s.acc_low
  /\ q.acc_count = s.acc_count /\ q.acc_volume = s.acc_volume /\ q.acc_pv = s.acc_pv

\* check_sequencing() leaves them alone,
LEMMA SequencedAcc ==
  ASSUME NEW s \in SlotType, NEW st, NEW ts, NEW n
  PROVE  SameAcc(Sequenced(s, st, ts, n), s)
BY DEF Sequenced, SlotType, SameAcc

\* and so does check_price_band().
LEMMA BandedAcc ==
  ASSUME NEW s \in SlotType, NEW p
  PROVE  SameAcc(Banded(s, p), s)
<1>1. SameAcc(s, s)
  BY DEF SameAcc
<1>2. SameAcc([s EXCEPT !.ref_price = p, !.ref_init = TRUE], s)
  BY DEF SlotType, SameAcc
<1>3. SameAcc([s EXCEPT !.breach_run = @ + 1], s)
  BY DEF SlotType, SameAcc
<1>4. \A x : SameAcc(Rebased(s, x), s)
  BY DEF SlotType, SameAcc, Rebased
<1> QED
  BY <1>2, <1>3, <1>4, Zenon DEF Banded

\* accumulate(), field by field.
Took(a, s, p, size) ==
  /\ a.has_trades = TRUE
  /\ a.acc_open = IF s.has_trades THEN s.acc_open ELSE p
  /\ a.acc_high = IF s.has_trades /\ p <= s.acc_high THEN s.acc_high ELSE p
  /\ a.acc_low = IF s.has_trades /\ p >= s.acc_low THEN s.acc_low ELSE p
  /\ a.acc_close = p
  /\ a.acc_count = s.acc_count + 1 /\ a.acc_volume = s.acc_volume + size
  /\ a.acc_pv = s.acc_pv + p * size

\* What accumulate() leaves in the accumulator.
LEMMA AccumulatedAcc ==
  ASSUME NEW s \in SlotType, NEW p \in Nat, NEW size \in Nat
  PROVE  Took(Accumulated(s, p, size), s, p, size)
BY Zenon DEF Accumulated, SlotType, Took

\* A window with one more trade.
LEMMA WindowAppend ==
  ASSUME NEW w \in Seq(TapeTrade), NEW t \in TapeTrade
  PROVE  LET v == Append(w, t) IN
         /\ v \in Seq(TapeTrade) /\ v # <<>> /\ Len(v) = Len(w) + 1 /\ v[Len(v)] = t
         /\ v[1] = IF w = <<>> THEN t ELSE w[1]
         /\ Prices(v) = Prices(w) \cup {t.price} /\ (w = <<>> => Prices(w) = {})
         /\ Prices(w) \subseteq Nat
         /\ Sum(Sizes(v)) = Sum(Sizes(w)) + t.size
         /\ Sum(Values(v)) = Sum(Values(w)) + t.price * t.size
<1> DEFINE n == Len(w)
           v == Append(w, t)
<1>1. /\ v \in Seq(TapeTrade) /\ Len(v) = n + 1 /\ n \in Nat /\ v[n + 1] = t
      /\ DOMAIN w = 1..n /\ DOMAIN v = 1..(n + 1)
      /\ \A i \in 1..n : v[i] = w[i]
  OBVIOUS
<1>2. v # <<>> /\ (w = <<>> <=> n = 0)
  <2>1. w = <<>> <=> Len(w) = 0
    OBVIOUS
  <2>2. Len(v) # 0
    BY <1>1
  <2> HIDE DEF v
  <2>3. v # <<>>
    BY <2>2
  <2> QED
    BY <2>1, <2>3
<1>3. \A i \in 1..n : w[i] \in TapeTrade
  BY <1>1
<1> HIDE DEF n, v
<1>4. v[1] = IF w = <<>> THEN t ELSE w[1]
  <2>1. CASE n = 0
    BY <2>1, <1>1, <1>2
  <2>2. CASE n # 0
    BY <2>2, <1>1, <1>2
  <2> QED
    BY <2>1, <2>2
<1>5. 1..(n + 1) = 1..n \cup {n + 1}
  BY <1>1
<1>6. /\ Prices(v) = Prices(w) \cup {t.price} /\ (w = <<>> => Prices(w) = {})
      /\ Prices(w) \subseteq Nat
  <2>1. Prices(v) = {v[i].price : i \in 1..(n + 1)} /\ Prices(w) = {w[i].price : i \in 1..n}
    BY <1>1 DEF Prices
  <2>2. \A i \in 1..n : w[i].price \in Nat
    BY <1>3, TapeTradeFields
  <2>3. n = 0 => 1..n = {}
    OBVIOUS
  <2> QED
    BY <2>1, <2>2, <2>3, <1>1, <1>2, <1>5
<1>7. t.size \in Int /\ t.price * t.size \in Int
  BY TapeTradeFields
<1>8. Sum(Sizes(v)) = Sum(Sizes(w)) + t.size
  <2>1. Sizes(w) = [i \in 1..n |-> w[i].size] /\ Sizes(v) = [i \in 1..(n + 1) |-> v[i].size]
    BY <1>1 DEF Sizes
  <2>2. \A i \in 1..n : w[i].size \in Int
    BY <1>3, TapeTradeFields
  <2>3. Sizes(w) \in Seq(Int) /\ Len(Sizes(w)) = n
    BY <2>1, <2>2, <1>1
  <2>4. Sizes(v) = Append(Sizes(w), t.size)
    BY <2>1, <2>3, <1>1
  <2> QED
    BY <2>3, <2>4, <1>7, SumAppend, Zenon
<1>9. Sum(Values(v)) = Sum(Values(w)) + t.price * t.size
  <2> DEFINE x == t.price * t.size
  <2>1. Values(w) = [i \in 1..n |-> w[i].price * w[i].size]
        /\ Values(v) = [i \in 1..(n + 1) |-> v[i].price * v[i].size]
    BY <1>1 DEF Values
  <2>2. \A i \in 1..n : w[i].price * w[i].size \in Int
    BY <1>3, TapeTradeFields
  <2>3. Values(w) \in Seq(Int) /\ Len(Values(w)) = n
    BY <2>1, <2>2, <1>1
  <2>4. /\ \A i \in 1..n : Values(v)[i] = Values(w)[i]
        /\ Values(v)[n + 1] = x /\ DOMAIN Values(v) = 1..(n + 1)
        /\ Values(v) = [i \in 1..(n + 1) |-> Values(v)[i]]
    BY <2>1, <1>1, <1>5
  <2>5. x \in Int
    BY <1>7
  <2> DEFINE u == Values(v)
             r == Values(w)
  <2> HIDE DEF x, u, r
  <2>6. u = Append(r, x)
    <3>1. r \in Seq(Int) /\ Len(r) = n /\ u = [i \in 1..(n + 1) |-> u[i]]
          /\ u[n + 1] = x /\ \A i \in 1..n : u[i] = r[i]
      BY <2>3, <2>4, Zenon DEF u, r
    <3>2. Append(r, x) = [i \in 1..(n + 1) |-> Append(r, x)[i]]
          /\ Append(r, x)[n + 1] = x /\ \A i \in 1..n : Append(r, x)[i] = r[i]
      <4>1. Append(r, x) \in Seq(Int) /\ Len(Append(r, x)) = n + 1
        BY <3>1, <2>5
      <4>2. Append(r, x)[n + 1] = x
        BY <3>1, <2>5
      <4>3. \A i \in 1..n : Append(r, x)[i] = r[i]
        BY <3>1, <2>5
      <4>4. Append(r, x) = [i \in 1..(n + 1) |-> Append(r, x)[i]]
        <5>1. \A c \in Seq(Int) : c = [i \in 1..Len(c) |-> c[i]]
          OBVIOUS
        <5> QED
          BY <4>1, <5>1, Zenon
      <4> QED
        BY <4>2, <4>3, <4>4, Zenon
    <3>3. \A i \in 1..(n + 1) : u[i] = Append(r, x)[i]
      BY <3>1, <3>2, <1>5, Zenon
    <3> DEFINE c == Append(r, x)
    <3> HIDE DEF c
    <3>4. u = [i \in 1..(n + 1) |-> u[i]] /\ c = [i \in 1..(n + 1) |-> c[i]]
          /\ \A i \in 1..(n + 1) : u[i] = c[i]
      BY <3>1, <3>2, <3>3 DEF c
    <3>5. u = c
      BY <3>4
    <3> QED
      BY <3>5 DEF c
  <2>7. Sum(Values(v)) = Sum(Values(w)) + x
    BY <2>3, <2>5, <2>6, SumAppend DEF u, r
  <2> QED
    BY <2>7 DEF x
<1>10. v[Len(v)] = t
  BY <1>1
<1> QED
  BY <1>1, <1>2, <1>4, <1>6, <1>8, <1>9, <1>10 DEF n, v

\* The accumulator takes a trade.
LEMMA TakesTrade ==
  ASSUME NEW w \in Seq(TapeTrade), NEW t \in TapeTrade, NEW s \in SlotType, NEW a \in SlotType,
         s.has_trades <=> w # <<>>, w # <<>> => Describes(s, w), Sums(s, w),
         SameAcc(a, Accumulated(s, t.price, t.size))
  PROVE  a.has_trades /\ Describes(a, Append(w, t)) /\ Sums(a, Append(w, t))
<1> DEFINE v == Append(w, t)
           p == t.price
           z == t.size
<1>1. /\ v # <<>> /\ Len(v) = Len(w) + 1 /\ v[Len(v)] = t
      /\ v[1] = IF w = <<>> THEN t ELSE w[1]
      /\ Prices(v) = Prices(w) \cup {p} /\ (w = <<>> => Prices(w) = {})
      /\ Prices(w) \subseteq Nat
      /\ Sum(Sizes(v)) = Sum(Sizes(w)) + z
      /\ Sum(Values(v)) = Sum(Values(w)) + p * z
  BY WindowAppend
<1>2. p \in Nat /\ z \in Nat /\ z > 0
  BY TapeTradeFields
<1> HIDE DEF v, p, z
<1>3. /\ a.has_trades = TRUE
      /\ a.acc_open = IF s.has_trades THEN s.acc_open ELSE p
      /\ a.acc_high = IF s.has_trades /\ p <= s.acc_high THEN s.acc_high ELSE p
      /\ a.acc_low = IF s.has_trades /\ p >= s.acc_low THEN s.acc_low ELSE p
      /\ a.acc_close = p
      /\ a.acc_count = s.acc_count + 1 /\ a.acc_volume = s.acc_volume + z
      /\ a.acc_pv = s.acc_pv + p * z
  <2> DEFINE b == Accumulated(s, p, z)
  <2>1. SameAcc(a, b) /\ Took(b, s, p, z)
    BY <1>2, AccumulatedAcc DEF p, z
  <2> HIDE DEF b
  <2> QED
    BY <2>1 DEF SameAcc, Took
<1>4. s.acc_high \in Nat /\ s.acc_low \in Nat /\ s.acc_volume \in Nat
  BY DEF SlotType
<1>5. Sums(a, v)
  BY <1>1, <1>3 DEF Sums
<1>6. a.acc_open = v[1].price /\ a.acc_close = v[Len(v)].price /\ a.acc_volume > 0
  <2>1. CASE w = <<>>
    BY <2>1, <1>1, <1>2, <1>3, <1>4 DEF p
  <2>2. CASE w # <<>>
    BY <2>2, <1>1, <1>2, <1>3, <1>4 DEF Describes, p
  <2> QED
    BY <2>1, <2>2
<1>7. /\ a.acc_high \in Prices(v) /\ \A x \in Prices(v) : x <= a.acc_high
      /\ a.acc_low \in Prices(v) /\ \A x \in Prices(v) : a.acc_low <= x
  <2>1. CASE w = <<>>
    <3>1. Prices(v) = {p} /\ a.acc_high = p /\ a.acc_low = p
      BY <2>1, <1>1, <1>3
    <3> QED
      BY <3>1, <1>2
  <2>2. CASE w # <<>>
    <3>1. /\ s.acc_high \in Prices(w) /\ \A x \in Prices(w) : x <= s.acc_high
          /\ s.acc_low \in Prices(w) /\ \A x \in Prices(w) : s.acc_low <= x
          /\ s.has_trades
      BY <2>2 DEF Describes
    <3>2. \A x \in Prices(v) : x = p \/ (x \in Prices(w) /\ x \in Nat)
      BY <1>1
    <3>3. a.acc_high \in Prices(v) /\ \A x \in Prices(v) : x <= a.acc_high
      <4>1. CASE p <= s.acc_high
        BY <4>1, <3>1, <3>2, <1>1, <1>2, <1>3, <1>4
      <4>2. CASE ~(p <= s.acc_high)
        BY <4>2, <3>1, <3>2, <1>1, <1>2, <1>3, <1>4
      <4> QED
        BY <4>1, <4>2
    <3>4. a.acc_low \in Prices(v) /\ \A x \in Prices(v) : a.acc_low <= x
      <4>1. CASE p >= s.acc_low
        BY <4>1, <3>1, <3>2, <1>1, <1>2, <1>3, <1>4
      <4>2. CASE ~(p >= s.acc_low)
        BY <4>2, <3>1, <3>2, <1>1, <1>2, <1>3, <1>4
      <4> QED
        BY <4>1, <4>2
    <3> QED
      BY <3>3, <3>4
  <2> QED
    BY <2>1, <2>2
<1>8. Describes(a, v)
  BY <1>6, <1>7 DEF Describes
<1> QED
  BY <1>3, <1>5, <1>8 DEF v

\* What is said of the window depends on the accumulator's fields only.
LEMMA SameAccKeeps ==
  ASSUME NEW w, NEW s, NEW q, SameAcc(q, s),
         s.has_trades <=> w # <<>>, w # <<>> => Describes(s, w), Sums(s, w)
  PROVE  /\ q.has_trades <=> w # <<>>
         /\ w # <<>> => Describes(q, w)
         /\ Sums(q, w)
BY DEF SameAcc, Describes, Sums

\* The sums of an empty window.
LEMMA EmptyWindow ==
  ASSUME NEW s
  PROVE  Sums(s, <<>>) <=> s.acc_count = 0 /\ s.acc_volume = 0 /\ s.acc_pv = 0
<1>1. Sizes(<<>>) = <<>> /\ Values(<<>>) = <<>>
  BY DEF Sizes, Values
<1> QED
  BY <1>1, SumAppend DEF Sums

\* The empty slot.
LEMMA AccInit == Init => AccInv
<1> SUFFICES ASSUME Init PROVE AccInv
  OBVIOUS
<1>1. /\ slot.has_trades = FALSE /\ slot.acc_count = 0 /\ slot.acc_volume = 0
      /\ slot.acc_pv = 0 /\ window = <<>>
  BY DEF Init, EmptySlot
<1>2. Sums(slot, <<>>)
  BY <1>1, EmptyWindow
<1> QED
  BY <1>1, <1>2 DEF AccInv

\* A record that leaves accumulator and window alone.
LEMMA AccKept ==
  ASSUME AccInv, SameAcc(slot', slot), window' = window
  PROVE  AccInv'
<1>1. /\ slot'.has_trades <=> window # <<>>
      /\ window # <<>> => Describes(slot', window)
      /\ Sums(slot', window)
  BY SameAccKeeps DEF AccInv
<1> QED
  BY <1>1 DEF AccInv

\* accumulate(), in check(WireTrade).
LEMMA AccTrade ==
  ASSUME TypeOK, AccInv, NEW t \in Record(Trades), CheckTrade(t)
  PROVE  AccInv'
<1> DEFINE q == Sequenced(slot, "trade", t.ts, t.seq)
           a == Accumulated(q, t.price, t.size)
<1>1. /\ t.type = "trade" /\ t.ts \in Nat /\ t.seq \in 0..SeqWidth-1 /\ t.price \in Int
      /\ t.size \in Nat /\ slot \in SlotType /\ "trade" \in Streams
  BY RecordFields DEF TypeOK, Streams
<1>2. slot' = IF ValidTrade(t) THEN Banded(a, t.price) ELSE q
  BY <1>1 DEF CheckTrade, Check, Checked, CheckedTrade
<1>3. q \in SlotType /\ SameAcc(q, slot)
  <2> HIDE DEF a
  <2>1. q \in SlotType
    BY <1>1, SequencedFields, ZenonT(60)
  <2> QED
    BY <2>1, <1>1, SequencedAcc
<1> HIDE DEF q
<1>4. CASE ~ValidTrade(t)
  <2>1. window' = window
    BY <1>4 DEF CheckTrade, ValidTradeSeen, tape
  <2> QED
    BY <2>1, <1>2, <1>3, <1>4, AccKept
<1>5. CASE ValidTrade(t)
  <2>1. window' = Append(window, t) /\ t \in TapeTrade
    BY <1>5 DEF CheckTrade, ValidTradeSeen, TapeTrade
  <2>2. t.price \in Nat
    BY <2>1, TapeTradeFields
  <2>3. a \in SlotType
    BY <1>1, <1>3, <2>2, AccumulatedFields, Zenon
  <2> HIDE DEF a
  <2>4. Banded(a, t.price) \in SlotType /\ SameAcc(Banded(a, t.price), a)
    BY <2>2, <2>3, BandedFields, BandedAcc, Zenon
  <2>5. slot' \in SlotType /\ SameAcc(slot', Accumulated(q, t.price, t.size))
    BY <2>4, <1>2, <1>5 DEF a
  <2>6. /\ q.has_trades <=> window # <<>>
        /\ window # <<>> => Describes(q, window)
        /\ Sums(q, window) /\ window \in Seq(TapeTrade)
    BY <1>3, SameAccKeeps DEF AccInv
  <2>7. /\ slot'.has_trades /\ Describes(slot', Append(window, t))
        /\ Sums(slot', Append(window, t))
    BY <1>3, <2>1, <2>5, <2>6, TakesTrade
  <2>8. window' \in Seq(TapeTrade) /\ window' # <<>>
    BY <2>1, <2>6, WindowAppend
  <2>9. Describes(slot', window') /\ Sums(slot', window')
    BY <2>1, <2>7
  <2> QED
    BY <2>7, <2>8, <2>9, Zenon DEF AccInv, Describes, Sums, Prices, Sizes, Values, Sum
<1> QED
  BY <1>4, <1>5

\* reconcile(), in check(WireBar), opens the next window.
LEMMA AccBar ==
  ASSUME TypeOK, AccInv, NEW b \in Record(Bars), CheckBar(b)
  PROVE  AccInv'
<1> DEFINE q == Sequenced(slot, "bar", b.ts, b.seq)
<1>1. /\ b.type = "bar" /\ b.ts \in Nat /\ b.seq \in 0..SeqWidth-1
      /\ slot \in SlotType /\ "bar" \in Streams /\ window' = <<>>
  BY RecordFields DEF TypeOK, Streams, CheckBar
<1>2. slot' = Reconciled(q)
  BY <1>1 DEF CheckBar, Check, Checked, CheckedBar
<1>3. q \in SlotType /\ SameAcc(q, slot)
  <2>1. q \in SlotType
    BY <1>1, SequencedFields, ZenonT(60)
  <2> QED
    BY <2>1, <1>1, SequencedAcc
<1> HIDE DEF q
<1>4. (q.has_trades <=> window # <<>>) /\ Sums(q, window)
  BY <1>3, SameAccKeeps DEF AccInv
<1>5. /\ ~slot'.has_trades /\ slot'.acc_count = 0 /\ slot'.acc_volume = 0 /\ slot'.acc_pv = 0
  <2>1. CASE q.has_trades
    BY <2>1, <1>2, <1>3 DEF Reconciled, SlotType
  <2>2. CASE ~q.has_trades
    <3>1. window = <<>> /\ slot' = q
      BY <2>2, <1>2, <1>4 DEF Reconciled
    <3> QED
      BY <3>1, <2>2, <1>4, EmptyWindow
  <2> QED
    BY <2>1, <2>2
<1>6. Sums(slot', <<>>)
  BY <1>5, EmptyWindow
<1>7. Sums(slot', window') /\ window' \in Seq(TapeTrade)
  BY <1>1, <1>6
<1> QED
  BY <1>1, <1>5, <1>7 DEF AccInv, Sums, Sizes, Values, Sum

\* Every record keeps the accumulator's invariant.
LEMMA AccStep == TypeOK /\ AccInv /\ [Next]_vars => AccInv'
<1> SUFFICES ASSUME TypeOK, AccInv, [Next]_vars PROVE AccInv'
  OBVIOUS
<1>1. ASSUME NEW q \in Record(Quotes), CheckQuote(q) PROVE AccInv'
  <2>1. q.type = "quote" /\ slot \in SlotType /\ window' = window
    BY <1>1, RecordFields DEF TypeOK, CheckQuote, tape
  <2>2. slot' = Sequenced(slot, "quote", q.ts, q.seq)
    BY <1>1, <2>1 DEF CheckQuote, Check, Checked, CheckedQuote
  <2>3. SameAcc(slot', slot)
    BY <2>1, <2>2, SequencedAcc
  <2> QED
    BY <2>1, <2>3, AccKept
<1>2. CASE UNCHANGED vars
  BY <1>2, AccKept DEF vars, tape, SameAcc
<1> QED
  BY <1>1, <1>2, AccTrade, AccBar DEF Next

\* The accumulator's invariant holds throughout.
THEOREM AccumulatorInvariant == Spec => [](TypeOK /\ AccInv)
<1>1. IInv => TypeOK
  BY DEF IInv
<1> QED
  BY <1>1, Invariance, AccInit, AccStep, PTL DEF Spec

\* The invariant says that accumulate() has built the aggregate.
LEMMA ExactFromInv == AccInv => AccumulatorExact
<1> SUFFICES ASSUME AccInv, window # <<>>
             PROVE  /\ slot.acc_open = window[1].price
                    /\ slot.acc_close = window[Len(window)].price
                    /\ slot.acc_high = Max(Prices(window))
                    /\ slot.acc_low = Min(Prices(window))
                    /\ slot.acc_volume = Sum(Sizes(window)) /\ slot.acc_count = Len(window)
                    /\ slot.acc_pv = Sum(Values(window))
  BY Zenon DEF AccInv, AccumulatorExact, Aggregate
<1>1. Describes(slot, window) /\ Sums(slot, window) /\ window \in Seq(TapeTrade)
  BY DEF AccInv
<1>2. Prices(window) \in SUBSET Int
  <2>1. \A i \in DOMAIN window : window[i] \in TapeTrade
    BY <1>1
  <2>2. \A i \in DOMAIN window : window[i].price \in Int
    BY <2>1, TapeTradeFields
  <2> QED
    BY <2>2 DEF Prices
<1>3. slot.acc_high = Max(Prices(window)) /\ slot.acc_low = Min(Prices(window))
  BY <1>1, <1>2, MaxIs, MinIs DEF Describes
<1> QED
  BY <1>1, <1>3 DEF Describes, Sums

\* accumulate() and reconcile(): whatever the order of trades, corrupt ticks, quotes and
\* bars, the accumulator is the aggregate of the valid trades since the last bar.
THEOREM AccumulatorIsExact == Spec => []AccumulatorExact
BY AccumulatorInvariant, ExactFromInv, PTL

\* Only reconcile() raises a reconstruction flag.
LEMMA ReconstructFlagsOnly ==
  ASSUME NEW s, NEW b \in Record(Bars)
  PROVE  (Verdict(s, b).flags \cap ReconstructFlags = {}) <=> (ReconcileFlags(s, b) = {})
<1>1. b.type = "bar"
  BY RecordFields
<1>2. Verdict(s, b).flags = BarFlags(b) \cup (SequencingFlags(s, "bar", b.ts, b.seq)
                                                \cup ReconcileFlags(s, b))
  BY <1>1 DEF Verdict, StatelessFlags, StatefulFlags
<1>3. BarFlags(b) \cap ReconstructFlags = {}
  BY DEF BarFlags, ReconstructFlags, Flag
<1>4. SequencingFlags(s, "bar", b.ts, b.seq) \cap ReconstructFlags = {}
  BY DEF SequencingFlags, ReconstructFlags, Flag
<1>5. ReconcileFlags(s, b) \subseteq ReconstructFlags
  BY DEF ReconcileFlags, ReconstructFlags, Flag
<1> QED
  BY <1>2, <1>3, <1>4, <1>5

\* reconcile() accuses a bar that differs in any of the four respects.
LEMMA ReconcileSilent ==
  ASSUME NEW s, NEW b
  PROVE  (ReconcileFlags(s, b) = {}) <=>
           \/ ~s.has_trades
           \/ /\ s.acc_volume = b.volume /\ s.acc_count = b.trade_count
              /\ s.acc_volume = 0 \/ s.acc_pv = b.vwap * s.acc_volume
              /\ <<s.acc_open, s.acc_high, s.acc_low, s.acc_close>>
                   = <<b.open, b.high, b.low, b.close>>
<1> DEFINE f1 == Flag(s.acc_volume # b.volume, "BarVolumeReconstructMismatch")
           f2 == Flag(s.acc_count # b.trade_count, "BarTradeCountReconstructMismatch")
           f3 == Flag(s.acc_volume # 0 /\ s.acc_pv # b.vwap * s.acc_volume,
                      "BarVwapReconstructMismatch")
           f4 == Flag(<<s.acc_open, s.acc_high, s.acc_low, s.acc_close>>
                        # <<b.open, b.high, b.low, b.close>>, "BarOhlcReconstructMismatch")
<1>1. ReconcileFlags(s, b) = IF ~s.has_trades THEN {} ELSE f1 \cup f2 \cup f3 \cup f4
  BY DEF ReconcileFlags
<1>2. f1 = {} <=> s.acc_volume = b.volume
  BY Zenon DEF Flag
<1>3. f2 = {} <=> s.acc_count = b.trade_count
  BY Zenon DEF Flag
<1>4. f3 = {} <=> (s.acc_volume = 0 \/ s.acc_pv = b.vwap * s.acc_volume)
  BY Zenon DEF Flag
<1>5. f4 = {} <=> <<s.acc_open, s.acc_high, s.acc_low, s.acc_close>>
                    = <<b.open, b.high, b.low, b.close>>
  BY Zenon DEF Flag
<1> HIDE DEF f1, f2, f3, f4
<1>6. f1 \cup f2 \cup f3 \cup f4 = {} <=> f1 = {} /\ f2 = {} /\ f3 = {} /\ f4 = {}
  BY Zenon
<1> QED
  BY <1>1, <1>2, <1>3, <1>4, <1>5, <1>6, Zenon

\* reconcile(): a bar is accused by the reconstruction exactly if it differs from what
\* its constituent trades make, and never without trades.
THEOREM BarVerdictsExact == Spec => BarVerdictExact
<1> DEFINE A == \A b \in Record(Bars) : CheckBar(b) =>
       LET agg == Aggregate
           honest == /\ <<agg.open, agg.high, agg.low, agg.close>>
                          = <<b.open, b.high, b.low, b.close>>
                     /\ <<agg.volume, agg.trade_count>> = <<b.volume, b.trade_count>>
                     /\ agg.pv = b.vwap * b.volume
       IN  (result'.flags \cap ReconstructFlags = {}) <=> (window = <<>> \/ honest)
<1>1. TypeOK /\ AccInv => A
  <2> SUFFICES ASSUME TypeOK, AccInv, NEW b \in Record(Bars), CheckBar(b)
               PROVE  LET agg == Aggregate
                          honest == /\ <<agg.open, agg.high, agg.low, agg.close>>
                                         = <<b.open, b.high, b.low, b.close>>
                                    /\ <<agg.volume, agg.trade_count>>
                                         = <<b.volume, b.trade_count>>
                                    /\ agg.pv = b.vwap * b.volume
                      IN  (result'.flags \cap ReconstructFlags = {}) <=>
                            (window = <<>> \/ honest)
    OBVIOUS
  <2> DEFINE agg == Aggregate
             honest == /\ <<agg.open, agg.high, agg.low, agg.close>>
                            = <<b.open, b.high, b.low, b.close>>
                       /\ <<agg.volume, agg.trade_count>> = <<b.volume, b.trade_count>>
                       /\ agg.pv = b.vwap * b.volume
  <2>1. (result'.flags \cap ReconstructFlags = {}) <=> (ReconcileFlags(slot, b) = {})
    <3>1. result' = Verdict(slot, b)
      BY DEF CheckBar, Check
    <3> QED
      BY <3>1, ReconstructFlagsOnly
  <2>2. slot.has_trades <=> window # <<>>
    BY DEF AccInv
  <2>3. ASSUME window # <<>>
        PROVE  (ReconcileFlags(slot, b) = {}) <=> honest
    <3>1. /\ agg.open = slot.acc_open /\ agg.high = slot.acc_high /\ agg.low = slot.acc_low
          /\ agg.close = slot.acc_close /\ agg.volume = slot.acc_volume
          /\ agg.trade_count = slot.acc_count /\ agg.pv = slot.acc_pv
      <4>1. [open |-> slot.acc_open, close |-> slot.acc_close, high |-> slot.acc_high,
             low |-> slot.acc_low, volume |-> slot.acc_volume,
             trade_count |-> slot.acc_count, pv |-> slot.acc_pv] = agg
        BY <2>3, ExactFromInv DEF AccumulatorExact
      <4> HIDE DEF agg
      <4> QED
        BY <4>1
    <3>2. slot.acc_volume # 0
      BY <2>3 DEF AccInv, Describes, TypeOK, SlotType
    <3> HIDE DEF agg
    <3>3. honest <=> /\ slot.acc_open = b.open /\ slot.acc_high = b.high
                     /\ slot.acc_low = b.low /\ slot.acc_close = b.close
                     /\ slot.acc_volume = b.volume /\ slot.acc_count = b.trade_count
                     /\ slot.acc_pv = b.vwap * b.volume
      BY <3>1
    <3> HIDE DEF honest
    <3>4. (ReconcileFlags(slot, b) = {}) <=>
             /\ slot.acc_volume = b.volume /\ slot.acc_count = b.trade_count
             /\ slot.acc_volume = 0 \/ slot.acc_pv = b.vwap * slot.acc_volume
             /\ <<slot.acc_open, slot.acc_high, slot.acc_low, slot.acc_close>>
                  = <<b.open, b.high, b.low, b.close>>
      BY <2>2, <2>3, ReconcileSilent, Zenon
    <3>5. <<slot.acc_open, slot.acc_high, slot.acc_low, slot.acc_close>>
            = <<b.open, b.high, b.low, b.close>>
          <=> /\ slot.acc_open = b.open /\ slot.acc_high = b.high
              /\ slot.acc_low = b.low /\ slot.acc_close = b.close
      OBVIOUS
    <3> QED
      BY <3>2, <3>3, <3>4, <3>5, Zenon
  <2>4. ASSUME window = <<>> PROVE ReconcileFlags(slot, b) = {}
    BY <2>2, <2>4, ReconcileSilent
  <2> HIDE DEF honest, agg
  <2>5. (result'.flags \cap ReconstructFlags = {}) <=> (window = <<>> \/ honest)
    BY <2>1, <2>3, <2>4, Zenon
  <2> QED
    BY <2>5 DEF honest, agg
<1>2. TypeOK /\ AccInv /\ [Next]_vars => [A]_vars
  BY <1>1
<1> QED
  BY <1>2, AccumulatorInvariant, PTL DEF Spec, BarVerdictExact

=============================================================================

----------------------------- MODULE MCValidator -----------------------------
(***************************************************************************)
(* More symbols than slots, hashing to clustered slots, so that probes     *)
(* pass other symbols, wrap around the end and find the table full; one    *)
(* symbol has the key of an unclaimed slot.                                *)
(***************************************************************************)
EXTENDS Validator

MCSymbols == {NoKey, "A", "B", "C"}
MCHash(k) ==
  IF k = NoKey THEN 0 ELSE IF k = "A" THEN kCapacity - 2 ELSE kCapacity - 1

MCRecords ==
  {[type |-> "trade", symbol |-> k, ts |-> ts, seq |-> ts, price |-> 100, size |-> 1] :
     k \in MCSymbols, ts \in {1, 3}}
  \cup {[type |-> "bar", symbol |-> k, ts |-> 1, seq |-> 0, open |-> 100, high |-> 100,
         low |-> 100, close |-> 100, vwap |-> 100, volume |-> 2, trade_count |-> 1] :
         k \in MCSymbols}
=============================================================================

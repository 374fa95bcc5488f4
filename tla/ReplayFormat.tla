---------------------------- MODULE ReplayFormat -----------------------------
(***************************************************************************)
(* The replay file and its two readers: the bounds-checked view of the C++ *)
(* programs (src/replay/binary_format.h over src/replay/mapped_file.h) and *)
(* the reader of the Python side (ml/replay_reader.py).                    *)
(*                                                                         *)
(* A file is its size in bytes and the header's fields, which mean         *)
(* something only when the header is all there.                            *)
(***************************************************************************)
EXTENDS Integers

HeaderSize == 16
Stride == 88
kMagic == "OHLV"
kVersion == 2

Header(count) == [magic |-> kMagic, version |-> kVersion, count |-> count]
File(size, header) == [size |-> size, header |-> header]

Refused == [accepted |-> FALSE, count |-> 0]
Accepted(n) == [accepted |-> TRUE, count |-> n]

\* mmap() of nothing fails: an empty file has no base.
Mapped(f) == f.size # 0

\* The complete records in a file.
WholeRecords(f) == (f.size - HeaderSize) \div Stride

\* view_replay(): only the count is taken from the header, and only if it fits.
ViewReplay(f) ==
  IF ~Mapped(f) \/ f.size < HeaderSize THEN Refused
  ELSE IF f.header.magic # kMagic THEN Refused
  ELSE IF f.header.version # kVersion THEN Refused
  ELSE IF f.header.count > WholeRecords(f) THEN Refused
  ELSE Accepted(f.header.count)

\* Fault: bytes behind the records counted are ignored.
ReadReplayPrefix(f) ==
  IF f.size < HeaderSize THEN Refused
  ELSE IF f.header.magic # kMagic THEN Refused
  ELSE IF f.header.version # kVersion THEN Refused
  ELSE IF f.size - HeaderSize < f.header.count * Stride THEN Refused
  ELSE Accepted(f.header.count)

\* read_replay(): the body is exactly the records the header counts.
ReadReplay(f) ==
  IF f.size < HeaderSize THEN Refused
  ELSE IF f.header.magic # kMagic THEN Refused
  ELSE IF f.header.version # kVersion THEN Refused
  ELSE IF f.size - HeaderSize # f.header.count * Stride THEN Refused
  ELSE Accepted(f.header.count)
=============================================================================

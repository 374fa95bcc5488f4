---------------------------- MODULE MCLiveIngest -----------------------------
(***************************************************************************)
(* A frame with records, one that parses to nothing (an unknown type, or a *)
(* record without a symbol), and one that throws after a good record.      *)
(***************************************************************************)
EXTENDS CaptureSession

MCFrame(n, t) == [kind |-> "data", records |-> n, throws |-> t]
MCFrames == {MCFrame(2, FALSE), MCFrame(0, FALSE), MCFrame(1, TRUE)}
=============================================================================

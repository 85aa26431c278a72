---------------------------- MODULE MCExecOutput ----------------------------
(* Small instances of ExecOutput: streams that mix narrow and wide         *)
(* characters, together longer than the limit.                             *)
EXTENDS ExecOutput

MixedWidths == [stdout |-> <<1, 3, 2, 1>>, stderr |-> <<2, 1, 4>>]
=============================================================================

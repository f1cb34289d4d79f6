--------------------------- MODULE MCRecordBuffer ---------------------------
(***************************************************************************)
(* An instance of RecordBuffer for TLC: two-digit binary headers, so that  *)
(* lengths 0 to 3 have four different headers; payloads of every length,   *)
(* one of them longer than the limit and one that looks like a header.     *)
(***************************************************************************)
EXTENDS RecordBuffer

MCPayloads == {<<>>, <<1>>, <<0, 1>>, <<1, 1, 1>>}
=============================================================================

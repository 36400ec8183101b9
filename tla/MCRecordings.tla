---------------------------- MODULE MCRecordings ----------------------------
(***************************************************************************)
(* The slots stand for numbers such as 0, 3, 20, 100, whose order as       *)
(* strings is "0", "100", "20", "3".                                       *)
(***************************************************************************)
EXTENDS Recordings

LongerFirst == [n \in Slots |-> IF n = 0 THEN 0 ELSE MaxParts + 1 - n]
=============================================================================

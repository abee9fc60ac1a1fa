---------------------------- MODULE MCStateStore ----------------------------
(* Three callers that add to and take from a counter of at most MaxCount:  *)
(* a lost update shows as a count no sequence of the calls leaves.  Taking *)
(* from nothing and adding beyond the bound are refused, as a closure that *)
(* finds no machine or no free address is.                                 *)
EXTENDS StateStore, Naturals

CONSTANT MaxCount

MCState == 0 .. MaxCount
MCUpdate == {"add", "take"}
MCApply ==
  [u \in MCUpdate |->
    [s \in MCState |->
      IF u = "add" THEN IF s < MaxCount THEN s + 1 ELSE Failed
                   ELSE IF s > 0 THEN s - 1 ELSE Failed]]
=============================================================================

--------------------------- MODULE MCResetFreeze ---------------------------
(***************************************************************************)
(* Instances of ResetFreeze: which orders the account places and cancels.  *)
(***************************************************************************)
EXTENDS ResetFreeze

MCSide == [o \in Placements |-> IF o = "b" THEN "buy" ELSE "sell"]
MCStake == [o \in Placements |-> 2]            \* filled in one part or two
MCTarget == [k \in Cancels |-> "s"]
=============================================================================

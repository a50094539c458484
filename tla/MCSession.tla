------------------------------ MODULE MCSession -----------------------------
(***************************************************************************)
(* A small session: one code of each kind the driver uses.  "state" is     *)
(* 0a/07 (response only, retried), "reset" is 0a/04 (acknowledgement and   *)
(* response), "confirm" is 0d/02 (acknowledgement only) and "idle" is      *)
(* 07/00 (fire and forget).                                                *)
(***************************************************************************)
EXTENDS Session

MCSlots         == {"state", "reset", "confirm", "idle"}
MCNeedsAck      == {"reset", "confirm"}
MCNeedsResponse == {"state", "reset"}
MCAttempts      == [s \in MCSlots |-> IF s = "idle" THEN 1 ELSE 2]
=============================================================================

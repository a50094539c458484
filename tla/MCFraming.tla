------------------------------ MODULE MCFraming ------------------------------
(***************************************************************************)
(* Every stream of up to ten bytes of three values, cut in every way into  *)
(* reads of one to three: two shortest frames and some noise, or a false   *)
(* header around a frame.  The plaintext buffer can overflow, as 32768     *)
(* bytes can under a frame of 27650 and a read of 16384.                   *)
(***************************************************************************)
EXTENDS Framing, Decoding

MCFamilies == {2}
=============================================================================

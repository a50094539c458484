------------------------------ MODULE MCCapture ------------------------------
(***************************************************************************)
(* Captures of two attempts with up to four requests; a FIFO of two        *)
(* records, which two late images in halves overflow.                      *)
(***************************************************************************)
EXTENDS Capture
=============================================================================

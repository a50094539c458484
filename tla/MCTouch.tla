------------------------------- MODULE MCTouch ------------------------------
(***************************************************************************)
(* Two samples, one attempt more than that, and as few polls as let a lift *)
(* be seen after a missed one; two operations, so that the second finds    *)
(* what the first left.                                                    *)
(***************************************************************************)
EXTENDS Touch
=============================================================================

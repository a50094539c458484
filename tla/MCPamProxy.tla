----------------------------- MODULE MCPamProxy -----------------------------
(***************************************************************************)
(* Two threads with three calls, so that one thread calls again while the  *)
(* other waits or is inside; three locales, one of them "C", so that the   *)
(* locale of a finished call differs from what another one saved.          *)
(***************************************************************************)
EXTENDS PamProxy

MCThreads == {"t1", "t2"}
MCLocales == {"C", "de", "fr"}
=============================================================================

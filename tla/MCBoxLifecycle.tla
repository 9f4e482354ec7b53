--------------------------- MODULE MCBoxLifecycle ---------------------------
(* The life of one box, for TLC. *)
EXTENDS BoxLifecycle
=============================================================================

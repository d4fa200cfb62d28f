--------------------------- MODULE MCContextWindow ---------------------------
(***************************************************************************)
(* A window of two messages, a threshold of four, histories of up to eight *)
(* messages, short and long ones.  The limit leaves room for a window of   *)
(* long messages and a summary, and not for every history in full.         *)
(***************************************************************************)
EXTENDS ContextWindow

ShortAndLong == {1, 3}
=============================================================================

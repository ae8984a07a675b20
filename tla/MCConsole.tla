----------------------------- MODULE MCConsole ------------------------------
(***************************************************************************)
(* Console for TLC: the GTK thread and two others, a buffer of two lines.  *)
(***************************************************************************)
EXTENDS Console
=============================================================================

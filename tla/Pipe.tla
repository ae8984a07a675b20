-------------------------------- MODULE Pipe --------------------------------
(***************************************************************************)
(* What a TCP connection owes its two applications, whatever sits between  *)
(* them: the reader gets a prefix of what the writer wrote, in order, each *)
(* byte once.  Byte number i of the stream is the number i.                *)
(***************************************************************************)
EXTENDS Naturals, Sequences

CONSTANT StreamLen

VARIABLES written, read

PipeInit == written = 0 /\ read = <<>>

Write == written' \in written + 1 .. StreamLen /\ UNCHANGED read

Read ==
  /\ \E n \in Len(read) + 1 .. written : read' = [i \in 1 .. n |-> i - 1]
  /\ UNCHANGED written

PipeSpec == PipeInit /\ [][Write \/ Read]_<<written, read>>

=============================================================================

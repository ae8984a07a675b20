----------------------------- MODULE MCTcpPath ------------------------------
(***************************************************************************)
(* TcpPath for TLC.  The sequence number space is twice the stream and the *)
(* initial number is near its end, so that it wraps inside the request.    *)
(***************************************************************************)
EXTENDS TcpPath
=============================================================================

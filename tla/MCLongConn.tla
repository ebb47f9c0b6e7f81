----------------------------- MODULE MCLongConn -----------------------------
(* A small instance of LongConn for TLC; the bounds are in the .cfg file.  *)
EXTENDS LongConn
=============================================================================

------------------------------- MODULE MCEcho -------------------------------
(* Small instances of EchoConn for TLC; the other bounds are in the .cfg   *)
(* files.                                                                  *)
EXTENDS EchoConn

(* Two connections with one message each, or a single one with as many     *)
(* as fill every channel on their way: Circle is within it.                *)
LiveScopes == {<<1, 1>>, <<6>>}

(* Two connections with one message each.                                  *)
PairScopes == {<<1, 1>>}
=============================================================================

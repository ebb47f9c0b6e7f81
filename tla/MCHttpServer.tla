---------------------------- MODULE MCHttpServer ----------------------------
(* OrdinarySession for TLC.  Sessions and reloads meet only through the    *)
(* connection of an SSE stream, so that a behaviour looks either at        *)
(* reloads, with plain connections, or at one session, next to a plain     *)
(* connection and without TLS.                                             *)
EXTENDS OrdinarySession

Sessions == {p \in Peers : kind[p] # "none"}
Plain == asked.n = 0 /\ \A path \in Paths : disk[path] = 0
Focus == Sessions = {} \/ (Cardinality(Sessions) = 1 /\ Plain)

MCSpec == SessionInit /\ [][SessionNext /\ Focus']_allVars /\ Fairness
=============================================================================

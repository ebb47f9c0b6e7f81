------------------------------ MODULE MCClient ------------------------------
(* Client for TLC, with its calls as model values.  A behaviour has a      *)
(* second push or a second close(), not both.                              *)
EXTENDS Client

CONSTANTS ordinary, chat

MCCalls == {ordinary, chat}
MCLong == {chat}

NotBoth == \A k \in Long : closes[k] + pushed[k] < MaxCloses + MaxPushes
MCSpec == Init /\ [][Next /\ NotBoth']_vars /\ Fairness
=============================================================================

---------------------------- MODULE MCRateLimit ----------------------------
(* Small instances of RateLimit for TLC: the policies and the connections  *)
(* of a run are chosen by definitions of this module in its .cfg.          *)
EXTENDS RateLimit, TLC

CONSTANTS web, tcp, addr

Rule(key, algorithm, max, window) ==
  [key |-> key, algorithm |-> algorithm, max |-> max, window |-> window]

(* One policy of each algorithm; a handler that names no policy gets the   *)
(* default, one that names an unknown policy is not limited.               *)
MixedPolicy ==
  ("fixed" :> Rule("Ip", "fixed", 2, 2)) @@
  ("sliding" :> Rule("Global", "sliding", 3, 2)) @@
  ("bucket" :> Rule("Header", "bucket", 2, 2))
MixedName ==
  ("login" :> "fixed") @@ ("list" :> None) @@ ("push" :> "bucket") @@ ("misnamed" :> "gone")

(* A request over HTTP and one over a standalone socket of the same address.*)
MCIpOf == web :> addr @@ tcp :> addr
MCHeaderOf == web :> "token" @@ tcp :> None
(* Requests are interchangeable.                                           *)
CallSymmetry == Permutations(Calls)

(* Clients have keys of their own in the store, so that a behaviour looks  *)
(* at one of them, in exchange for more requests of it.                    *)
OneClient ==
  Cardinality({x[1] : x \in DOMAIN admitted} \cup {x.of : x \in DOMAIN data}
              \cup {call[k].of : k \in {j \in Calls : call[j].pc \in Busy}}) <= 1
MCSpec == Init /\ [][Next /\ OneClient']_vars
=============================================================================

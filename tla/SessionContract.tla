--------------------------- MODULE SessionContract ---------------------------
(***************************************************************************)
(* What a socket of the binary protocol promises about the long connections*)
(* on it, to the user's handlers, the user's hooks and the client, whatever*)
(* the tasks, channels and ids underneath:                                 *)
(*   - on_connect and then on_disconnect run, each at most once;           *)
(*   - a handler sends only between the two, and what it sends arrives in  *)
(*     order, each message once, while the socket is there;                *)
(*   - the client is told at most once that a connection is closed, and    *)
(*     never of a connection that was not opened.                          *)
(***************************************************************************)
EXTENDS Naturals

CONSTANT Sessions      (* long connections of the socket                   *)

VARIABLES
  socket,     (* the socket is there                                        *)
  life,       (* "new", then "up" from on_connect to on_disconnect, "down"  *)
  said,       (* messages the handler has sent                              *)
  heard,      (* messages of the handler written to the socket              *)
  notices     (* close frames queued for the client                         *)

contractVars == <<socket, life, said, heard, notices>>

CInit ==
  /\ socket = TRUE
  /\ life = [s \in Sessions |-> "new"]
  /\ said = [s \in Sessions |-> 0]
  /\ heard = [s \in Sessions |-> 0]
  /\ notices = [s \in Sessions |-> 0]

(* on_connect runs and the client learns the conn_id.                      *)
Connect(s) ==
  /\ socket /\ life[s] = "new"
  /\ life' = [life EXCEPT ![s] = "up"]
  /\ UNCHANGED <<socket, said, heard, notices>>

Say(s) ==
  /\ life[s] = "up"
  /\ said' = [said EXCEPT ![s] = @ + 1]
  /\ UNCHANGED <<socket, life, heard, notices>>

Hear(s) ==
  /\ socket /\ heard[s] < said[s]
  /\ heard' = [heard EXCEPT ![s] = @ + 1]
  /\ UNCHANGED <<socket, life, said, notices>>

Notify(s) ==
  /\ socket /\ life[s] # "new" /\ notices[s] = 0
  /\ notices' = [notices EXCEPT ![s] = 1]
  /\ UNCHANGED <<socket, life, said, heard>>

(* on_disconnect runs.                                                     *)
Disconnect(s) ==
  /\ life[s] = "up"
  /\ life' = [life EXCEPT ![s] = "down"]
  /\ UNCHANGED <<socket, said, heard, notices>>

Cut ==
  /\ socket
  /\ socket' = FALSE
  /\ UNCHANGED <<life, said, heard, notices>>

CNext ==
  \/ \E s \in Sessions : Connect(s) \/ Say(s) \/ Hear(s) \/ Notify(s) \/ Disconnect(s)
  \/ Cut

CSpec == CInit /\ [][CNext]_contractVars
=============================================================================

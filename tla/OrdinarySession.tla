-------------------------- MODULE OrdinarySession --------------------------
(***************************************************************************)
(* Sessions of ordinary routes on the connections of HttpServe: a          *)
(* WebSocket session (handle_ordinary_ws_upgrade, ordinary_ws.rs), which   *)
(* takes the socket over and outlives the task, permit and read lock of    *)
(* its connection, and an SSE stream (handle_sse, ordinary_sse.rs), which  *)
(* is the body of a response and ends with its connection.                 *)
(*                                                                         *)
(* A WebSocket session has three tasks: send_task moves what the handler   *)
(* sends to the socket, recv_task moves what the client sends to the       *)
(* handler, and the third runs hooks and handler and then aborts both.  An *)
(* SSE session has the handler's task and the body that hyper polls.       *)
(*                                                                         *)
(* The messages of a handler are numbered 1, 2, ...; 0 is the close: a     *)
(* Close frame, or the empty event that ends a stream.                     *)
(***************************************************************************)
EXTENDS HttpServe

CONSTANTS
  Cap,       (* capacity of the channels of a session (32)                  *)
  MaxSends   (* messages of a handler: bound of the model                   *)

ASSUME SessionAssumption == Cap \in Nat \ {0} /\ MaxSends \in Nat

VARIABLES
  kind,     (* what the connection became: a WebSocket, an SSE stream       *)
  hand,     (* the handler: not called, running, returned with the hooks run *)
  out,      (* the channel from the handler                                 *)
  inc,      (* the channel to the handler: messages and the final close     *)
  sender,   (* send_task, or the body of the stream                         *)
  receiver, (* recv_task                                                    *)
  gone,     (* the client of a WebSocket has left                           *)
  sent,     (* history: messages the handler has sent                       *)
  got,      (* history: number of the last message the client was sent      *)
  closed    (* history: "close": the handler's close was sent; "end": the    *)
            (* sender stopped without; "" otherwise                         *)

taskVars == <<kind, hand, sender, receiver, gone>>
sessionVars == <<taskVars, out, inc, sent, got, closed>>
allVars == <<vars, sessionVars>>

SessionInit ==
  /\ Init
  /\ kind = [p \in Peers |-> "none"] /\ hand = [p \in Peers |-> "none"]
  /\ out = [p \in Peers |-> <<>>] /\ inc = [p \in Peers |-> <<>>]
  /\ sender = [p \in Peers |-> "none"] /\ receiver = [p \in Peers |-> "none"]
  /\ gone = [p \in Peers |-> FALSE]
  /\ sent = [p \in Peers |-> 0] /\ got = [p \in Peers |-> 0]
  /\ closed = [p \in Peers |-> ""]

(* The receiving end of out: send_task has it, or the body of the response *)
(* while its connection is served.                                         *)
Consumed(p) == sender[p] = "run" /\ (kind[p] = "sse" => conn[p] = "serving")

-----------------------------------------------------------------------------
(* A request for a WebSocket route: on_connect, both tasks, the handler.   *)
StartWs(p) ==
  /\ kind[p] = "none"
  /\ Upgrade(p)
  /\ kind' = [kind EXCEPT ![p] = "ws"] /\ hand' = [hand EXCEPT ![p] = "run"]
  /\ sender' = [sender EXCEPT ![p] = "run"]
  /\ receiver' = [receiver EXCEPT ![p] = "run"]
  /\ UNCHANGED <<out, inc, gone, sent, got, closed>>

(* A request for an SSE route: on_connect, the handler, the response.      *)
StartSse(p) ==
  /\ kind[p] = "none" /\ conn[p] = "serving"
  /\ kind' = [kind EXCEPT ![p] = "sse"] /\ hand' = [hand EXCEPT ![p] = "run"]
  /\ sender' = [sender EXCEPT ![p] = "run"]
  /\ UNCHANGED <<vars, out, inc, receiver, gone, sent, got, closed>>

-----------------------------------------------------------------------------
(* The handler: WsSender or SseSender, and WsReceiver.                     *)
Send(p) ==
  /\ hand[p] = "run" /\ Consumed(p)
  /\ Len(out[p]) < Cap /\ sent[p] < MaxSends
  /\ sent' = [sent EXCEPT ![p] = @ + 1]
  /\ out' = [out EXCEPT ![p] = Append(@, sent[p] + 1)]
  /\ UNCHANGED <<vars, taskVars, inc, got, closed>>

SendClose(p) ==
  /\ hand[p] = "run" /\ Consumed(p)
  /\ Len(out[p]) < Cap /\ \A i \in DOMAIN out[p] : out[p][i] # 0
  /\ out' = [out EXCEPT ![p] = Append(@, 0)]
  /\ UNCHANGED <<vars, taskVars, inc, sent, got, closed>>

Recv(p) ==
  /\ hand[p] = "run" /\ inc[p] # <<>>
  /\ inc' = [inc EXCEPT ![p] = Tail(@)]
  /\ UNCHANGED <<vars, taskVars, out, sent, got, closed>>

(* The handler returns: on_disconnect, and the tasks of a WebSocket are    *)
(* aborted, which they notice at their next await.                         *)
HandlerReturns(p) ==
  /\ hand[p] = "run"
  /\ hand' = [hand EXCEPT ![p] = "done"]
  /\ UNCHANGED <<vars, kind, sender, receiver, gone, out, inc, sent, got, closed>>

(* What tells the handler that the session is over: recv() is None, or a   *)
(* send fails.                                                             *)
Told(p) == IF kind[p] = "ws" THEN inc[p] = <<>> /\ receiver[p] = "done" ELSE ~Consumed(p)

-----------------------------------------------------------------------------
(* send_task, or the body of the stream, takes the next message.           *)
BugWrite(p) ==
  LET m == Head(out[p]) IN
  /\ Consumed(p) /\ out[p] # <<>>
  /\ out' = [out EXCEPT ![p] = Tail(@)]
  /\ closed' = [closed EXCEPT ![p] = IF m = 0 THEN "close" ELSE @]
  /\ got' = [got EXCEPT ![p] = IF m = 0 THEN @ ELSE m]
  /\ UNCHANGED <<vars, taskVars, inc, sent>>
Write(p) ==
  LET m == Head(out[p])
      lost == kind[p] = "ws" /\ (gone[p] \/ closed[p] = "close")
      ends == lost \/ (kind[p] = "sse" /\ m = 0)
  IN
  /\ Consumed(p) /\ out[p] # <<>>
  /\ out' = [out EXCEPT ![p] = Tail(@)]
  /\ closed' = [closed EXCEPT ![p] = IF m = 0 /\ ~lost THEN "close" ELSE @]
  /\ got' = [got EXCEPT ![p] = IF m = 0 \/ lost THEN @ ELSE m]
  /\ sender' = [sender EXCEPT ![p] = IF ends THEN "done" ELSE @]
  /\ UNCHANGED <<vars, kind, hand, receiver, gone, inc, sent>>

(* The channel is empty and the handler has dropped its end; a WebSocket   *)
(* is aborted with what the channel still holds.                           *)
BugMayStop(p) == TRUE
MayStop(p) == kind[p] = "ws" \/ out[p] = <<>> \/ conn[p] # "serving"
StopSender(p) ==
  /\ sender[p] = "run" /\ hand[p] = "done"
  /\ MayStop(p)
  /\ sender' = [sender EXCEPT ![p] = "done"]
  /\ closed' = [closed EXCEPT ![p] = IF @ = "" THEN "end" ELSE @]
  /\ UNCHANGED <<vars, kind, hand, receiver, gone, out, inc, sent, got>>

-----------------------------------------------------------------------------
(* recv_task.  A message waits for room in the channel to the handler; the *)
(* client's Close, or an error, is passed on and ends the task.            *)
Receive(p) ==
  /\ receiver[p] = "run" /\ ~gone[p]
  /\ Len(inc[p]) < Cap
  /\ inc' = [inc EXCEPT ![p] = Append(@, "msg")]
  /\ UNCHANGED <<vars, taskVars, out, sent, got, closed>>

ClientLeaves(p) ==
  /\ kind[p] = "ws" /\ ~gone[p]
  /\ gone' = [gone EXCEPT ![p] = TRUE]
  /\ UNCHANGED <<vars, kind, hand, sender, receiver, out, inc, sent, got, closed>>

ReceiveEnd(p) ==
  /\ receiver[p] = "run" /\ gone[p]
  /\ \E state \in {"closing", "done"} : receiver' = [receiver EXCEPT ![p] = state]
  /\ UNCHANGED <<vars, kind, hand, sender, gone, out, inc, sent, got, closed>>

BugPassClose(p) ==
  /\ receiver[p] = "closing" /\ Len(inc[p]) < Cap
  /\ inc' = [inc EXCEPT ![p] = Append(@, "close")]
  /\ receiver' = [receiver EXCEPT ![p] = "run"]
  /\ UNCHANGED <<vars, kind, hand, sender, gone, out, sent, got, closed>>
PassClose(p) ==
  /\ receiver[p] = "closing"
  /\ Len(inc[p]) < Cap \/ hand[p] = "done"
  /\ inc' = [inc EXCEPT ![p] = IF hand[p] = "done" THEN @ ELSE Append(@, "close")]
  /\ receiver' = [receiver EXCEPT ![p] = "done"]
  /\ UNCHANGED <<vars, kind, hand, sender, gone, out, sent, got, closed>>

BugStopReceiver(p) ==
  /\ receiver[p] = "closing" /\ hand[p] = "done"
  /\ receiver' = [receiver EXCEPT ![p] = "done"]
  /\ UNCHANGED <<vars, kind, hand, sender, gone, out, inc, sent, got, closed>>
StopReceiver(p) ==
  /\ receiver[p] \in {"run", "closing"} /\ hand[p] = "done"
  /\ receiver' = [receiver EXCEPT ![p] = "done"]
  /\ UNCHANGED <<vars, kind, hand, sender, gone, out, inc, sent, got, closed>>

-----------------------------------------------------------------------------
HandlerNext(p) == Send(p) \/ SendClose(p) \/ Recv(p) \/ HandlerReturns(p)
TaskNext(p) ==
  Write(p) \/ StopSender(p) \/ ReceiveEnd(p) \/ PassClose(p) \/ StopReceiver(p)
ClientNext(p) == Receive(p) \/ ClientLeaves(p)

SessionNext ==
  /\ main # "returned"
  /\ \/ Serving /\ UNCHANGED sessionVars
     \/ \E p \in Peers : StartWs(p) \/ StartSse(p) \/ HandlerNext(p) \/ TaskNext(p)
                       \/ ClientNext(p)
SessionSpec == SessionInit /\ [][SessionNext]_allVars

(* tokio polls a task that was woken, and select! takes a ready branch at   *)
(* random, so that a branch that stays or becomes ready again is taken.    *)
(* A handshake ends by its timeout at the latest.  Of the handler only this *)
(* is assumed: told that its session is over, it returns.                  *)
Fairness ==
  /\ WF_allVars(Spawn /\ UNCHANGED sessionVars)
  /\ SF_allVars(Reload /\ UNCHANGED sessionVars)
  /\ WF_allVars(Install /\ UNCHANGED sessionVars)
  /\ SF_allVars(Leave /\ UNCHANGED sessionVars)
  /\ WF_allVars(Return /\ UNCHANGED sessionVars)
  /\ WF_allVars(ForwardTake /\ UNCHANGED sessionVars)
  /\ SF_allVars(ForwardSend /\ UNCHANGED sessionVars)
  /\ \A p \in Peers :
       /\ WF_allVars(ReadLock(p) /\ UNCHANGED sessionVars)
       /\ WF_allVars((Handshake(p) \/ HandshakeFails(p)) /\ UNCHANGED sessionVars)
       /\ WF_allVars(TimeOut(p) /\ UNCHANGED sessionVars)
       /\ WF_allVars(TaskNext(p))
       /\ WF_allVars(Recv(p))
       /\ WF_allVars(Told(p) /\ HandlerReturns(p))
FairSpec == SessionSpec /\ Fairness

-----------------------------------------------------------------------------
(* Properties of the sessions and of the server with them.                 *)

(* What the client is sent are the handler's messages in their order, none *)
(* left out and none twice, and nothing after the close (send_task 1913-   *)
(* 1938, the stream 2135-2146).                                            *)
WrittenInOrder ==
  [][\A p \in Peers :
       got'[p] # got[p] => got'[p] = got[p] + 1 /\ closed[p] = ""]_allVars

(* An SSE stream ends only when all that the handler sent was delivered,   *)
(* though on_disconnect has run before; unless the handler closed the      *)
(* stream or the connection was cut (handle_sse 2106-2146).                *)
StreamComplete ==
  \A p \in Peers :
    kind[p] = "sse" /\ closed[p] = "end" /\ conn[p] = "serving" => got[p] = sent[p]

(* Once asked to stop, run() returns: no wait of the accept loop for a     *)
(* permit or for the write lock lasts for ever when requests time out.     *)
ShutdownCompletes == main = "stopping" ~> main = "returned"

(* The last reload wins: when the last message names a path whose files    *)
(* load and then stay as they were when it was sent, the server gets that  *)
(* certificate and keeps it until it is stopped, however messages          *)
(* overflowed the channels.                                                *)
LastReloadWins ==
  \A path \in Paths, v \in 1 .. MaxVersion :
    LET wanted == asked.m = path /\ asked.v = v /\ disk[path] = v /\ v \notin Broken
    IN  <>[]wanted => <>[](main # "wait" \/ cert = [path |-> path, version |-> v])

(* A session whose client is gone ends: its handler is told and            *)
(* on_disconnect runs.  The tasks of a session do not outlive it, though   *)
(* the client stays.                                                       *)
SessionsEnd ==
  \A p \in Peers :
    /\ (kind[p] = "ws" /\ gone[p]) \/ (kind[p] = "sse" /\ conn[p] = "ended")
         ~> hand[p] = "done" \/ main = "returned"
    /\ hand[p] = "done" ~> (sender[p] = "done" /\ receiver[p] # "run") \/ main = "returned"
=============================================================================

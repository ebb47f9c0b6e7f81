------------------------------ MODULE LongConn ------------------------------
(***************************************************************************)
(* One binary-protocol socket of the server, TCP or WebSocket: the main    *)
(* loop of handle_connection (tcp.rs) / handle_websocket (ws.rs), which    *)
(* have the same structure, and the long connections multiplexed over it.  *)
(*                                                                         *)
(* Four kinds of actors meet here:                                         *)
(*   - the main loop, a single task that in one select! either reads a     *)
(*     frame of the client and acts on it, or takes a message off the      *)
(*     push queue; what it writes to the socket, a push or a reply, it     *)
(*     awaits inside the branch, so a client that does not read holds it;  *)
(*   - one pump task per long connection, which moves what the handler     *)
(*     sends into the push queue, runs the on_disconnect hooks and removes *)
(*     the connection from the table;                                      *)
(*   - the user's handler of that connection, with its Sender and Receiver;*)
(*   - the client, which may send any frame at any time, or go away.       *)
(*                                                                         *)
(* A long connection is named by its order of opening (a "session"); the   *)
(* conn_id the client knows it by is sid[s].  The messages a handler sends *)
(* are numbered 1, 2, ... per session and have no other content.  A FIFO   *)
(* channel of consecutively numbered messages is represented by its length.*)
(*                                                                         *)
(* A definition Bug... is a plausible mistake in the one that follows it.  *)
(* No specification uses it: PROJECT.json names the property it breaks.    *)
(***************************************************************************)
EXTENDS Naturals, Sequences

CONSTANTS
  MaxOpens,   (* long connections opened on the socket: bound of the model  *)
  MaxSends,   (* messages a handler sends: bound of the model               *)
  MaxId,      (* largest conn_id, 2^32-1 in the code; the counter wraps to 1 *)
  Cap,        (* capacity of a to_handler or from_handler channel (32)      *)
  PushCap     (* capacity of the push channel (32)                          *)

ASSUME LongConnAssumption ==
  /\ MaxOpens \in Nat \ {0}
  /\ MaxSends \in Nat \ {0}
  /\ MaxId \in Nat \ {0}
  /\ Cap \in Nat \ {0}
  /\ PushCap \in Nat \ {0}

Sessions == 1 .. MaxOpens
Ids == 1 .. MaxId

VARIABLES
  main,     (* where the main loop is                                       *)
  peer,     (* the client's end of the socket is up                         *)
  nextId,   (* next_conn_id                                                 *)
  opens,    (* long connections opened so far                               *)
  conns,    (* connections: id -> session whose to_handler it holds, 0: none*)
  stale,    (* ids a heartbeat has still to drop                            *)
  target,   (* session the main loop opens, sends to or closes, 0: none     *)
  pushq,    (* the push frame being written, if main = "write", and then the*)
            (* push channel: n = 0 is the empty close payload               *)
  sid,      (* conn_id of a session, 0: not opened                          *)
  pump,     (* where the pump task of a session is                          *)
  tx,       (* a clone of the handler's Sender is alive                     *)
  rx,       (* the handler's Receiver is alive                              *)
  inq,      (* length of the to_handler channel                             *)
  outq,     (* length of the from_handler channel                           *)
  sent,     (* history: messages the handler has sent                       *)
  got,      (* history: number of the last message written to the socket    *)
  closes    (* history: close frames queued for the session                 *)

loopVars == <<main, stale, target>>
tableVars == <<nextId, opens, conns, sid>>
handlerVars == <<tx, rx, inq, outq, sent>>
vars == <<main, peer, nextId, opens, conns, stale, target, pushq, sid, pump,
          tx, rx, inq, outq, sent, got, closes>>

MainStates ==
  {"select",    (* in select!                                               *)
   "write",     (* awaiting the write of a push frame to the socket         *)
   "reply",     (* awaiting the write of a reply                            *)
   "opening",   (* awaiting that of a reply with a conn_id, pump to come    *)
   "call",      (* awaiting an ordinary (request-response) handler          *)
   "deliver",   (* awaiting to_handler.send, the table locked               *)
   "close",     (* awaiting push_tx.send of a client's close, table unlocked*)
   "reap",      (* in the loop over stale ids, the table locked             *)
   "reapClose", (* awaiting push_tx.send in that loop, the table locked     *)
   "done"}      (* the loop was left, the socket is dropped                 *)

PumpStates == {"none", "opening", "start", "drain", "push", "cleanup", "done"}

-----------------------------------------------------------------------------
(* The handler can observe its own end of the channels only through these. *)

(* Some Sender of the session's to_handler channel is alive: it is in the  *)
(* table, and nowhere else.                                                *)
HasEntry(s) == sid[s] # 0 /\ conns[sid[s]] = s

(* The lock of the table is held across an await, by the main loop only.   *)
Locked == main \in {"deliver", "reap", "reapClose"}

(* call_stream has spawned the user's handler.                             *)
Started(s) == pump[s] \notin {"none", "opening", "start"}

(* The on_disconnect hooks of the session have run.                        *)
Disconnected(s) == pump[s] \in {"cleanup", "done"}

(* connections.remove(&id), as a close, a heartbeat and a pump do.          *)
BugRemove(id) == conns
Remove(id) == [conns EXCEPT ![id] = 0]

(* Messages in the push channel: the frame being written has left it.      *)
Queue == Len(pushq) - (IF main = "write" THEN 1 ELSE 0)

(* What push_tx.send adds to the push channel.                             *)
BugPush(s, n) == <<[s |-> s, n |-> n]>> \o pushq
Push(s, n) == Append(pushq, [s |-> s, n |-> n])

(* from_handler_rx.recv() returns None: the channel is empty and no Sender *)
(* is left.                                                                *)
BugDrained(s) == ~tx[s]
Drained(s) == outq[s] = 0 /\ ~tx[s]

(* The counter of conn_ids wraps around and skips 0.                       *)
BugUnwrapped(id) == id + 1
BugSameId(id) == id
NextConnId(id) == IF id = MaxId THEN 1 ELSE id + 1

Init ==
  /\ main = "select" /\ peer = TRUE
  /\ nextId = 1 /\ opens = 0 /\ conns = [id \in Ids |-> 0]
  /\ stale = {} /\ target = 0 /\ pushq = <<>>
  /\ sid = [s \in Sessions |-> 0]
  /\ pump = [s \in Sessions |-> "none"]
  /\ tx = [s \in Sessions |-> FALSE] /\ rx = [s \in Sessions |-> FALSE]
  /\ inq = [s \in Sessions |-> 0] /\ outq = [s \in Sessions |-> 0]
  /\ sent = [s \in Sessions |-> 0] /\ got = [s \in Sessions |-> 0]
  /\ closes = [s \in Sessions |-> 0]

-----------------------------------------------------------------------------
(* The main loop: the read branch.  Frames that change nothing here (empty *)
(* or short frames, a push or close for an unknown id) are stuttering      *)
(* steps.                                                                  *)

Reading == main = "select" /\ peer

(* A request for a long-connection handler: take an id, insert the entry   *)
(* and answer with the id, ...                                             *)
ReadOpen ==
  /\ Reading
  /\ opens < MaxOpens
  /\ LET s == opens + 1 IN
       /\ opens' = s
       /\ conns' = [conns EXCEPT ![nextId] = s]
       /\ sid' = [sid EXCEPT ![s] = nextId]
       /\ pump' = [pump EXCEPT ![s] = "opening"]
       /\ tx' = [tx EXCEPT ![s] = TRUE]
       /\ rx' = [rx EXCEPT ![s] = TRUE]
       /\ target' = s
  /\ main' = "opening"
  /\ nextId' = NextConnId(nextId)
  /\ UNCHANGED <<peer, stale, pushq, inq, outq, sent, got, closes>>

(* ... and when that is written, or could not be, run on_connect and spawn *)
(* the pump.                                                               *)
Opened ==
  /\ main = "opening"
  /\ pump' = [pump EXCEPT ![target] = "start"]
  /\ main' = "select" /\ target' = 0
  /\ UNCHANGED <<peer, tableVars, stale, pushq, handlerVars, got, closes>>

(* A push frame with a payload: lock the table and, still holding it, send *)
(* the payload to the handler.                                             *)
ReadPush(id) ==
  /\ Reading
  /\ conns[id] # 0
  /\ main' = "deliver" /\ target' = conns[id]
  /\ UNCHANGED <<peer, tableVars, stale, pushq, pump, handlerVars, got, closes>>

(* The send completes when there is room, or fails when the Receiver is    *)
(* gone; the result is ignored.                                            *)
BugDeliver ==
  /\ main = "deliver"
  /\ inq[target] < Cap /\ rx[target] /\ inq' = [inq EXCEPT ![target] = @ + 1]
  /\ main' = "select" /\ target' = 0
  /\ UNCHANGED <<peer, tableVars, stale, pushq, pump, tx, rx, outq, sent, got, closes>>

Deliver ==
  /\ main = "deliver"
  /\ \/ rx[target] /\ inq[target] < Cap /\ inq' = [inq EXCEPT ![target] = @ + 1]
     \/ ~rx[target] /\ UNCHANGED inq
  /\ main' = "select" /\ target' = 0
  /\ UNCHANGED <<peer, tableVars, stale, pushq, pump, tx, rx, outq, sent, got, closes>>

(* A push frame without payload: the client closes the connection.         *)
ReadClose(id) ==
  /\ Reading
  /\ conns[id] # 0
  /\ conns' = Remove(id)
  /\ main' = "close" /\ target' = conns[id]
  /\ UNCHANGED <<peer, nextId, opens, sid, stale, pushq, pump, handlerVars, got, closes>>

(* A heartbeat frame names the ids the client still knows.                 *)
ReadHeartbeat(alive) ==
  /\ Reading
  /\ stale' = {id \in Ids : conns[id] # 0} \ alive
  /\ main' = "reap"
  /\ UNCHANGED <<peer, tableVars, target, pushq, pump, handlerVars, got, closes>>

Reap(id) ==
  /\ main = "reap"
  /\ id \in stale
  /\ stale' = stale \ {id}
  /\ conns' = Remove(id)
  /\ main' = "reapClose" /\ target' = conns[id]
  /\ UNCHANGED <<peer, nextId, opens, sid, pushq, pump, handlerVars, got, closes>>

ReapEnd ==
  /\ main = "reap"
  /\ stale = {}
  /\ main' = "select"
  /\ UNCHANGED <<peer, tableVars, stale, target, pushq, pump, handlerVars, got, closes>>

(* push_tx.send((id, vec![])).await, by the only task that empties pushq.  *)
QueueClose ==
  /\ main \in {"close", "reapClose"}
  /\ Queue < PushCap
  /\ pushq' = Push(target, 0)
  /\ closes' = [closes EXCEPT ![target] = @ + 1]
  /\ main' = IF main = "close" THEN "select" ELSE "reap"
  /\ target' = 0
  /\ UNCHANGED <<peer, tableVars, stale, pump, handlerVars, got>>

(* A request for an ordinary handler is called inline.                     *)
ReadCall ==
  /\ Reading
  /\ main' = "call"
  /\ UNCHANGED <<peer, tableVars, stale, target, pushq, pump, handlerVars, got, closes>>

CallReturn ==
  /\ main = "call"
  /\ main' = "reply"
  /\ UNCHANGED <<peer, tableVars, stale, target, pushq, pump, handlerVars, got, closes>>

(* A frame answered with an error: too short, of an unknown handler, over  *)
(* the rate limit.                                                         *)
ReadBad ==
  /\ Reading
  /\ main' = "reply"
  /\ UNCHANGED <<peer, tableVars, stale, target, pushq, pump, handlerVars, got, closes>>

(* The reply is written; that it could not be is ignored.                  *)
Replied ==
  /\ main = "reply"
  /\ main' = "select"
  /\ UNCHANGED <<peer, tableVars, stale, target, pushq, pump, handlerVars, got, closes>>

(* Leaving the loop drops the socket and the receiver of the push channel. *)
(* The table lives on: every pump holds a clone of the Arc.                *)
Stop ==
  /\ main' = "done"
  /\ pushq' = <<>>
  /\ UNCHANGED <<peer, tableVars, stale, target, pump, handlerVars, got, closes>>

(* End of stream, a read error, a frame over the limit.                    *)
SocketEnds == main = "select" /\ Stop

(* A panic of an inline handler unwinds the task of the socket.            *)
CallPanics == main = "call" /\ Stop

-----------------------------------------------------------------------------
(* The main loop: the push branch takes the next message, ...              *)

Forward ==
  /\ main = "select"
  /\ pushq # <<>>
  /\ main' = "write"
  /\ UNCHANGED <<peer, tableVars, stale, target, pushq, pump, handlerVars, got, closes>>

(* ... and awaits its write to the socket inside the branch.               *)
Write ==
  /\ main = "write"
  /\ LET m == Head(pushq) IN
       got' = IF m.n = 0 THEN got ELSE [got EXCEPT ![m.s] = m.n]
  /\ pushq' = Tail(pushq)
  /\ main' = "select"
  /\ UNCHANGED <<peer, tableVars, stale, target, pump, handlerVars, closes>>

WriteFails == main = "write" /\ Stop

-----------------------------------------------------------------------------
(* The pump task of session s.                                             *)

(* call_stream extracts the handler's parameters and spawns it; if that    *)
(* fails both channel ends are dropped and on_disconnect runs at once.     *)
PumpStart(s) ==
  /\ pump[s] = "start"
  /\ \/ /\ pump' = [pump EXCEPT ![s] = "drain"]
        /\ UNCHANGED <<tx, rx, inq>>
     \/ /\ pump' = [pump EXCEPT ![s] = "cleanup"]
        /\ tx' = [tx EXCEPT ![s] = FALSE]
        /\ rx' = [rx EXCEPT ![s] = FALSE]
        /\ inq' = [inq EXCEPT ![s] = 0]
  /\ UNCHANGED <<loopVars, peer, tableVars, pushq, outq, sent, got, closes>>

PumpTake(s) ==
  /\ pump[s] = "drain"
  /\ outq[s] > 0
  /\ outq' = [outq EXCEPT ![s] = @ - 1]
  /\ pump' = [pump EXCEPT ![s] = "push"]
  /\ UNCHANGED <<loopVars, peer, tableVars, pushq, tx, rx, inq, sent, got, closes>>

(* The message the pump holds is the oldest not in the from_handler channel*)
(* any more.  Once the socket is gone the send fails and the loop goes on. *)
PumpPush(s) ==
  /\ pump[s] = "push"
  /\ \/ /\ main # "done"
        /\ Queue < PushCap
        /\ pushq' = Push(s, sent[s] - outq[s])
     \/ /\ main = "done"
        /\ UNCHANGED pushq
  /\ pump' = [pump EXCEPT ![s] = "drain"]
  /\ UNCHANGED <<loopVars, peer, tableVars, handlerVars, got, closes>>

(* The handler is done: the loop ends and the on_disconnect hooks run.     *)
PumpEnd(s) ==
  /\ pump[s] = "drain"
  /\ Drained(s)
  /\ pump' = [pump EXCEPT ![s] = "cleanup"]
  /\ UNCHANGED <<loopVars, peer, tableVars, pushq, handlerVars, got, closes>>

(* connections.remove(&conn_id): whatever the table holds under the id.    *)
PumpCleanup(s) ==
  /\ pump[s] = "cleanup"
  /\ ~Locked
  /\ conns' = Remove(sid[s])
  /\ pump' = [pump EXCEPT ![s] = "done"]
  /\ UNCHANGED <<loopVars, peer, nextId, opens, sid, pushq, handlerVars, got, closes>>

-----------------------------------------------------------------------------
(* The user's handler: it may use and drop its two ends in any order, and  *)
(* a clone of its Sender may outlive it in a registry.                     *)

HandlerSend(s) ==
  /\ Started(s) /\ tx[s]
  /\ sent[s] < MaxSends
  /\ outq[s] < Cap
  /\ outq' = [outq EXCEPT ![s] = @ + 1]
  /\ sent' = [sent EXCEPT ![s] = @ + 1]
  /\ UNCHANGED <<loopVars, peer, tableVars, pushq, pump, tx, rx, inq, got, closes>>

HandlerRecv(s) ==
  /\ Started(s) /\ rx[s]
  /\ inq[s] > 0
  /\ inq' = [inq EXCEPT ![s] = @ - 1]
  /\ UNCHANGED <<loopVars, peer, tableVars, pushq, pump, tx, rx, outq, sent, got, closes>>

DropReceiver(s) ==
  /\ Started(s) /\ rx[s]
  /\ rx' = [rx EXCEPT ![s] = FALSE]
  /\ inq' = [inq EXCEPT ![s] = 0]
  /\ UNCHANGED <<loopVars, peer, tableVars, pushq, pump, tx, outq, sent, got, closes>>

DropSender(s) ==
  /\ Started(s) /\ tx[s]
  /\ tx' = [tx EXCEPT ![s] = FALSE]
  /\ UNCHANGED <<loopVars, peer, tableVars, pushq, pump, rx, inq, outq, sent, got, closes>>

(* The client goes away.                                                   *)
PeerDrops ==
  /\ peer
  /\ peer' = FALSE
  /\ UNCHANGED <<loopVars, tableVars, pushq, pump, handlerVars, got, closes>>

-----------------------------------------------------------------------------
ReadFrame ==
  \/ ReadOpen
  \/ ReadCall
  \/ ReadBad
  \/ \E id \in Ids : ReadPush(id) \/ ReadClose(id)
  \/ \E alive \in SUBSET Ids : ReadHeartbeat(alive)

MainLoop ==
  \/ ReadFrame
  \/ Opened
  \/ Deliver
  \/ QueueClose
  \/ \E id \in Ids : Reap(id)
  \/ ReapEnd
  \/ CallReturn
  \/ CallPanics
  \/ Replied
  \/ SocketEnds
  \/ Forward
  \/ Write
  \/ WriteFails

Pump(s) == PumpStart(s) \/ PumpTake(s) \/ PumpPush(s) \/ PumpEnd(s) \/ PumpCleanup(s)

Handler(s) == HandlerSend(s) \/ HandlerRecv(s) \/ DropReceiver(s) \/ DropSender(s)

Next ==
  \/ MainLoop
  \/ \E s \in Sessions : Pump(s) \/ Handler(s)
  \/ PeerDrops

Spec == Init /\ [][Next]_vars

-----------------------------------------------------------------------------
Frames == [s : Sessions, n : 0 .. MaxSends]

(* Every variable has its type; the channels respect their capacities.     *)
TypeOK ==
  /\ main \in MainStates /\ peer \in BOOLEAN
  /\ nextId \in Ids /\ opens \in 0 .. MaxOpens
  /\ conns \in [Ids -> 0 .. MaxOpens]
  /\ stale \subseteq Ids /\ target \in 0 .. MaxOpens
  /\ pushq \in Seq(Frames) /\ Queue \in 0 .. PushCap
  /\ sid \in [Sessions -> 0 .. MaxId]
  /\ pump \in [Sessions -> PumpStates]
  /\ tx \in [Sessions -> BOOLEAN] /\ rx \in [Sessions -> BOOLEAN]
  /\ inq \in [Sessions -> 0 .. Cap] /\ outq \in [Sessions -> 0 .. Cap]
  /\ sent \in [Sessions -> 0 .. MaxSends] /\ got \in [Sessions -> 0 .. MaxSends]
  /\ closes \in [Sessions -> Nat]

(* The entry of a session goes only with its pump: the table never holds a *)
(* to_handler whose connection was already cleaned up (tcp.rs:418-421).    *)
NoLeakedEntry ==
  \A id \in Ids : conns[id] # 0 =>
    sid[conns[id]] = id /\ pump[conns[id]] \in PumpStates \ {"none", "done"}

(* The client is told at most once that a connection is closed, although   *)
(* its own close, a heartbeat and the cleanup of the pump may all want the *)
(* entry gone (tcp.rs:235, 269: only the one that removes it notifies).    *)
ClosedOnce == \A s \in Sessions : closes[s] <= 1

(* As long as conn_ids are not reused, a handler whose connection is still *)
(* up loses its sender (recv() returns None) only because the client closed*)
(* the connection or left it out of a heartbeat, and then the client gets  *)
(* the close frame: no cleanup of another connection takes it down.        *)
EntryLossHasCause ==
  opens <= MaxId =>
    \A s \in Sessions :
      pump[s] \in {"opening", "start", "drain", "push"} /\ ~HasEntry(s) =>
        closes[s] = 1 \/ (target = s /\ main \in {"close", "reapClose"})

(* When on_disconnect has run, every message the handler has sent is on the*)
(* socket, being written or in the push channel: the pump drained the      *)
(* handler first.                                                          *)
NothingLostAtDisconnect ==
  main # "done" =>
    \A s \in Sessions : Disconnected(s) =>
      \A n \in 1 .. MaxSends : got[s] < n /\ n <= sent[s] =>
        \E i \in 1 .. Len(pushq) : pushq[i] = [s |-> s, n |-> n]

(* The push frames of a session leave in the order the handler sent them,  *)
(* none missing and none twice.                                            *)
DeliveredInOrder ==
  [][\A s \in Sessions : got'[s] # got[s] => got'[s] = got[s] + 1]_vars

(* The socket keeps the contract of SessionContract, ids reused or not.    *)
Life(p) == CASE p \in {"none", "opening"} -> "new"
             [] p \in {"start", "drain", "push"} -> "up"
             [] p \in {"cleanup", "done"} -> "down"

Contract == INSTANCE SessionContract WITH
  socket <- (main # "done"),
  life <- [s \in Sessions |-> Life(pump[s])],
  said <- sent,
  heard <- got,
  notices <- closes

KeepsContract == Contract!CSpec
=============================================================================

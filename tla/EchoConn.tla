------------------------------ MODULE EchoConn ------------------------------
(***************************************************************************)
(* LongConn with the handler that the example and the documentation show   *)
(* (chat_echo, docs/en/src/transports.md:297-313): it sends back each      *)
(* message it receives and awaits that send before it receives again, and  *)
(* when recv() returns None it ends and drops its two ends.  LongConn's    *)
(* other actors run unchanged.                                             *)
(*                                                                         *)
(* This is the module of what must happen: the scheduling is stated here,  *)
(* and the properties name the two ways in which the tasks of a socket can *)
(* wait for each other for ever.                                           *)
(***************************************************************************)
EXTENDS LongConn

CONSTANT Scopes   (* how many connections a client opens, and how many      *)
                  (* messages it lets the handler of each send back, at most*)
                  (* as one of these sequences says: bound of the model     *)

ASSUME EchoConnAssumption ==
  \A scope \in Scopes :
    /\ scope \in Seq(0 .. MaxSends)
    /\ Len(scope) <= MaxOpens

VARIABLE busy     (* the handler of a session has a message to send back   *)

echoVars == <<vars, busy>>

EchoInit == Init /\ busy = [s \in Sessions |-> FALSE]

EchoSend(s) ==
  /\ busy[s]
  /\ HandlerSend(s)
  /\ busy' = [busy EXCEPT ![s] = FALSE]

EchoReceive(s) ==
  /\ ~busy[s]
  /\ HandlerRecv(s)
  /\ busy' = [busy EXCEPT ![s] = TRUE]

(* recv() returns None: no message is left and no sender can add one.      *)
SeesClosed(s) == Started(s) /\ rx[s] /\ inq[s] = 0 /\ ~HasEntry(s)

EchoEnd(s) ==
  /\ ~busy[s]
  /\ \/ SeesClosed(s) /\ DropReceiver(s)
     \/ ~rx[s] /\ DropSender(s)
  /\ UNCHANGED busy

Echo(s) == EchoSend(s) \/ EchoReceive(s) \/ EchoEnd(s)

(* Messages a session has sent or is to send back.                         *)
Echoes(s) ==
  sent[s] + inq[s] + (IF busy[s] THEN 1 ELSE 0)
    + (IF main = "deliver" /\ target = s THEN 1 ELSE 0)

InScope ==
  \E scope \in Scopes :
    opens <= Len(scope) /\ \A s \in 1 .. opens : Echoes(s) <= scope[s]

Loop == MainLoop /\ UNCHANGED busy /\ InScope'

EchoNext ==
  \/ Loop
  \/ \E s \in Sessions : (Pump(s) /\ UNCHANGED busy) \/ Echo(s)
  \/ PeerDrops /\ UNCHANGED busy

-----------------------------------------------------------------------------
(* Scheduling.  tokio polls every woken task: the main loop never rests    *)
(* while an action other than reading or writing is possible (WF), nor in  *)
(* a read or a write once the client is gone, which then fails.  select!   *)
(* picks a ready branch at random, and a waiter of the table's lock or of a*)
(* channel slot is served in order (SF).  An ordinary handler returns.     *)
(* Nothing is assumed of a client that is there: it need not read.         *)
WriteEnds == Write \/ WriteFails \/ Replied \/ Opened

MainLoopRuns ==
  \/ Deliver \/ QueueClose \/ ReapEnd \/ CallReturn
  \/ \E id \in Ids : Reap(id)
  \/ ~peer /\ (SocketEnds \/ WriteEnds)

Fairness ==
  /\ WF_echoVars(MainLoopRuns /\ UNCHANGED busy)
  /\ SF_echoVars(Forward /\ UNCHANGED busy)
  /\ \A s \in Sessions :
       SF_echoVars(Pump(s) /\ UNCHANGED busy) /\ WF_echoVars(Echo(s))

EchoSpec == EchoInit /\ [][EchoNext]_echoVars /\ Fairness

(* The client goes on reading: no write to the socket lasts for ever.      *)
ClientReads == []<>(main \notin {"write", "reply", "opening"})

-----------------------------------------------------------------------------
(* The main loop waits for room in a full push channel that nobody else    *)
(* empties: it never comes back.                                           *)
SelfJam == main \in {"close", "reapClose"} /\ Queue = PushCap

(* The main loop waits for a handler to receive, the handler for its pump  *)
(* to take what it sends, the pump for the main loop to empty the push     *)
(* channel: none of the three ever moves.                                  *)
Circle ==
  /\ main = "deliver" /\ rx[target] /\ inq[target] = Cap
  /\ busy[target] /\ outq[target] = Cap
  /\ pump[target] = "push" /\ Queue = PushCap

Jam == SelfJam \/ Circle

(* A connection that the client closed, or that a heartbeat reaped, ends:  *)
(* its handler sees None, its on_disconnect hooks run and its entry goes,  *)
(* unless the main loop is in one of the two jams or the client is there   *)
(* and does not read (tcp.rs:230-238, 266-272, 389-421).                   *)
ClosedSessionsEnd ==
  ClientReads =>
    \A s \in Sessions : closes[s] > 0 ~> (pump[s] = "done" \/ Jam)

(* Whatever a handler sends, the socket catches up with it while there is  *)
(* one and the client reads, unless the main loop jams (tcp.rs:389-395,    *)
(* 484-491).                                                               *)
PushesReachSocket ==
  ClientReads =>
    \A s \in Sessions :
      got[s] < sent[s] ~> (got[s] = sent[s] \/ main = "done" \/ Jam)

(* The loop ends after the client is gone, whatever it read before, unless *)
(* it jams: there is no other way for the tasks of a socket to wait for    *)
(* each other (tcp.rs:237, 243, 270).                                      *)
DropEndsLoop == ~peer ~> (main = "done" \/ Jam)

(* What the comment on the push branch promises (ws.rs:432-434, tcp.rs:481 *)
(* -483): it runs concurrently with the reading of frames, so the loop of  *)
(* a client that reads always gets back to it.  The code breaks it: see    *)
(* SelfJam.                                                                *)
LoopResumes == ClientReads => (main # "select" ~> main \in {"select", "done"})

(* What the hooks and the Receiver promise (hook/mod.rs:122, handler/mod.rs*)
(* :416, example/src/handler/chat.rs:16): when the socket is gone, recv()  *)
(* returns None, the handler ends and on_disconnect runs.  The code breaks *)
(* it: the pumps keep the table, and with it every to_handler, alive.      *)
DropEndsSessions ==
  \A s \in Sessions : main = "done" ~> pump[s] \in {"none", "done"}
=============================================================================

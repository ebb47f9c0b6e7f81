------------------------------- MODULE Client -------------------------------
(***************************************************************************)
(* The runtime of the generated clients over one socket (WebSocket or TCP),*)
(* with the calls that wait for a reply, their timers, the long connections*)
(* it holds, and the server's table of long connections at the other end.  *)
(*                                                                         *)
(* Three runtimes differ in when code runs that a frame has woken up:      *)
(*   "browser"  TypeScript and JavaScript over WebSocket: a frame is an    *)
(*              event, and what awaits its reply runs before the next one; *)
(*   "tcp"      the same over TCP: one chunk holds several frames, all of  *)
(*              them are handled before anything that awaits one runs;     *)
(*   "threads"  Kotlin and C#: a reader thread handles the frames while    *)
(*              the callers run on other threads.                          *)
(* A long connection is named by the call that opened it: ids of calls and *)
(* of connections do not wrap here.  The server's channels have room, what *)
(* happens when they are full is the subject of LongConn.                  *)
(***************************************************************************)
EXTENDS Naturals, Sequences, FiniteSets

CONSTANTS
  Calls,        (* the calls the user makes                                 *)
  Long,         (* those to a handler that is a long connection             *)
  Runtimes,     (* the runtimes looked at                                   *)
  MaxPushes,    (* messages a handler pushes                                *)
  MaxCloses     (* times the user calls close() on a socket                 *)

ASSUME ClientAssumption ==
  /\ Long \subseteq Calls
  /\ Runtimes \subseteq {"browser", "tcp", "threads"}
  /\ MaxPushes \in Nat
  /\ MaxCloses \in Nat

VARIABLES
  runtime,      (* which runtime this client is                             *)
  link,         (* the socket: "connecting", "open", "failed" or "lost"     *)
  nextId,       (* _nextId                                                  *)
  call,         (* where a call is, see TypeOK                              *)
  ids,          (* the id a call was sent with, 0 for none                  *)
  pending,      (* _pending: who waits for the reply to which id            *)
  timers,       (* the 5 s timers that run                                  *)
  reply,        (* the call whose reply resolved this one, as a set         *)
  pushHandlers, (* _pushHandlers: connections whose frames reach a Socket   *)
  socket,       (* the Socket, see TypeOK                                   *)
  closes,       (* calls of close() so far                                  *)
  received,     (* what a Socket gave to the user's callback, 0 for nothing *)
  toServer,     (* frames on their way to the server                        *)
  toClient,     (* frames on their way to the client                        *)
  handled,      (* the calls the server has handled                         *)
  connections,  (* the server's table of long connections                   *)
  tasks,        (* handlers of long connections that run                    *)
  quit,         (* those that have ended before their entry was removed     *)
  pushed,       (* messages a handler has pushed                            *)
  pushes        (* push_tx: what the server's loop has yet to write         *)

clientVars == <<nextId, call, ids, pending, timers, reply>>
socketVars == <<pushHandlers, socket, closes, received>>
serverVars == <<handled, connections, tasks, quit, pushed>>
vars == <<runtime, link, clientVars, socketVars, toServer, toClient, serverVars, pushes>>

(* An entry of _pending and its timer.                                     *)
Entry(i, c) == [id |-> i, call |-> c]
Entries == [id : Nat, call : Calls]

(* Frames to the server: a request, the empty push that closes a           *)
(* connection, a heartbeat with the connections the client knows.          *)
Request(i, c) == [kind |-> "request", id |-> i, call |-> c]
CloseFrame(k) == [kind |-> "close", conn |-> k]
Beat(K) == [kind |-> "beat", conns |-> K]
ServerFrames == [kind : {"request"}, id : Nat, call : Calls]
                  \cup [kind : {"close"}, conn : Long]
                  \cup [kind : {"beat"}, conns : SUBSET Long]

(* Frames to the client: a reply, or a push frame, of which n = 0 is empty.*)
Reply(i, c, ok) == [kind |-> "reply", id |-> i, call |-> c, ok |-> ok]
Push(k, n) == [kind |-> "push", conn |-> k, n |-> n]
PushFrames == [kind : {"push"}, conn : Long, n : Nat]
ClientFrames == [kind : {"reply"}, id : Nat, call : Calls, ok : BOOLEAN] \cup PushFrames

JavaScript == runtime # "threads"

(* No function that awaited a reply is still to run: what JavaScript asks  *)
(* for before the next event.                                              *)
Quiet == JavaScript => \A c \in Calls : call[c] # "answered"

(* What is written to a socket that is gone goes nowhere, or, in Kotlin    *)
(* over TCP and in C#, the write throws.  A write that throws does so after*)
(* the reader has read its last frame.                                     *)
Send(frame) == toServer' = IF link = "open" THEN Append(toServer, frame) ELSE toServer
WriteThrows == ~JavaScript /\ link = "lost" /\ UNCHANGED toServer

-----------------------------------------------------------------------------
(* The constructor of a Kotlin or C# client returns once it is connected.  *)
Init ==
  /\ runtime \in Runtimes
  /\ link = IF runtime = "threads" THEN "open" ELSE "connecting"
  /\ nextId = 1
  /\ call = [c \in Calls |-> "idle"]
  /\ ids = [c \in Calls |-> 0]
  /\ pending = {} /\ timers = {}
  /\ reply = [c \in Calls |-> {}]
  /\ pushHandlers = {}
  /\ socket = [k \in Long |-> "none"]
  /\ closes = [k \in Long |-> 0]
  /\ received = [k \in Long |-> <<>>]
  /\ toServer = <<>> /\ toClient = <<>> /\ pushes = <<>>
  /\ handled = {} /\ connections = {} /\ tasks = {} /\ quit = {}
  /\ pushed = [k \in Long |-> 0]

(* 'open' before failTimer: _ready resolves.                               *)
Connected ==
  /\ link = "connecting" /\ Quiet
  /\ link' = "open"
  /\ UNCHANGED <<runtime, clientVars, socketVars, toServer, toClient, serverVars, pushes>>

(* 'error', 'close' or the 10 s failTimer before 'open': _ready rejects.   *)
ConnectFails ==
  /\ link = "connecting" /\ Quiet
  /\ link' = "failed"
  /\ UNCHANGED <<runtime, clientVars, socketVars, toServer, toClient, serverVars, pushes>>

(* The user calls a function of the TypeScript client: it awaits _ready.   *)
Call(c) ==
  /\ JavaScript /\ Quiet /\ call[c] = "idle"
  /\ call' = [call EXCEPT ![c] = "waiting"]
  /\ UNCHANGED <<runtime, link, nextId, ids, pending, timers, reply, socketVars,
                 toServer, toClient, serverVars, pushes>>

(* Mutant of Start: an id is taken that is free, and a late reply to the   *)
(* call that had it before finds this one.                                 *)
BugStart(c) ==
  LET i == CHOOSE j \in 1 .. Cardinality(Calls) : \A p \in pending : p.id # j
  IN  /\ nextId' = nextId
      /\ ids' = [ids EXCEPT ![c] = i]
      /\ pending' = pending \cup {Entry(i, c)}
      /\ timers' = timers \cup {Entry(i, c)}
      /\ call' = [call EXCEPT ![c] = "pending"]
      /\ Send(Request(i, c))
      /\ UNCHANGED <<runtime, link, reply, socketVars, toClient, serverVars, pushes>>

(* Mutant of Start: no timer.                                              *)
BugStartUntimed(c) ==
  /\ nextId' = nextId + 1
  /\ ids' = [ids EXCEPT ![c] = nextId]
  /\ pending' = pending \cup {Entry(nextId, c)}
  /\ call' = [call EXCEPT ![c] = "pending"]
  /\ Send(Request(nextId, c))
  /\ UNCHANGED <<runtime, link, timers, reply, socketVars, toClient, serverVars, pushes>>

(* The call gets its id, its timer and its entry, and is sent.             *)
Start(c) ==
  /\ nextId' = nextId + 1
  /\ ids' = [ids EXCEPT ![c] = nextId]
  /\ pending' = pending \cup {Entry(nextId, c)}
  /\ timers' = timers \cup {Entry(nextId, c)}
  /\ call' = [call EXCEPT ![c] = "pending"]
  /\ Send(Request(nextId, c))
  /\ UNCHANGED <<runtime, link, reply, socketVars, toClient, serverVars, pushes>>

(* The write of the request throws out of the call, of which the id, the   *)
(* entry and the timer are there by then and stay.                         *)
StartThrows(c) ==
  /\ WriteThrows
  /\ nextId' = nextId + 1
  /\ ids' = [ids EXCEPT ![c] = nextId]
  /\ pending' = pending \cup {Entry(nextId, c)}
  /\ timers' = timers \cup {Entry(nextId, c)}
  /\ call' = [call EXCEPT ![c] = "threw"]
  /\ UNCHANGED <<runtime, link, reply, socketVars, toClient, serverVars, pushes>>

(* _ready has resolved, which a later loss of the socket does not undo.    *)
Issue(c) == call[c] = "waiting" /\ link \in {"open", "lost"} /\ Start(c)

(* _ready has rejected: so does the call.                                  *)
Refuse(c) ==
  /\ call[c] = "waiting" /\ link = "failed"
  /\ call' = [call EXCEPT ![c] = "failed"]
  /\ UNCHANGED <<runtime, link, nextId, ids, pending, timers, reply, socketVars,
                 toServer, toClient, serverVars, pushes>>

(* A call in Kotlin and C#, which have no _ready to wait for.              *)
CallThread(c) == ~JavaScript /\ call[c] = "idle" /\ (Start(c) \/ StartThrows(c))
-----------------------------------------------------------------------------
(* Mutant of Timeout: the call is rejected, its entry stays.               *)
BugTimeout(t) ==
  /\ JavaScript /\ Quiet /\ t \in timers
  /\ timers' = timers \ {t}
  /\ call' = IF call[t.call] = "pending" THEN [call EXCEPT ![t.call] = "failed"] ELSE call
  /\ UNCHANGED <<runtime, link, nextId, ids, pending, reply, socketVars,
                 toServer, toClient, serverVars, pushes>>

(* The timer of a call.  In JavaScript it rejects the promise, which does  *)
(* nothing to one that is settled.                                         *)
Timeout(t) ==
  /\ JavaScript /\ Quiet /\ t \in timers
  /\ timers' = timers \ {t}
  /\ pending' = {p \in pending : p.id # t.id}
  /\ call' = IF call[t.call] = "pending" THEN [call EXCEPT ![t.call] = "failed"] ELSE call
  /\ UNCHANGED <<runtime, link, nextId, ids, reply, socketVars,
                 toServer, toClient, serverVars, pushes>>

(* In Kotlin and C# nothing stops the timer: if its entry is still there it*)
(* takes it and fails the call, which does nothing to one that threw.      *)
TimeoutThread(t) ==
  /\ ~JavaScript /\ t \in timers
  /\ timers' = timers \ {t}
  /\ pending' = {p \in pending : p.id # t.id}
  /\ call' = IF \E p \in pending : p.id = t.id
             THEN [call EXCEPT ![t.call] = "failed"] ELSE call
  /\ UNCHANGED <<runtime, link, nextId, ids, reply, socketVars,
                 toServer, toClient, serverVars, pushes>>

(* Mutant of OnMessage: any message is taken for the answer to close().    *)
BugOnMessage(k, n) ==
  IF socket[k] = "closing"
  THEN /\ socket' = [socket EXCEPT ![k] = "closed"]
       /\ UNCHANGED received
  ELSE /\ received' = IF socket[k] # "closed"
                      THEN [received EXCEPT ![k] = Append(@, n)] ELSE received
       /\ UNCHANGED socket

(* _onMessage of a Socket: while it closes an empty message is the server's*)
(* answer; everything else goes to the callback until it is closed.        *)
OnMessage(k, n) ==
  IF socket[k] = "closing" /\ n = 0
  THEN /\ socket' = [socket EXCEPT ![k] = "closed"]
       /\ UNCHANGED received
  ELSE /\ received' = IF socket[k] # "closed"
                      THEN [received EXCEPT ![k] = Append(@, n)] ELSE received
       /\ UNCHANGED socket

(* A frame of which the first field is 0 is a push for some connection.    *)
ReceivePush(f) ==
  /\ f.kind = "push"
  /\ IF f.conn \in pushHandlers THEN OnMessage(f.conn, f.n) ELSE UNCHANGED <<socket, received>>
  /\ UNCHANGED <<call, pending, timers, reply>>

(* Mutant of Settle: a reply with an error status rejects nothing.         *)
BugSettle(f, found) ==
  LET who == {p.call : p \in found}
  IN  /\ pending' = pending \ found
      /\ call' = [c \in Calls |-> IF c \in who /\ f.ok THEN "answered" ELSE call[c]]
      /\ reply' = [c \in Calls |-> IF c \in who /\ f.ok THEN {f.call} ELSE reply[c]]
      /\ UNCHANGED <<socket, received>>

(* Another frame settles the call that waits for its id; if there is none  *)
(* it is dropped.                                                          *)
Settle(f, found) ==
  LET who == {p.call : p \in found}
  IN  /\ pending' = pending \ found
      /\ call' = [c \in Calls |-> IF c \notin who THEN call[c]
                                  ELSE IF f.ok THEN "answered" ELSE "failed"]
      /\ reply' = [c \in Calls |-> IF c \in who /\ f.ok THEN {f.call} ELSE reply[c]]
      /\ UNCHANGED <<socket, received>>

ReceiveReply(f) ==
  /\ JavaScript /\ f.kind = "reply"
  /\ LET found == {p \in pending : p.id = f.id}
     IN  timers' = timers \ found /\ Settle(f, found)

(* Kotlin and C#: the timer runs on.                                       *)
ReceiveReplyThread(f) ==
  /\ ~JavaScript /\ f.kind = "reply"
  /\ Settle(f, {p \in pending : p.id = f.id})
  /\ UNCHANGED timers

(* Mutant of HandleMessage: a frame is handled before those who await the  *)
(* ones before it have run.                                                *)
BugHandleMessage ==
  /\ link = "open" /\ toClient # <<>>
  /\ LET f == Head(toClient)
     IN  ReceivePush(f) \/ ReceiveReply(f) \/ ReceiveReplyThread(f)
  /\ toClient' = Tail(toClient)
  /\ UNCHANGED <<runtime, link, nextId, ids, pushHandlers, closes, toServer,
                 serverVars, pushes>>

(* _handleMessage.  Only the "tcp" runtime handles a frame before those who*)
(* await the ones before it have run; a thread may do so as well.          *)
HandleMessage ==
  /\ link = "open" /\ toClient # <<>>
  /\ runtime = "browser" => Quiet
  /\ LET f == Head(toClient)
     IN  ReceivePush(f) \/ ReceiveReply(f) \/ ReceiveReplyThread(f)
  /\ toClient' = Tail(toClient)
  /\ UNCHANGED <<runtime, link, nextId, ids, pushHandlers, closes, toServer,
                 serverVars, pushes>>

(* A call goes on with its reply.  That of a long connection makes the     *)
(* Socket, and only then registers it for pushes.                          *)
Resume(c) ==
  /\ call[c] = "answered"
  /\ call' = [call EXCEPT ![c] = "done"]
  /\ socket' = IF c \in Long THEN [socket EXCEPT ![c] = "open"] ELSE socket
  /\ pushHandlers' = IF c \in Long THEN pushHandlers \cup reply[c] ELSE pushHandlers
  /\ UNCHANGED <<runtime, link, nextId, ids, pending, timers, reply, closes, received,
                 toServer, toClient, serverVars, pushes>>

-----------------------------------------------------------------------------
(* close() of a Socket that is not closed.                                 *)
Close(k) ==
  /\ Quiet
  /\ socket[k] \in {"open", "closing", "stuck"} /\ closes[k] < MaxCloses
  /\ socket' = [socket EXCEPT ![k] = "closing"]
  /\ closes' = [closes EXCEPT ![k] = @ + 1]
  /\ Send(CloseFrame(k))
  /\ UNCHANGED <<runtime, link, clientVars, pushHandlers, received, toClient,
                 serverVars, pushes>>

(* The write of the close frame throws out of close(), which then never    *)
(* comes to its delay; one that an earlier close() is in goes on.          *)
CloseThrows(k) ==
  /\ WriteThrows
  /\ socket[k] \in {"open", "closing", "stuck"} /\ closes[k] < MaxCloses
  /\ socket' = [socket EXCEPT ![k] = IF @ = "closing" THEN @ ELSE "stuck"]
  /\ closes' = [closes EXCEPT ![k] = @ + 1]
  /\ UNCHANGED <<runtime, link, clientVars, pushHandlers, received, toClient,
                 serverVars, pushes>>

(* Kotlin and C# do not wait for the answer: 500 ms later it is closed.    *)
Expire(k) ==
  /\ ~JavaScript /\ socket[k] = "closing"
  /\ socket' = [socket EXCEPT ![k] = "closed"]
  /\ UNCHANGED <<runtime, link, clientVars, pushHandlers, closes, received,
                 toServer, toClient, serverVars, pushes>>

(* Every 180 s, in JavaScript: one heartbeat is on its way at a time.      *)
Heartbeat ==
  /\ JavaScript /\ Quiet /\ link = "open"
  /\ \A i \in DOMAIN toServer : toServer[i].kind # "beat"
  /\ Send(Beat(pushHandlers))
  /\ UNCHANGED <<runtime, link, clientVars, socketVars, toClient, serverVars, pushes>>

(* The socket goes away; what is on its way on it is gone and the server   *)
(* forgets its connections.  An 'error' event over TCP rejects everyone who*)
(* waits and leaves the timers.                                            *)
Lose(error) ==
  /\ link = "open" /\ Quiet
  /\ error => runtime = "tcp"
  /\ link' = "lost"
  /\ pending' = IF error THEN {} ELSE pending
  /\ call' = [c \in Calls |-> IF error /\ call[c] = "pending" THEN "failed" ELSE call[c]]
  /\ toServer' = <<>> /\ toClient' = <<>> /\ pushes' = <<>>
  /\ connections' = {}
  /\ UNCHANGED <<runtime, nextId, ids, timers, reply, socketVars, handled, tasks, quit, pushed>>

-----------------------------------------------------------------------------
(* The server handles a request, in its loop and so in order: it fails, or *)
(* the handler answers.  A long connection enters the table, its id goes   *)
(* into the reply, and its handler starts.                                 *)
ServeRequest(f, ok) ==
  /\ f.kind = "request"
  /\ handled' = handled \cup {f.call}
  /\ connections' = IF ok /\ f.call \in Long THEN connections \cup {f.call} ELSE connections
  /\ tasks' = IF ok /\ f.call \in Long THEN tasks \cup {f.call} ELSE tasks
  /\ toClient' = Append(toClient, Reply(f.id, f.call, ok))
  /\ UNCHANGED pushes

(* Mutant of ServeClose: the entry goes, the client is not told.           *)
BugServeClose(f) ==
  /\ f.kind = "close"
  /\ connections' = connections \ {f.conn}
  /\ UNCHANGED <<handled, tasks, toClient, pushes>>

(* Mutant of ServeClose: the client is told while the entry stays.         *)
BugServeCloseKeeps(f) ==
  /\ f.kind = "close"
  /\ pushes' = IF f.conn \in connections THEN Append(pushes, Push(f.conn, 0)) ELSE pushes
  /\ UNCHANGED <<handled, tasks, connections, toClient>>

(* An empty push: the entry goes and the client is told, if there is one.  *)
ServeClose(f) ==
  /\ f.kind = "close"
  /\ connections' = connections \ {f.conn}
  /\ pushes' = IF f.conn \in connections THEN Append(pushes, Push(f.conn, 0)) ELSE pushes
  /\ UNCHANGED <<handled, tasks, toClient>>

(* The close frames for connections reaped together, in any order.         *)
ClosesOf(K) ==
  {s \in [1 .. Cardinality(K) -> {Push(k, 0) : k \in K}] :
     \A i, j \in DOMAIN s : s[i] = s[j] => i = j}

(* Mutant of ServeBeat: nothing is reaped.                                 *)
BugServeBeat(f) ==
  /\ f.kind = "beat"
  /\ UNCHANGED <<handled, connections, tasks, toClient, pushes>>

(* A heartbeat: every entry it does not list goes and the client is told.  *)
ServeBeat(f) ==
  /\ f.kind = "beat"
  /\ connections' = connections \cap f.conns
  /\ \E s \in ClosesOf(connections \ f.conns) : pushes' = pushes \o s
  /\ UNCHANGED <<handled, tasks, toClient>>

Serve ==
  /\ link = "open" /\ toServer # <<>>
  /\ LET f == Head(toServer)
     IN  (\E ok \in BOOLEAN : ServeRequest(f, ok)) \/ ServeClose(f) \/ ServeBeat(f)
  /\ toServer' = Tail(toServer)
  /\ UNCHANGED <<runtime, link, clientVars, socketVars, quit, pushed>>

(* A handler pushes, which it can do after the client has closed as well.  *)
HandlerPush(k) ==
  /\ link = "open" /\ k \in tasks /\ pushed[k] < MaxPushes
  /\ pushed' = [pushed EXCEPT ![k] = @ + 1]
  /\ pushes' = Append(pushes, Push(k, pushed[k] + 1))
  /\ UNCHANGED <<runtime, link, clientVars, socketVars, toServer, toClient,
                 handled, connections, tasks, quit>>

(* A handler ends, because its receiver tells that the entry is gone or by *)
(* itself: the entry goes and the client is not told.                      *)
HandlerEnds(k) ==
  /\ k \in tasks
  /\ tasks' = tasks \ {k}
  /\ quit' = IF k \in connections THEN quit \cup {k} ELSE quit
  /\ connections' = connections \ {k}
  /\ UNCHANGED <<runtime, link, clientVars, socketVars, toServer, toClient,
                 handled, pushed, pushes>>

(* The server's loop writes what the handlers have pushed.                 *)
Forward ==
  /\ link = "open" /\ pushes # <<>>
  /\ toClient' = Append(toClient, Head(pushes))
  /\ pushes' = Tail(pushes)
  /\ UNCHANGED <<runtime, link, clientVars, socketVars, toServer, serverVars>>

-----------------------------------------------------------------------------
UserNext ==
  \/ \E c \in Calls : Call(c) \/ CallThread(c)
  \/ \E k \in Long : Close(k) \/ CloseThrows(k)

RuntimeNext ==
  \/ \E c \in Calls : Issue(c) \/ Refuse(c) \/ Resume(c)
  \/ \E t \in timers : Timeout(t) \/ TimeoutThread(t)
  \/ \E k \in Long : Expire(k)
  \/ HandleMessage
  \/ Heartbeat

LinkNext == Connected \/ ConnectFails \/ \E error \in BOOLEAN : Lose(error)

ServerNext ==
  \/ \E k \in Long : HandlerPush(k) \/ HandlerEnds(k)
  \/ Serve
  \/ Forward

Next == UserNext \/ RuntimeNext \/ LinkNext \/ ServerNext

(* Timers fire, a connection attempt ends one way or another, what can run *)
(* runs and the server's loop goes on.  Nothing makes a user call or close,*)
(* a handler push or end, or the socket fail.  One condition for all calls *)
(* is enough, as a call is issued, resumed and timed out once.             *)
Fairness ==
  /\ WF_vars(\E c \in Calls : Issue(c) \/ Refuse(c) \/ Resume(c))
  /\ WF_vars(\E t \in timers : Timeout(t) \/ TimeoutThread(t))
  /\ WF_vars(\E k \in Long : Expire(k))
  /\ WF_vars(Connected \/ ConnectFails)
  /\ WF_vars(HandleMessage)
  /\ WF_vars(Heartbeat)
  /\ WF_vars(Serve)
  /\ WF_vars(Forward)

Spec == Init /\ [][Next]_vars /\ Fairness

-----------------------------------------------------------------------------
(* A call that "threw" has failed while its entry is still there, a Socket *)
(* that is "stuck" has begun to close while nothing will end that.         *)
TypeOK ==
  /\ runtime \in Runtimes
  /\ link \in {"connecting", "open", "failed", "lost"}
  /\ nextId \in Nat \ {0}
  /\ call \in [Calls -> {"idle", "waiting", "pending", "threw", "answered", "done",
                       "failed"}]
  /\ ids \in [Calls -> Nat]
  /\ pending \subseteq Entries /\ timers \subseteq Entries
  /\ reply \in [Calls -> SUBSET Calls]
  /\ pushHandlers \subseteq Long
  /\ socket \in [Long -> {"none", "open", "closing", "stuck", "closed"}]
  /\ closes \in [Long -> 0 .. MaxCloses]
  /\ received \in [Long -> Seq(Nat)]
  /\ toServer \in Seq(ServerFrames)
  /\ toClient \in Seq(ClientFrames)
  /\ handled \subseteq Calls
  /\ connections \subseteq Long /\ tasks \subseteq Long /\ quit \subseteq Long
  /\ pushed \in [Long -> 0 .. MaxPushes]
  /\ pushes \in Seq(PushFrames)

(* An entry of _pending is that of a call that waits for its reply, under  *)
(* the id it was sent with, and its timer runs; a call that has timed out  *)
(* or that a reply or an error has failed leaves none that a late reply    *)
(* could find.  Only a call of which the write threw (Kotlin over TCP, C#) *)
(* leaves its entry, until its timer takes it, and by then the socket is   *)
(* gone, so that no reply comes for it.  The reply that a call was given is*)
(* the one to itself.                                                      *)
CallsExact ==
  /\ pending = {Entry(ids[c], c) : c \in {d \in Calls : call[d] \in {"pending", "threw"}}}
  /\ pending \subseteq timers
  /\ \A c \in Calls : call[c] = "threw" => ~JavaScript /\ link = "lost"
  /\ \A c \in Calls : reply[c] = IF call[c] \in {"answered", "done"} THEN {c} ELSE {}

(* Calls as the user sees them: see CallContract.                          *)
Outcome(c) ==
  CASE call[c] = "idle" -> "unmade"
    [] call[c] \in {"waiting", "pending"} -> "open"
    [] call[c] \in {"answered", "done"} -> "answered"
    [] call[c] \in {"threw", "failed"} -> "failed"

Contract == INSTANCE CallContract
  WITH outcome <- [c \in Calls |-> Outcome(c)], answer <- reply, handled <- handled

(* The client and the server keep the contract of calls.                   *)
KeepsContract == Contract!ContractSpec

(* The frames on their way to the client, and what connection k gets: the  *)
(* messages its Socket was given and those on their way, 0 for all else.   *)
Way == toClient \o pushes
IsMessage(k, f) == f.kind = "push" /\ f.conn = k /\ f.n > 0
News(k, frames) == [i \in DOMAIN frames |-> IF IsMessage(k, frames[i]) THEN frames[i].n ELSE 0]
Stream(k) == received[k] \o News(k, Way)

(* The numbers in s, but for zeros, are 1 to n in this order.              *)
Counts(s, n) ==
  /\ {s[i] : i \in DOMAIN s} \ {0} = 1 .. n
  /\ \A i, j \in DOMAIN s : i < j /\ s[i] > 0 /\ s[j] > 0 => s[i] < s[j]

(* Where a reply wakes up who awaits it before the next frame, an open     *)
(* Socket is given every message of its handler, in order: those not given *)
(* yet are on their way.                                                   *)
NoPushLost ==
  runtime = "browser" /\ link = "open" =>
    \A k \in Long : socket[k] \in {"open", "closing"} => Counts(Stream(k), pushed[k])

(* In JavaScript a Socket that close() has returned from has no entry at   *)
(* the server, and no handler that still gets its messages.  (Kotlin and C#*)
(* call it closed after 500 ms, whatever has become of the frame.)         *)
ClosedAtServer ==
  JavaScript => \A k \in Long : socket[k] = "closed" => k \notin connections

(* A call ends: with its reply, an error, a timeout, the attempt to connect*)
(* failing or its write throwing, and of the last nothing stays behind.    *)
EveryCallEnds ==
  \A c \in Calls : call[c] # "idle" ~> call[c] \in {"done", "failed"}

(* close() of a Socket of which the server has an entry returns, unless the*)
(* handler ends by itself before: then nothing answers the frame.          *)
CloseReturns ==
  \A k \in Long :
    socket[k] = "closing" /\ k \in connections
      ~> socket[k] = "closed" \/ link = "lost" \/ k \in quit

(* A long connection that opened for a call that had timed out meanwhile,  *)
(* and of which the user will never have a Socket, leaves the server's     *)
(* table: the heartbeat does not list it.                                  *)
OrphansReaped ==
  \A k \in Long :
    JavaScript /\ call[k] = "failed" /\ k \in connections ~> k \notin connections

(* A Socket that is open, of which the handler runs, is in the server's    *)
(* table.  This is what the server's comment on heartbeats promises, it    *)
(* does not hold.                                                          *)
SocketsServed ==
  link = "open" => \A k \in Long : socket[k] = "open" /\ k \in tasks => k \in connections
=============================================================================

---------------------------- MODULE Client_proofs ----------------------------
(***************************************************************************)
(* Proofs about Client, for any number of calls, pushes and closes: calls  *)
(* are exact, close() does not return while the server has an entry, and   *)
(* client and server together implement CallContract.  Last, no push is    *)
(* lost where a reply wakes up who awaits it before the next frame.        *)
(*                                                                         *)
(* All rests on what is under way: an id belongs to one call for ever, a   *)
(* request on its way is of a call not handled yet and is there once, a    *)
(* reply on its way carries the id of a call that was handled, and an empty*)
(* push is of a connection that has left the server's table for good.      *)
(***************************************************************************)
EXTENDS Client, FiniteSetTheorems, SequenceTheorems, TLAPS

CallStates == {"idle", "waiting", "pending", "threw", "answered", "done", "failed"}
SocketStates == {"none", "open", "closing", "stuck", "closed"}

(* Where a call is while its entry is there.                               *)
Entered == {"pending", "threw"}

(* The calls that were given an id.                                        *)
Sent == {c \in Calls : ids[c] # 0}

(* One id, one call; a timer is that of a call under the call's id.        *)
IdsExact ==
  /\ \A c \in Calls : ids[c] < nextId
  /\ \A c, d \in Sent : ids[c] = ids[d] => c = d
  /\ \A c \in Calls : call[c] \in {"idle", "waiting"} => ids[c] = 0
  /\ \A c \in Calls : call[c] \in {"pending", "threw", "answered", "done"} => ids[c] # 0
  /\ \A t \in timers : t.call \in Sent /\ t.id = ids[t.call]

IsRequest(f) == f.kind = "request"

(* A request on its way is not handled yet, nor is it there twice.         *)
RequestsExact ==
  /\ handled \subseteq Sent
  /\ \A i \in DOMAIN toServer : IsRequest(toServer[i]) =>
       toServer[i].call \in Sent \ handled /\ toServer[i].id = ids[toServer[i].call]
  /\ \A i, j \in DOMAIN toServer :
       IsRequest(toServer[i]) /\ IsRequest(toServer[j]) /\ toServer[i].call = toServer[j].call
         => i = j

(* A reply on its way is to a call that was handled, under its id.         *)
RepliesExact ==
  \A i \in DOMAIN toClient : toClient[i].kind = "reply" =>
    toClient[i].call \in handled /\ toClient[i].id = ids[toClient[i].call]

(* The connection of an empty push is no longer in the table, and as its   *)
(* request was handled it never will be.                                   *)
Left(f, K) == f.kind = "push" /\ f.n = 0 => f.conn \in K

ClosesExact ==
  /\ connections \subseteq handled
  /\ IsFiniteSet(connections)
  /\ \A i \in DOMAIN toClient : Left(toClient[i], handled \ connections)
  /\ \A i \in DOMAIN pushes : Left(pushes[i], handled \ connections)
  /\ \A k \in Long : JavaScript /\ socket[k] = "closed" => k \in handled \ connections

IInv == TypeOK /\ CallsExact /\ IdsExact /\ RequestsExact /\ RepliesExact /\ ClosesExact

-----------------------------------------------------------------------------
(* What is written is a frame, and a socket takes only frames.             *)
LEMMA SendType ==
  ASSUME TypeOK, NEW f \in ServerFrames, Send(f) PROVE toServer' \in Seq(ServerFrames)
BY DEF TypeOK, Send

LEMMA FrameTypes ==
  /\ \A i \in Nat, c \in Calls : Request(i, c) \in ServerFrames /\ Entry(i, c) \in Entries
  /\ \A k \in Long : CloseFrame(k) \in ServerFrames
  /\ \A K \in SUBSET Long : Beat(K) \in ServerFrames
  /\ \A i \in Nat, c \in Calls, ok \in BOOLEAN : Reply(i, c, ok) \in ClientFrames
  /\ \A k \in Long, n \in Nat : Push(k, n) \in PushFrames
  /\ PushFrames \subseteq ClientFrames
BY DEF Request, CloseFrame, Beat, Reply, Push, Entry, Entries, ServerFrames, ClientFrames,
       PushFrames

(* A frame by its kind.                                                    *)
LEMMA ServerFrameTypes ==
  ASSUME NEW f \in ServerFrames
  PROVE  /\ f.kind = "request" => f.id \in Nat /\ f.call \in Calls
         /\ f.kind = "close" => f.conn \in Long
         /\ f.kind = "beat" => f.conns \in SUBSET Long
BY DEF ServerFrames

LEMMA ClientFrameTypes ==
  ASSUME NEW f \in ClientFrames
  PROVE  /\ f.kind = "reply" => f.id \in Nat /\ f.call \in Calls /\ f.ok \in BOOLEAN
         /\ f.kind = "push" => f.conn \in Long /\ f.n \in Nat
BY DEF ClientFrames, PushFrames

(* The connections a heartbeat reaps are finitely many, each told once.    *)
LEMMA ClosesType ==
  ASSUME NEW K \in SUBSET Long, IsFiniteSet(K), NEW s \in ClosesOf(K)
  PROVE  /\ s \in Seq(PushFrames)
         /\ \A i \in DOMAIN s : \E k \in K : s[i] = Push(k, 0)
<1>1. Cardinality(K) \in Nat
  BY FS_CardinalityType
<1>2. s \in [1 .. Cardinality(K) -> {Push(k, 0) : k \in K}]
  BY DEF ClosesOf
<1>3. {Push(k, 0) : k \in K} \subseteq PushFrames
  BY FrameTypes
<1>4. s \in Seq(PushFrames)
  BY <1>1, <1>2, <1>3
<1> QED
  BY <1>2, <1>4

LEMMA SettleType ==
  ASSUME TypeOK, NEW f \in ClientFrames, f.kind = "reply",
         NEW found \in SUBSET pending, Settle(f, found)
  PROVE  /\ call' \in [Calls -> CallStates]
         /\ reply' \in [Calls -> SUBSET Calls]
         /\ pending' \subseteq Entries
         /\ UNCHANGED <<socket, received>>
BY ClientFrameTypes DEF TypeOK, Settle, CallStates

(* Each action keeps the types.                                            *)
LEMMA TypeStep ==
  ASSUME TypeOK, CallsExact, ClosesExact, Next PROVE TypeOK'
<1>1. ASSUME NEW c \in Calls, Start(c) \/ StartThrows(c) PROVE TypeOK'
  <2>1. nextId \in Nat /\ nextId + 1 \in Nat \ {0}
    BY DEF TypeOK
  <2>2. toServer' \in Seq(ServerFrames)
    <3>1. CASE Start(c) BY <2>1, <3>1, SendType, FrameTypes DEF Start
    <3>2. CASE StartThrows(c) BY <3>2 DEF StartThrows, WriteThrows, TypeOK
    <3> QED BY <1>1, <3>1, <3>2
  <2>3. /\ nextId' = nextId + 1 /\ ids' = [ids EXCEPT ![c] = nextId]
        /\ pending' = pending \cup {Entry(nextId, c)} /\ timers' = timers \cup {Entry(nextId, c)}
        /\ call' = [call EXCEPT ![c] = "pending"] \/ call' = [call EXCEPT ![c] = "threw"]
        /\ UNCHANGED <<runtime, link, reply, socketVars, toClient, serverVars, pushes>>
    BY <1>1 DEF Start, StartThrows
  <2> QED
    BY <2>1, <2>2, <2>3, FrameTypes DEF TypeOK, socketVars, serverVars
<1>2. ASSUME NEW c \in Calls, Call(c) \/ Refuse(c) PROVE TypeOK'
  BY <1>2 DEF Call, Refuse, TypeOK, socketVars, serverVars
<1>3. ASSUME NEW c \in Calls, Resume(c) PROVE TypeOK'
  <2>1. pushHandlers' \subseteq Long
    BY <1>3 DEF Resume, TypeOK, CallsExact
  <2> QED
    BY <1>3, <2>1 DEF Resume, TypeOK, serverVars
<1>4. ASSUME NEW t \in timers, Timeout(t) \/ TimeoutThread(t) PROVE TypeOK'
  BY <1>4 DEF Timeout, TimeoutThread, TypeOK, socketVars, serverVars, Entries
<1>5. ASSUME NEW k \in Long, Close(k) \/ CloseThrows(k) PROVE TypeOK'
  <2>1. toServer' \in Seq(ServerFrames)
    <3>1. CASE Close(k) BY <3>1, SendType, FrameTypes DEF Close
    <3>2. CASE CloseThrows(k) BY <3>2 DEF CloseThrows, WriteThrows, TypeOK
    <3> QED BY <1>5, <3>1, <3>2
  <2>2. /\ closes[k] < MaxCloses /\ closes' = [closes EXCEPT ![k] = @ + 1]
        /\ \E s \in {"closing", "stuck"} : socket' = [socket EXCEPT ![k] = s]
        /\ UNCHANGED <<runtime, link, clientVars, pushHandlers, received, toClient, serverVars,
                       pushes>>
    BY <1>5 DEF Close, CloseThrows
  <2>3. closes' \in [Long -> 0 .. MaxCloses]
    BY <2>2, ClientAssumption DEF TypeOK
  <2>4. socket' \in [Long -> SocketStates]
    BY <2>2 DEF TypeOK, SocketStates
  <2> QED
    BY <2>1, <2>2, <2>3, <2>4 DEF TypeOK, clientVars, serverVars, SocketStates
<1>6. ASSUME NEW k \in Long, Expire(k) PROVE TypeOK'
  BY <1>6 DEF Expire, TypeOK, clientVars, serverVars
<1>7. CASE HandleMessage
  <2> DEFINE f == Head(toClient)
  <2>1. f \in ClientFrames /\ toClient' \in Seq(ClientFrames)
    BY <1>7 DEF HandleMessage, TypeOK
  <2>2. UNCHANGED <<runtime, link, nextId, ids, pushHandlers, closes, toServer, serverVars, pushes>>
    BY <1>7 DEF HandleMessage
  <2>3. CASE ReceivePush(f)
    <3>1. socket' \in [Long -> SocketStates]
      <4>1. UNCHANGED socket \/ \E k : socket' = [socket EXCEPT ![k] = "closed"]
        <5> HIDE DEF f
        <5> QED BY <2>3 DEF ReceivePush, OnMessage
      <4> QED
        BY <4>1 DEF TypeOK, SocketStates
    <3>2. received' \in [Long -> Seq(Nat)]
      <4>1. CASE UNCHANGED received
        BY <4>1 DEF TypeOK
      <4>2. ASSUME f.n \in Nat, f.conn \in Long,
                   received' = [received EXCEPT ![f.conn] = Append(@, f.n)]
            PROVE  received' \in [Long -> Seq(Nat)]
        <5>1. received \in [Long -> Seq(Nat)] /\ Append(received[f.conn], f.n) \in Seq(Nat)
          BY <4>2 DEF TypeOK
        <5> QED
          BY <4>2, <5>1
      <4> HIDE DEF f
      <4> QED
        BY <2>1, <2>3, <4>1, <4>2, ClientFrameTypes DEF ReceivePush, OnMessage
    <3> QED
      BY <2>1, <2>2, <2>3, <3>1, <3>2 DEF ReceivePush, TypeOK, serverVars, SocketStates
  <2>4. CASE ReceiveReply(f) \/ ReceiveReplyThread(f)
    <3>1. PICK found \in SUBSET pending : Settle(f, found) /\ timers' \subseteq timers
      BY <2>4 DEF ReceiveReply, ReceiveReplyThread
    <3>2. f.kind = "reply"
      BY <2>4 DEF ReceiveReply, ReceiveReplyThread
    <3> HIDE DEF f
    <3> QED
      BY <2>1, <2>2, <3>1, <3>2, SettleType DEF TypeOK, serverVars, CallStates
  <2> QED
    BY <1>7, <2>3, <2>4 DEF HandleMessage
<1>8. CASE Heartbeat
  <2>1. toServer' \in Seq(ServerFrames)
    BY <1>8, SendType, FrameTypes DEF Heartbeat, TypeOK
  <2> QED
    BY <1>8, <2>1 DEF Heartbeat, TypeOK, clientVars, socketVars, serverVars
<1>9. CASE Connected \/ ConnectFails
  BY <1>9 DEF Connected, ConnectFails, TypeOK, clientVars, socketVars, serverVars
<1>10. ASSUME NEW error \in BOOLEAN, Lose(error) PROVE TypeOK'
  BY <1>10 DEF Lose, TypeOK, socketVars
<1>11. ASSUME NEW k \in Long, HandlerPush(k) PROVE TypeOK'
  <2>1. pushed[k] + 1 \in 0 .. MaxPushes /\ pushed[k] + 1 \in Nat
    BY <1>11, ClientAssumption DEF HandlerPush, TypeOK
  <2>2. pushes' \in Seq(PushFrames)
    BY <1>11, <2>1, FrameTypes DEF HandlerPush, TypeOK
  <2> QED
    BY <1>11, <2>1, <2>2 DEF HandlerPush, TypeOK, clientVars, socketVars
<1>12. ASSUME NEW k \in Long, HandlerEnds(k) PROVE TypeOK'
  BY <1>12 DEF HandlerEnds, TypeOK, clientVars, socketVars
<1>13. CASE Serve
  <2> DEFINE f == Head(toServer)
  <2>1. f \in ServerFrames /\ toServer' \in Seq(ServerFrames)
    BY <1>13 DEF Serve, TypeOK
  <2>2. UNCHANGED <<runtime, link, clientVars, socketVars, quit, pushed>>
    BY <1>13 DEF Serve
  <2>3. ASSUME NEW ok \in BOOLEAN, ServeRequest(f, ok) PROVE TypeOK'
    <3>1. f.id \in Nat /\ f.call \in Calls
      BY <2>1, <2>3, ServerFrameTypes DEF ServeRequest
    <3>2. toClient' \in Seq(ClientFrames)
      BY <2>3, <3>1, FrameTypes DEF ServeRequest, TypeOK
    <3> QED
      BY <2>1, <2>2, <2>3, <3>1, <3>2 DEF ServeRequest, TypeOK, clientVars, socketVars
  <2>4. CASE ServeClose(f)
    <3>1. f.conn \in Long
      BY <2>1, <2>4, ServerFrameTypes DEF ServeClose
    <3>2. pushes' \in Seq(PushFrames)
      BY <2>4, <3>1, FrameTypes DEF ServeClose, TypeOK
    <3> QED
      BY <2>1, <2>2, <2>4, <3>2 DEF ServeClose, TypeOK, clientVars, socketVars
  <2>5. CASE ServeBeat(f)
    <3>1. connections \ f.conns \in SUBSET Long /\ IsFiniteSet(connections \ f.conns)
      BY FS_Subset DEF TypeOK, ClosesExact
    <3>2. pushes' \in Seq(PushFrames)
      <4>1. PICK s \in ClosesOf(connections \ f.conns) : pushes' = pushes \o s
        BY <2>5 DEF ServeBeat
      <4>2. s \in Seq(PushFrames) /\ pushes \in Seq(PushFrames)
        BY <3>1, ClosesType DEF TypeOK
      <4> QED
        BY <4>1, <4>2
    <3> QED
      BY <2>1, <2>2, <2>5, <3>2 DEF ServeBeat, TypeOK, clientVars, socketVars
  <2> QED
    BY <1>13, <2>3, <2>4, <2>5 DEF Serve
<1>14. CASE Forward
  <2>1. Head(pushes) \in ClientFrames /\ pushes' \in Seq(PushFrames)
    BY <1>14, FrameTypes DEF Forward, TypeOK
  <2>2. toClient' \in Seq(ClientFrames)
    BY <1>14, <2>1 DEF Forward, TypeOK
  <2> QED
    BY <1>14, <2>1, <2>2 DEF Forward, TypeOK, clientVars, socketVars, serverVars
<1> QED
  BY <1>1, <1>2, <1>3, <1>4, <1>5, <1>6, <1>7, <1>8, <1>9, <1>10, <1>11, <1>12, <1>13, <1>14
     DEF Next, UserNext, RuntimeNext, LinkNext, ServerNext, Issue, CallThread

-----------------------------------------------------------------------------
(* CallsExact, entry by entry.                                             *)
LEMMA PendingOf ==
  ASSUME CallsExact
  PROVE  /\ \A p \in pending : /\ p.call \in Calls /\ call[p.call] \in Entered
                               /\ p.id = ids[p.call] /\ p = Entry(ids[p.call], p.call)
         /\ \A c \in Calls : call[c] \in Entered => Entry(ids[c], c) \in pending
BY DEF CallsExact, Entry, Entered

LEMMA EntryOf ==
  \A i, j, c, d : /\ Entry(i, c).id = i /\ Entry(i, c).call = c
                  /\ Entry(i, c) = Entry(j, d) => i = j /\ c = d
<1>1. \A i, c : Entry(i, c).id = i /\ Entry(i, c).call = c
  BY DEF Entry
<1> QED
  BY <1>1

(* An id finds the entry of its own call and no other.                     *)
LEMMA IdFinds ==
  ASSUME CallsExact, IdsExact, NEW c \in Sent, NEW i, i = ids[c]
  PROVE  {p \in pending : p.id = i} = IF call[c] \in Entered THEN {Entry(i, c)} ELSE {}
<1>1. \A p \in pending : p.id = i => p.call = c
  <2> SUFFICES ASSUME NEW p \in pending, p.id = i PROVE p.call = c
    OBVIOUS
  <2>1. p.call \in Calls /\ call[p.call] \in Entered /\ ids[p.call] = ids[c]
    BY PendingOf
  <2> QED
    BY <2>1 DEF IdsExact, Sent
<1>2. \A p \in pending : p.id = i => p = Entry(i, c) /\ call[c] \in Entered
  BY <1>1, PendingOf
<1>3. c \in Calls /\ (call[c] \in Entered => Entry(i, c) \in pending /\ Entry(i, c).id = i)
  BY PendingOf, EntryOf DEF Sent
<1> QED
  BY <1>2, <1>3

(* A call and its entry leave _pending together: what remains is exact.    *)
LEMMA DropEntry ==
  ASSUME CallsExact, NEW c \in Calls, NEW S, call[c] \in Entered, S \notin Entered,
         call' = [call EXCEPT ![c] = S], call \in [Calls -> CallStates], S \in CallStates,
         ids' = ids, pending' = pending \ {Entry(ids[c], c)}
  PROVE  pending' = {Entry(ids'[d], d) : d \in {e \in Calls : call'[e] \in Entered}}
<1>1. \A d \in Calls : call'[d] = IF d = c THEN S ELSE call[d]
  OBVIOUS
<1>2. \A d \in Calls : d # c => Entry(ids[d], d) # Entry(ids[c], c)
  BY EntryOf
<1>3. pending = {Entry(ids[d], d) : d \in {e \in Calls : call[e] \in Entered}}
  BY DEF CallsExact, Entered
<1> QED
  BY <1>1, <1>2, <1>3

(* The reply at the head is that of a call that was handled.               *)
LEMMA ReplyAtHead ==
  ASSUME TypeOK, RequestsExact, RepliesExact, toClient # <<>>, Head(toClient).kind = "reply"
  PROVE  /\ Head(toClient).call \in handled /\ Head(toClient).call \in Sent
         /\ Head(toClient).id = ids[Head(toClient).call]
         /\ Head(toClient).ok \in BOOLEAN
<1>1. toClient \in Seq(ClientFrames) /\ 1 \in DOMAIN toClient /\ Head(toClient) = toClient[1]
  BY DEF TypeOK
<1>2. Head(toClient) \in ClientFrames
  BY <1>1
<1> QED
  BY <1>1, <1>2, ClientFrameTypes DEF RequestsExact, RepliesExact

(* What a reply does: it settles its call if that still waits.             *)
LEMMA SettleEffect ==
  ASSUME TypeOK, CallsExact, IdsExact, RequestsExact, RepliesExact, toClient # <<>>,
         link = "open", NEW f, f = Head(toClient), ReceiveReply(f) \/ ReceiveReplyThread(f)
  PROVE  /\ f.call \in handled /\ f.call \in Sent
         /\ \/ /\ call[f.call] = "pending"
               /\ pending' = pending \ {Entry(ids[f.call], f.call)}
               /\ timers' = timers \/ timers' = timers \ {Entry(ids[f.call], f.call)}
               /\ \/ /\ call' = [call EXCEPT ![f.call] = "answered"]
                     /\ reply' = [reply EXCEPT ![f.call] = {f.call}]
                  \/ /\ call' = [call EXCEPT ![f.call] = "failed"]
                     /\ reply' = reply
            \/ UNCHANGED <<call, pending, timers, reply>>
<1> DEFINE found == {p \in pending : p.id = f.id}
<1>1. f.kind = "reply" /\ Settle(f, found) /\ (timers' = timers \/ timers' = timers \ found)
  BY DEF ReceiveReply, ReceiveReplyThread
<1>2. f.call \in handled /\ f.call \in Sent /\ f.id = ids[f.call] /\ f.ok \in BOOLEAN
  BY <1>1, ReplyAtHead
<1>3. found = IF call[f.call] = "pending" THEN {Entry(ids[f.call], f.call)} ELSE {}
  <2>1. call[f.call] # "threw"
    BY <1>2 DEF CallsExact, Sent
  <2> QED
    BY <1>2, <2>1, IdFinds DEF Entered
<1> DEFINE who == {p.call : p \in found}
<1>4. who = IF call[f.call] = "pending" THEN {f.call} ELSE {}
  BY <1>3, EntryOf
<1>5. /\ pending' = pending \ found
      /\ call' = [c \in Calls |-> IF c \notin who THEN call[c]
                                   ELSE IF f.ok THEN "answered" ELSE "failed"]
      /\ reply' = [c \in Calls |-> IF c \in who /\ f.ok THEN {f.call} ELSE reply[c]]
  BY <1>1 DEF Settle
<1> HIDE DEF found, who
<1>6. call \in [Calls -> CallStates] /\ reply \in [Calls -> SUBSET Calls]
  BY DEF TypeOK, CallStates
<1>7. CASE call[f.call] = "pending"
  <2>1. CASE f.ok
    <3>1. call' = [call EXCEPT ![f.call] = "answered"]
      BY <1>4, <1>5, <1>6, <1>7, <2>1
    <3>2. reply' = [reply EXCEPT ![f.call] = {f.call}]
      BY <1>4, <1>5, <1>6, <1>7, <2>1
    <3> QED
      BY <1>1, <1>2, <1>3, <1>5, <1>7, <3>1, <3>2
  <2>2. CASE ~f.ok
    <3>1. call' = [call EXCEPT ![f.call] = "failed"]
      BY <1>4, <1>5, <1>6, <1>7, <2>2
    <3>2. reply' = reply
      BY <1>5, <1>6, <2>2
    <3> QED
      BY <1>1, <1>2, <1>3, <1>5, <1>7, <3>1, <3>2
  <2> QED
    BY <2>1, <2>2
<1>8. CASE call[f.call] # "pending"
  BY <1>1, <1>2, <1>3, <1>4, <1>5, <1>6, <1>8
<1> QED
  BY <1>7, <1>8

-----------------------------------------------------------------------------
(* Calls stay exact, whatever happens to their frames.                     *)
LEMMA CallsStep ==
  ASSUME IInv, Next PROVE CallsExact' /\ IdsExact'
<1> USE DEF IInv
<1>0. call \in [Calls -> CallStates] /\ reply \in [Calls -> SUBSET Calls] /\ ids \in [Calls -> Nat]
  BY DEF TypeOK, CallStates
<1>1. ASSUME UNCHANGED <<clientVars, runtime>>, link = "lost" => link' = "lost" PROVE CallsExact' /\ IdsExact'
  <2>1. UNCHANGED <<nextId, call, ids, pending, timers, reply>>
    BY <1>1 DEF clientVars
  <2>2. CallsExact'
    BY <1>1, <2>1 DEF CallsExact, JavaScript
  <2>3. IdsExact'
    BY <2>1 DEF IdsExact, Sent
  <2> QED
    BY <2>2, <2>3
<1>2. ASSUME NEW c \in Calls, call[c] \in {"idle", "waiting"}, Start(c) \/ StartThrows(c)
      PROVE  CallsExact' /\ IdsExact'
  <2>0. PICK S \in Entered : /\ call' = [call EXCEPT ![c] = S]
                             /\ S = "threw" => ~JavaScript /\ link = "lost"
    BY <1>2 DEF Start, StartThrows, WriteThrows, Entered
  <2>1. nextId \in Nat /\ nextId # 0 /\ ids[c] = 0 /\ nextId' = nextId + 1
    BY <1>2 DEF IdsExact, TypeOK, Start, StartThrows
  <2>2. \A d \in Calls : /\ ids'[d] = IF d = c THEN nextId ELSE ids[d]
                         /\ call'[d] = IF d = c THEN S ELSE call[d]
    <3>1. ids' = [ids EXCEPT ![c] = nextId]
      BY <1>2 DEF Start, StartThrows
    <3> QED
      BY <1>0, <2>0, <3>1
  <2>3. pending' = pending \cup {Entry(nextId, c)} /\ timers' = timers \cup {Entry(nextId, c)}
        /\ UNCHANGED <<reply, runtime, link>>
    BY <1>2 DEF Start, StartThrows
  <2>4. CallsExact'
    <3>1. pending' = {Entry(ids'[e], e) : e \in {d \in Calls : call'[d] \in Entered}}
      <4>1. pending = {Entry(ids[e], e) : e \in {d \in Calls : call[d] \in Entered}}
        BY DEF CallsExact, Entered
      <4>2. {d \in Calls : call'[d] \in Entered} = {d \in Calls : call[d] \in Entered} \cup {c}
        BY <1>2, <2>2 DEF Entered
      <4>3. call[c] \notin Entered
        BY <1>2 DEF Entered
      <4> QED
        BY <2>2, <2>3, <4>1, <4>2, <4>3
    <3>2. \A d \in Calls : reply'[d] = IF call'[d] \in {"answered", "done"} THEN {d} ELSE {}
      BY <1>2, <2>2, <2>3 DEF CallsExact, Entered
    <3>3. \A d \in Calls : call'[d] = "threw" => ~JavaScript' /\ link' = "lost"
      BY <2>0, <2>2, <2>3 DEF CallsExact, JavaScript
    <3> QED
      BY <2>3, <3>1, <3>2, <3>3 DEF CallsExact, Entered
  <2>5. Sent' = Sent \cup {c}
    BY <2>1, <2>2 DEF Sent
  <2>6. IdsExact'
    <3>1. \A d \in Calls : ids[d] \in Nat /\ ids[d] < nextId
      BY <1>0 DEF IdsExact
    <3>2. \A d \in Calls : ids'[d] < nextId'
      BY <2>1, <2>2, <3>1
    <3>3. \A d, e \in Sent' : ids'[d] = ids'[e] => d = e
      BY <2>1, <2>2, <2>5, <3>1 DEF IdsExact, Sent
    <3>4. \A t \in timers' : t.call \in Sent' /\ t.id = ids'[t.call]
      BY <2>1, <2>2, <2>3, <2>5, EntryOf DEF IdsExact, Sent
    <3> QED
      BY <2>1, <2>2, <3>2, <3>3, <3>4 DEF IdsExact, Entered
  <2> QED
    BY <2>4, <2>6
<1>3. ASSUME NEW c \in Calls, NEW S \in {"waiting", "failed", "done"},
             UNCHANGED <<nextId, ids, pending, timers, reply, runtime, link>>,
             call' = [call EXCEPT ![c] = S],
             \/ call[c] \in {"idle", "waiting"} /\ S \in {"waiting", "failed"}
             \/ call[c] = "answered" /\ S = "done"
      PROVE  CallsExact' /\ IdsExact'
  <2>1. \A d \in Calls : call'[d] = IF d = c THEN S ELSE call[d]
    BY <1>0, <1>3
  <2>2. {d \in Calls : call'[d] \in Entered} = {d \in Calls : call[d] \in Entered}
    BY <1>3, <2>1 DEF Entered
  <2>3. CallsExact'
    BY <1>3, <2>1, <2>2 DEF CallsExact, Entered, JavaScript
  <2>4. IdsExact'
    BY <1>3, <2>1 DEF IdsExact, Sent
  <2> QED
    BY <2>3, <2>4
<1>4. ASSUME NEW c \in Sent, call[c] \in Entered, NEW S \in {"answered", "failed"},
             UNCHANGED <<nextId, ids, runtime, link>>, call' = [call EXCEPT ![c] = S],
             pending' = pending \ {Entry(ids[c], c)},
             timers' = timers \/ timers' = timers \ {Entry(ids[c], c)},
             reply' = IF S = "answered" THEN [reply EXCEPT ![c] = {c}] ELSE reply
      PROVE  CallsExact' /\ IdsExact'
  <2>1. c \in Calls /\ \A d \in Calls : /\ call'[d] = IF d = c THEN S ELSE call[d]
           /\ reply'[d] = IF d = c /\ S = "answered" THEN {c} ELSE reply[d]
    BY <1>0, <1>4 DEF Sent
  <2>2. pending' = {Entry(ids'[d], d) : d \in {e \in Calls : call'[e] \in Entered}}
    <3>1. S \notin Entered /\ S \in CallStates
      BY <1>4 DEF Entered, CallStates
    <3> QED
      BY <1>0, <1>4, <2>1, <3>1, DropEntry
  <2>3. pending' \subseteq timers'
    BY <1>4 DEF CallsExact
  <2>4. \A d \in Calls : call'[d] = "threw" => ~JavaScript' /\ link' = "lost"
    BY <1>4, <2>1 DEF CallsExact, JavaScript
  <2>5. \A d \in Calls : reply'[d] = IF call'[d] \in {"answered", "done"} THEN {d} ELSE {}
    BY <1>4, <2>1 DEF CallsExact, Entered
  <2>6. IdsExact'
    BY <1>4, <2>1 DEF IdsExact, Sent
  <2> QED
    BY <2>2, <2>3, <2>4, <2>5, <2>6 DEF CallsExact, Entered
<1>5. ASSUME NEW t \in timers, Timeout(t) \/ TimeoutThread(t) PROVE CallsExact' /\ IdsExact'
  <2> DEFINE c == t.call
  <2>1. c \in Sent /\ c \in Calls /\ t.id = ids[c] /\ t = Entry(ids[c], c)
    BY DEF IdsExact, Sent, TypeOK, Entries, Entry
  <2>2. timers' = timers \ {t} /\ UNCHANGED <<nextId, ids, reply, runtime, link>>
        /\ pending' = {p \in pending : p.id # t.id}
    BY <1>5 DEF Timeout, TimeoutThread
  <2>3. {p \in pending : p.id = t.id} = IF call[c] \in Entered THEN {t} ELSE {}
    BY <2>1, IdFinds
  <2>4. call' = IF call[c] \in Entered THEN [call EXCEPT ![c] = "failed"] ELSE call
    <3>1. CASE Timeout(t)
      <4>1. call[c] # "threw" BY <2>1, <3>1 DEF Timeout, CallsExact
      <4> QED BY <3>1, <4>1 DEF Timeout, Entered
    <3>2. CASE TimeoutThread(t)
      <4>1. (\E p \in pending : p.id = t.id) <=> call[c] \in Entered BY <2>3
      <4> QED BY <3>2, <4>1 DEF TimeoutThread
    <3> QED BY <1>5, <3>1, <3>2
  <2>5. pending' = pending \ {p \in pending : p.id = t.id}
    BY <2>2
  <2>6. CASE call[c] \in Entered
    <3>1. pending' = pending \ {Entry(ids[c], c)} /\ timers' = timers \ {Entry(ids[c], c)}
      BY <2>1, <2>2, <2>3, <2>5, <2>6
    <3> QED
      BY <1>4, <2>1, <2>2, <2>4, <2>6, <3>1
  <2>7. CASE call[c] \notin Entered
    <3>1. pending' = pending /\ call' = call /\ t \notin pending
      BY <2>3, <2>4, <2>5, <2>7
    <3>2. pending' \subseteq timers' /\ UNCHANGED <<nextId, ids, reply, runtime, link>> /\ timers' \subseteq timers
      BY <2>2, <3>1 DEF CallsExact
    <3>3. CallsExact'
      BY <3>1, <3>2 DEF CallsExact, JavaScript
    <3>4. IdsExact'
      BY <3>1, <3>2 DEF IdsExact, Sent
    <3> QED
      BY <3>3, <3>4
  <2> QED
    BY <2>6, <2>7
<1>6. CASE HandleMessage
  <2> DEFINE f == Head(toClient)
  <2>1. UNCHANGED <<nextId, ids, runtime, link>> /\ toClient # <<>> /\ link = "open"
        /\ (ReceivePush(f) \/ ReceiveReply(f) \/ ReceiveReplyThread(f))
    BY <1>6 DEF HandleMessage
  <2>2. CASE ReceivePush(f)
    BY <1>1, <2>1, <2>2 DEF ReceivePush, clientVars
  <2>3. CASE ReceiveReply(f) \/ ReceiveReplyThread(f)
    <3> HIDE DEF f
    <3>1. f = Head(toClient)
      BY DEF f
    <3>2. CASE UNCHANGED <<call, pending, timers, reply>>
      BY <1>1, <2>1, <3>2 DEF clientVars
    <3>3. CASE ~UNCHANGED <<call, pending, timers, reply>>
      <4>1. f.call \in Sent /\ call[f.call] \in Entered /\ UNCHANGED <<nextId, ids, runtime, link>>
        BY <2>1, <2>3, <3>1, <3>3, SettleEffect DEF Entered
      <4>2. /\ pending' = pending \ {Entry(ids[f.call], f.call)}
            /\ timers' = timers \/ timers' = timers \ {Entry(ids[f.call], f.call)}
        BY <2>3, <2>1, <3>1, <3>3, SettleEffect
      <4>3. \/ /\ call' = [call EXCEPT ![f.call] = "answered"]
               /\ reply' = [reply EXCEPT ![f.call] = {f.call}]
            \/ call' = [call EXCEPT ![f.call] = "failed"] /\ reply' = reply
        BY <2>3, <2>1, <3>1, <3>3, SettleEffect
      <4>4. CASE call' = [call EXCEPT ![f.call] = "answered"] /\ reply' = [reply EXCEPT ![f.call] = {f.call}]
        BY <1>4, <4>1, <4>2, <4>4
      <4>5. CASE call' = [call EXCEPT ![f.call] = "failed"] /\ reply' = reply
        BY <1>4, <4>1, <4>2, <4>5
      <4> QED
        BY <4>3, <4>4, <4>5
    <3> QED
      BY <3>2, <3>3
  <2> QED
    BY <2>1, <2>2, <2>3
<1>7. ASSUME NEW error \in BOOLEAN, Lose(error) PROVE CallsExact' /\ IdsExact'
  <2>1. /\ UNCHANGED <<nextId, ids, timers, reply>>
        /\ pending' = IF error THEN {} ELSE pending
        /\ \A d \in Calls : call'[d] = IF error /\ call[d] = "pending" THEN "failed" ELSE call[d]
        /\ link = "open"
    BY <1>7 DEF Lose
  <2>2. CallsExact'
    <3>1. \A d \in Calls : call[d] # "threw" /\ call'[d] # "threw"
      BY <2>1 DEF CallsExact
    <3> QED
      BY <2>1, <3>1 DEF CallsExact
  <2>3. IdsExact'
    BY <2>1 DEF IdsExact, Sent
  <2> QED
    BY <2>2, <2>3
<1>8. ASSUME NEW c \in Calls, Call(c) \/ Refuse(c) \/ Resume(c) PROVE CallsExact' /\ IdsExact'
  BY <1>3, <1>8 DEF Call, Refuse, Resume
<1>9. ASSUME NEW k \in Long, Close(k) \/ CloseThrows(k) \/ Expire(k) \/ HandlerPush(k)
                                 \/ HandlerEnds(k)
      PROVE  UNCHANGED <<clientVars, runtime, link>>
  BY <1>9 DEF Close, CloseThrows, Expire, HandlerPush, HandlerEnds
<1>10. ASSUME Heartbeat \/ Connected \/ ConnectFails \/ Serve \/ Forward
       PROVE  UNCHANGED <<clientVars, runtime>> /\ (link = "lost" => link' = "lost")
  BY <1>10 DEF Heartbeat, Connected, ConnectFails, Serve, Forward
<1> QED
  BY <1>1, <1>2, <1>5, <1>6, <1>7, <1>8, <1>9, <1>10
     DEF Next, UserNext, RuntimeNext, LinkNext, ServerNext, Issue, CallThread

-----------------------------------------------------------------------------
(* Frames that are taken from the front of a queue or put at its end.      *)
LEMMA TailOf ==
  ASSUME NEW S, NEW q \in Seq(S), q # <<>>
  PROVE  /\ 1 \in DOMAIN q /\ Head(q) = q[1]
         /\ \A i \in DOMAIN Tail(q) : i + 1 \in DOMAIN q /\ Tail(q)[i] = q[i + 1] /\ i \in Nat
OBVIOUS

LEMMA AppendOf ==
  ASSUME NEW S, NEW q \in Seq(S), NEW e \in S
  PROVE  \A i \in DOMAIN Append(q, e) :
           \/ i \in DOMAIN q /\ Append(q, e)[i] = q[i]
           \/ i = Len(q) + 1 /\ Append(q, e)[i] = e
OBVIOUS

LEMMA ConcatOf ==
  ASSUME NEW S, NEW q \in Seq(S), NEW r \in Seq(S)
  PROVE  \A i \in DOMAIN (q \o r) :
           \/ i \in DOMAIN q /\ (q \o r)[i] = q[i]
           \/ \E j \in DOMAIN r : (q \o r)[i] = r[j]
<1>1. \A i \in DOMAIN (q \o r) : i \in 1 .. Len(q) \/ i - Len(q) \in 1 .. Len(r)
  OBVIOUS
<1>2. \A i \in DOMAIN (q \o r) : i \in 1 .. Len(q) => (q \o r)[i] = q[i]
  OBVIOUS
<1>3. \A i \in DOMAIN (q \o r) : i - Len(q) \in 1 .. Len(r) => (q \o r)[i] = r[i - Len(q)]
  OBVIOUS
<1>4. DOMAIN q = 1 .. Len(q) /\ DOMAIN r = 1 .. Len(r)
  OBVIOUS
<1> QED
  BY <1>1, <1>2, <1>3, <1>4

(* What is sent that is no request leaves the requests exact.              *)
LEMMA SendsNoRequest ==
  ASSUME TypeOK, RequestsExact, NEW f \in ServerFrames, ~IsRequest(f), Send(f),
         UNCHANGED <<ids, handled>>
  PROVE  RequestsExact'
<1>1. CASE toServer' = toServer
  BY <1>1 DEF RequestsExact, Sent
<1>2. CASE toServer' = Append(toServer, f)
  <2>1. \A i \in DOMAIN toServer' :
          \/ i \in DOMAIN toServer /\ toServer'[i] = toServer[i]
          \/ ~IsRequest(toServer'[i])
    BY <1>2, AppendOf DEF TypeOK
  <2> QED
    BY <2>1 DEF RequestsExact, Sent
<1> QED
  BY <1>1, <1>2 DEF Send

(* A request is sent once and handled once.                                *)
LEMMA RequestsStep ==
  ASSUME IInv, Next PROVE RequestsExact'
<1> USE DEF IInv
<1>1. ASSUME UNCHANGED <<ids, handled, toServer>> PROVE RequestsExact'
  BY <1>1 DEF RequestsExact, Sent
<1>2. ASSUME NEW c \in Calls, call[c] \in {"idle", "waiting"}, Start(c) \/ StartThrows(c)
      PROVE  RequestsExact'
  <2>1. nextId \in Nat /\ nextId # 0 /\ ids[c] = 0 /\ ids \in [Calls -> Nat]
    BY <1>2 DEF IdsExact, TypeOK
  <2>2. /\ handled' = handled /\ ids' = [ids EXCEPT ![c] = nextId]
        /\ Send(Request(nextId, c)) \/ toServer' = toServer
    BY <1>2 DEF Start, StartThrows, WriteThrows, serverVars
  <2>3. \A d \in Calls : ids'[d] = IF d = c THEN nextId ELSE ids[d]
    BY <2>1, <2>2
  <2>4. Sent' = Sent \cup {c} /\ c \notin Sent
    BY <2>1, <2>3 DEF Sent
  <2>5. /\ IsRequest(Request(nextId, c)) /\ Request(nextId, c).call = c
        /\ Request(nextId, c).id = nextId /\ Request(nextId, c) \in ServerFrames
    BY <2>1, FrameTypes DEF IsRequest, Request
  <2>6. handled' \subseteq Sent' /\ c \notin handled
    BY <2>2, <2>4 DEF RequestsExact
  <2>7. CASE toServer' = toServer
    BY <2>2, <2>3, <2>4, <2>6, <2>7 DEF RequestsExact
  <2>8. CASE toServer' = Append(toServer, Request(nextId, c))
    <3>1. \A i \in DOMAIN toServer' :
            \/ i \in DOMAIN toServer /\ toServer'[i] = toServer[i]
            \/ i = Len(toServer) + 1 /\ toServer'[i] = Request(nextId, c)
      BY <2>5, <2>8, AppendOf DEF TypeOK
    <3>2. \A i \in DOMAIN toServer : IsRequest(toServer[i]) =>
            toServer[i].call \in Sent \ handled /\ toServer[i].id = ids[toServer[i].call]
      BY DEF RequestsExact
    <3>3. \A i \in DOMAIN toServer' : IsRequest(toServer'[i]) =>
            toServer'[i].call \in Sent' \ handled' /\ toServer'[i].id = ids'[toServer'[i].call]
      <4> SUFFICES ASSUME NEW i \in DOMAIN toServer', IsRequest(toServer'[i])
                   PROVE  toServer'[i].call \in Sent' \ handled' /\ toServer'[i].id = ids'[toServer'[i].call]
        OBVIOUS
      <4>1. CASE i \in DOMAIN toServer /\ toServer'[i] = toServer[i]
        <5>1. toServer[i].call \in Sent \ handled /\ toServer[i].id = ids[toServer[i].call]
          BY <3>2, <4>1
        <5> QED
          BY <2>2, <2>3, <2>4, <4>1, <5>1 DEF Sent
      <4>2. CASE toServer'[i] = Request(nextId, c)
        BY <2>2, <2>3, <2>4, <2>5, <2>6, <4>2 DEF Sent
      <4> QED
        BY <3>1, <4>1, <4>2
    <3>4. \A i, j \in DOMAIN toServer' :
            IsRequest(toServer'[i]) /\ IsRequest(toServer'[j]) /\ toServer'[i].call = toServer'[j].call
              => i = j
      BY <2>4, <2>5, <3>1, <3>2 DEF RequestsExact
    <3> QED
      BY <2>6, <3>3, <3>4 DEF RequestsExact, IsRequest
  <2> QED
    BY <2>2, <2>7, <2>8 DEF Send
<1>3. CASE Serve
  <2> DEFINE f == Head(toServer)
  <2>1. toServer # <<>> /\ toServer' = Tail(toServer) /\ ids' = ids
        /\ ((\E ok \in BOOLEAN : ServeRequest(f, ok)) \/ ServeClose(f) \/ ServeBeat(f))
    BY <1>3 DEF Serve, clientVars
  <2>2. handled' = IF IsRequest(f) THEN handled \cup {f.call} ELSE handled
    BY <2>1 DEF ServeRequest, ServeClose, ServeBeat, IsRequest
  <2>3. /\ 1 \in DOMAIN toServer /\ f = toServer[1]
        /\ \A i \in DOMAIN toServer' : i + 1 \in DOMAIN toServer /\ toServer'[i] = toServer[i + 1] /\ i \in Nat
        /\ \A i \in DOMAIN toServer' : i # 0
    BY <2>1, TailOf DEF TypeOK
  <2> HIDE DEF f
  <2>4. handled' \subseteq Sent'
    BY <2>1, <2>2, <2>3 DEF RequestsExact, Sent
  <2>5. \A i \in DOMAIN toServer' : IsRequest(toServer'[i]) =>
          toServer'[i].call \in Sent' \ handled' /\ toServer'[i].id = ids'[toServer'[i].call]
    <3> SUFFICES ASSUME NEW i \in DOMAIN toServer', IsRequest(toServer'[i])
                 PROVE  toServer'[i].call \in Sent' \ handled' /\ toServer'[i].id = ids'[toServer'[i].call]
      OBVIOUS
    <3>1. i + 1 \in DOMAIN toServer /\ i + 1 # 1 /\ toServer'[i] = toServer[i + 1]
      BY <2>3
    <3>2. toServer[i + 1].call \in Sent \ handled /\ toServer[i + 1].id = ids[toServer[i + 1].call]
      BY <3>1 DEF RequestsExact
    <3>3. IsRequest(f) => toServer[i + 1].call # f.call
      BY <2>3, <3>1 DEF RequestsExact
    <3> QED
      BY <2>1, <2>2, <3>1, <3>2, <3>3 DEF Sent
  <2>6. \A i, j \in DOMAIN toServer' :
          IsRequest(toServer'[i]) /\ IsRequest(toServer'[j]) /\ toServer'[i].call = toServer'[j].call
            => i = j
    <3> SUFFICES ASSUME NEW i \in DOMAIN toServer', NEW j \in DOMAIN toServer',
                        IsRequest(toServer'[i]), IsRequest(toServer'[j]),
                        toServer'[i].call = toServer'[j].call
                 PROVE  i = j
      OBVIOUS
    <3>1. i + 1 = j + 1
      BY <2>3 DEF RequestsExact
    <3> QED
      BY <2>3, <3>1
  <2> QED
    BY <2>4, <2>5, <2>6 DEF RequestsExact, IsRequest
<1>4. ASSUME NEW k \in Long, Close(k) PROVE RequestsExact'
  <2>1. CloseFrame(k) \in ServerFrames /\ ~IsRequest(CloseFrame(k))
    BY FrameTypes DEF CloseFrame, IsRequest
  <2> QED
    BY <1>4, <2>1, SendsNoRequest DEF Close, clientVars, serverVars
<1>5. CASE Heartbeat
  <2>1. Beat(pushHandlers) \in ServerFrames /\ ~IsRequest(Beat(pushHandlers))
    BY FrameTypes DEF Beat, IsRequest, TypeOK
  <2> QED
    BY <1>5, <2>1, SendsNoRequest DEF Heartbeat, clientVars, serverVars
<1>6. ASSUME NEW error \in BOOLEAN, Lose(error) PROVE RequestsExact'
  <2>1. toServer' = <<>> /\ UNCHANGED <<ids, handled>>
    BY <1>6 DEF Lose
  <2>2. \A i \in DOMAIN toServer' : FALSE
    BY <2>1
  <2> QED
    BY <2>1, <2>2 DEF RequestsExact, Sent
<1>7. ASSUME NEW c \in Calls, Call(c) \/ Refuse(c) \/ Resume(c) PROVE RequestsExact'
  BY <1>1, <1>7 DEF Call, Refuse, Resume, serverVars
<1>8. ASSUME NEW t \in timers, Timeout(t) \/ TimeoutThread(t) PROVE RequestsExact'
  BY <1>1, <1>8 DEF Timeout, TimeoutThread, serverVars
<1>9. ASSUME NEW k \in Long, CloseThrows(k) \/ Expire(k) \/ HandlerPush(k) \/ HandlerEnds(k)
      PROVE  RequestsExact'
  BY <1>1, <1>9 DEF CloseThrows, WriteThrows, Expire, HandlerPush, HandlerEnds, clientVars, serverVars
<1>10. ASSUME HandleMessage \/ Connected \/ ConnectFails \/ Forward PROVE RequestsExact'
  BY <1>1, <1>10 DEF HandleMessage, Connected, ConnectFails, Forward, clientVars, serverVars
<1> QED
  BY <1>2, <1>3, <1>4, <1>5, <1>6, <1>7, <1>8, <1>9, <1>10
     DEF Next, UserNext, RuntimeNext, LinkNext, ServerNext, Issue, CallThread

-----------------------------------------------------------------------------
(* Replies are those of the server, to calls it has handled.               *)
LEMMA RepliesStep ==
  ASSUME IInv, Next PROVE RepliesExact'
<1> USE DEF IInv
<1>1. ASSUME UNCHANGED <<ids, handled, toClient>> PROVE RepliesExact'
  BY <1>1 DEF RepliesExact
<1>2. ASSUME NEW c \in Calls, call[c] \in {"idle", "waiting"}, Start(c) \/ StartThrows(c)
      PROVE  RepliesExact'
  <2>1. UNCHANGED <<handled, toClient>> /\ ids' = [ids EXCEPT ![c] = nextId]
    BY <1>2 DEF Start, StartThrows, serverVars
  <2>2. c \notin handled /\ handled \subseteq Calls
    BY <1>2 DEF IdsExact, RequestsExact, Sent
  <2>3. \A d \in handled : ids'[d] = ids[d]
    BY <2>1, <2>2 DEF TypeOK
  <2> QED
    BY <2>1, <2>3 DEF RepliesExact
<1>3. CASE HandleMessage
  <2>1. toClient # <<>> /\ toClient' = Tail(toClient) /\ UNCHANGED <<ids, handled>>
    BY <1>3 DEF HandleMessage, serverVars
  <2>2. \A i \in DOMAIN toClient' : i + 1 \in DOMAIN toClient /\ toClient'[i] = toClient[i + 1]
    BY <2>1, TailOf DEF TypeOK
  <2> QED
    BY <2>1, <2>2 DEF RepliesExact
<1>4. CASE Forward
  <2>1. UNCHANGED <<ids, handled>> /\ toClient' = Append(toClient, Head(pushes)) /\ pushes # <<>>
    BY <1>4 DEF Forward, clientVars, serverVars
  <2>2. Head(pushes) \in ClientFrames /\ Head(pushes).kind # "reply"
    <3>1. Head(pushes) \in PushFrames
      BY <2>1 DEF TypeOK
    <3> QED
      BY <3>1, FrameTypes DEF PushFrames
  <2>3. \A i \in DOMAIN toClient' :
          \/ i \in DOMAIN toClient /\ toClient'[i] = toClient[i]
          \/ toClient'[i].kind # "reply"
    BY <2>1, <2>2, AppendOf DEF TypeOK
  <2> QED
    BY <2>1, <2>3 DEF RepliesExact
<1>5. CASE Serve
  <2> DEFINE f == Head(toServer)
  <2>1. toServer # <<>> /\ ids' = ids
        /\ ((\E ok \in BOOLEAN : ServeRequest(f, ok)) \/ ServeClose(f) \/ ServeBeat(f))
    BY <1>5 DEF Serve, clientVars
  <2>2. f \in ServerFrames /\ 1 \in DOMAIN toServer /\ f = toServer[1]
    BY <2>1, TailOf DEF TypeOK
  <2> HIDE DEF f
  <2>3. ASSUME NEW ok \in BOOLEAN, ServeRequest(f, ok) PROVE RepliesExact'
    <3>1. f.id \in Nat /\ f.call \in Calls /\ f.id = ids[f.call]
      BY <2>2, <2>3, ServerFrameTypes DEF ServeRequest, RequestsExact, IsRequest
    <3>2. handled' = handled \cup {f.call} /\ toClient' = Append(toClient, Reply(f.id, f.call, ok))
      BY <2>3 DEF ServeRequest
    <3>3. /\ Reply(f.id, f.call, ok) \in ClientFrames /\ Reply(f.id, f.call, ok).call = f.call
          /\ Reply(f.id, f.call, ok).id = f.id
      BY <3>1, FrameTypes DEF Reply
    <3>4. \A i \in DOMAIN toClient' :
            \/ i \in DOMAIN toClient /\ toClient'[i] = toClient[i]
            \/ toClient'[i] = Reply(f.id, f.call, ok)
      BY <3>2, <3>3, AppendOf DEF TypeOK
    <3> QED
      BY <2>1, <3>1, <3>2, <3>3, <3>4 DEF RepliesExact
  <2>4. CASE ServeClose(f) \/ ServeBeat(f)
    BY <1>1, <2>1, <2>4 DEF ServeClose, ServeBeat
  <2> QED
    BY <2>1, <2>3, <2>4
<1>6. ASSUME NEW error \in BOOLEAN, Lose(error) PROVE RepliesExact'
  <2>1. \A i \in DOMAIN toClient' : FALSE
    BY <1>6 DEF Lose
  <2> QED
    BY <2>1 DEF RepliesExact
<1>7. ASSUME NEW c \in Calls, Call(c) \/ Refuse(c) \/ Resume(c) PROVE RepliesExact'
  BY <1>1, <1>7 DEF Call, Refuse, Resume, serverVars
<1>8. ASSUME NEW t \in timers, Timeout(t) \/ TimeoutThread(t) PROVE RepliesExact'
  BY <1>1, <1>8 DEF Timeout, TimeoutThread, serverVars
<1>9. ASSUME NEW k \in Long, Close(k) \/ CloseThrows(k) \/ Expire(k) \/ HandlerPush(k)
                                 \/ HandlerEnds(k)
      PROVE  RepliesExact'
  BY <1>1, <1>9 DEF Close, CloseThrows, Expire, HandlerPush, HandlerEnds, clientVars, serverVars
<1>10. ASSUME Connected \/ ConnectFails \/ Heartbeat PROVE RepliesExact'
  BY <1>1, <1>10 DEF Connected, ConnectFails, Heartbeat, clientVars, serverVars
<1> QED
  BY <1>2, <1>3, <1>4, <1>5, <1>6, <1>7, <1>8, <1>9, <1>10
     DEF Next, UserNext, RuntimeNext, LinkNext, ServerNext, Issue, CallThread

-----------------------------------------------------------------------------
(* A connection leaves the table for good before the client is told.       *)
LEMMA ClosesStep ==
  ASSUME IInv, Next PROVE ClosesExact'
<1> USE DEF IInv
<1>1. ASSUME UNCHANGED <<runtime, handled, toClient, pushes>>, connections' \subseteq connections,
             \A k \in Long : JavaScript /\ socket'[k] = "closed" => socket[k] = "closed"
      PROVE  ClosesExact'
  <2>1. \A f : Left(f, handled \ connections) => Left(f, handled' \ connections')
    BY <1>1 DEF Left
  <2>2. IsFiniteSet(connections')
    BY <1>1, FS_Subset DEF ClosesExact
  <2> QED
    BY <1>1, <2>1, <2>2 DEF ClosesExact, JavaScript
<1>2. CASE HandleMessage
  <2> DEFINE f == Head(toClient)
  <2>1. toClient # <<>> /\ toClient' = Tail(toClient) /\ UNCHANGED <<runtime, handled, connections, pushes>>
        /\ (ReceivePush(f) \/ ReceiveReply(f) \/ ReceiveReplyThread(f))
    BY <1>2 DEF HandleMessage, serverVars
  <2>2. /\ 1 \in DOMAIN toClient /\ f = toClient[1]
        /\ \A i \in DOMAIN toClient' : i + 1 \in DOMAIN toClient /\ toClient'[i] = toClient[i + 1]
    BY <2>1, TailOf DEF TypeOK
  <2> HIDE DEF f
  <2>3. Left(f, handled \ connections)
    BY <2>2 DEF ClosesExact
  <2>4. \A k \in Long : socket'[k] = "closed" /\ socket[k] # "closed" => k \in handled \ connections
    <3>1. CASE ReceivePush(f)
      BY <2>3, <3>1 DEF ReceivePush, OnMessage, Left, TypeOK
    <3>2. CASE ReceiveReply(f) \/ ReceiveReplyThread(f)
      BY <3>2 DEF ReceiveReply, ReceiveReplyThread, Settle
    <3> QED
      BY <2>1, <3>1, <3>2
  <2>5. \A g : Left(g, handled \ connections) => Left(g, handled' \ connections')
    BY <2>1 DEF Left
  <2> QED
    BY <2>1, <2>2, <2>4, <2>5 DEF ClosesExact, JavaScript
<1>3. CASE Forward
  <2>1. /\ pushes # <<>> /\ toClient' = Append(toClient, Head(pushes)) /\ pushes' = Tail(pushes)
        /\ UNCHANGED <<runtime, handled, connections, socket>>
    BY <1>3 DEF Forward, clientVars, serverVars, socketVars
  <2>2. /\ 1 \in DOMAIN pushes /\ Head(pushes) = pushes[1] /\ Head(pushes) \in ClientFrames
        /\ \A i \in DOMAIN pushes' : i + 1 \in DOMAIN pushes /\ pushes'[i] = pushes[i + 1]
    BY <2>1, TailOf, FrameTypes DEF TypeOK
  <2>3. \A i \in DOMAIN toClient' :
          \/ i \in DOMAIN toClient /\ toClient'[i] = toClient[i]
          \/ toClient'[i] = Head(pushes)
    BY <2>1, <2>2, AppendOf DEF TypeOK
  <2>4. \A g : Left(g, handled \ connections) => Left(g, handled' \ connections')
    BY <2>1 DEF Left
  <2> QED
    BY <2>1, <2>2, <2>3, <2>4 DEF ClosesExact, JavaScript
<1>4. CASE Serve
  <2> DEFINE f == Head(toServer)
  <2>1. /\ toServer # <<>> /\ UNCHANGED <<runtime, socket>>
        /\ (\E ok \in BOOLEAN : ServeRequest(f, ok)) \/ ServeClose(f) \/ ServeBeat(f)
    BY <1>4 DEF Serve, socketVars
  <2>2. f \in ServerFrames /\ 1 \in DOMAIN toServer /\ f = toServer[1]
    BY <2>1, TailOf DEF TypeOK
  <2> HIDE DEF f
  <2>3. ASSUME NEW ok \in BOOLEAN, ServeRequest(f, ok) PROVE ClosesExact'
    <3>1. f.id \in Nat /\ f.call \in Calls /\ f.call \notin handled
      BY <2>2, <2>3, ServerFrameTypes DEF ServeRequest, RequestsExact, IsRequest
    <3>2. /\ handled' = handled \cup {f.call} /\ pushes' = pushes
          /\ toClient' = Append(toClient, Reply(f.id, f.call, ok))
          /\ connections' \subseteq connections \cup {f.call}
      BY <2>3 DEF ServeRequest
    <3>3. Reply(f.id, f.call, ok) \in ClientFrames /\ Left(Reply(f.id, f.call, ok), handled' \ connections')
      BY <3>1, FrameTypes DEF Reply, Left
    <3>4. \A i \in DOMAIN toClient' :
            \/ i \in DOMAIN toClient /\ toClient'[i] = toClient[i]
            \/ toClient'[i] = Reply(f.id, f.call, ok)
      BY <3>2, <3>3, AppendOf DEF TypeOK
    <3>5. \A g : Left(g, handled \ connections) => Left(g, handled' \ connections')
      BY <3>1, <3>2 DEF Left
    <3>6. IsFiniteSet(connections')
      BY <3>2, FS_Subset, FS_AddElement DEF ClosesExact
    <3>7. \A i \in DOMAIN toClient' : Left(toClient'[i], handled' \ connections')
      BY <3>3, <3>4, <3>5 DEF ClosesExact
    <3> QED
      BY <2>1, <3>1, <3>2, <3>5, <3>6, <3>7 DEF ClosesExact, JavaScript
  <2>4. ASSUME UNCHANGED <<handled, toClient>>, connections' \subseteq connections,
               NEW s \in Seq(PushFrames), pushes' = pushes \o s,
               \A i \in DOMAIN s : \E k \in connections \ connections' : s[i] = Push(k, 0)
        PROVE  ClosesExact'
    <3>1. \A i \in DOMAIN pushes' :
            \/ i \in DOMAIN pushes /\ pushes'[i] = pushes[i]
            \/ \E j \in DOMAIN s : pushes'[i] = s[j]
      BY <2>4, ConcatOf DEF TypeOK
    <3>2. \A g : Left(g, handled \ connections) => Left(g, handled' \ connections')
      BY <2>4 DEF Left
    <3>3. \A k \in connections \ connections' : Left(Push(k, 0), handled' \ connections')
      BY <2>4 DEF Left, Push, ClosesExact
    <3>4. \A i \in DOMAIN pushes' : Left(pushes'[i], handled' \ connections')
      <4> SUFFICES ASSUME NEW i \in DOMAIN pushes'
                   PROVE  Left(pushes'[i], handled' \ connections')
        OBVIOUS
      <4>1. CASE i \in DOMAIN pushes /\ pushes'[i] = pushes[i]
        BY <3>2, <4>1 DEF ClosesExact
      <4>2. ASSUME NEW j \in DOMAIN s, pushes'[i] = s[j]
            PROVE  Left(pushes'[i], handled' \ connections')
        <5>1. PICK k \in connections \ connections' : s[j] = Push(k, 0)
          BY <2>4
        <5> QED
          BY <3>3, <4>2, <5>1
      <4> QED
        BY <3>1, <4>1, <4>2
    <3>5. IsFiniteSet(connections')
      BY <2>4, FS_Subset DEF ClosesExact
    <3> QED
      BY <2>1, <2>4, <3>2, <3>4, <3>5 DEF ClosesExact, JavaScript
  <2>5. CASE ServeClose(f)
    <3>1. f.conn \in Long /\ connections' = connections \ {f.conn} /\ UNCHANGED <<handled, toClient>>
      BY <2>2, <2>5, ServerFrameTypes DEF ServeClose
    <3>2. CASE f.conn \in connections
      <4>1. <<Push(f.conn, 0)>> \in Seq(PushFrames) /\ pushes' = pushes \o <<Push(f.conn, 0)>>
        <5>1. Push(f.conn, 0) \in PushFrames /\ pushes' = Append(pushes, Push(f.conn, 0))
          BY <2>5, <3>1, <3>2, FrameTypes DEF ServeClose
        <5> QED
          BY <5>1 DEF TypeOK
      <4>2. \A i \in DOMAIN <<Push(f.conn, 0)>> : <<Push(f.conn, 0)>>[i] = Push(f.conn, 0)
        OBVIOUS
      <4> QED
        BY <2>4, <3>1, <3>2, <4>1, <4>2
    <3>3. CASE f.conn \notin connections
      BY <1>1, <2>1, <2>5, <3>1, <3>3 DEF ServeClose
    <3> QED
      BY <3>2, <3>3
  <2>6. CASE ServeBeat(f)
    <3>1. connections' = connections \cap f.conns /\ UNCHANGED <<handled, toClient>>
      BY <2>6 DEF ServeBeat
    <3>2. PICK s \in ClosesOf(connections \ f.conns) : pushes' = pushes \o s
      BY <2>6 DEF ServeBeat
    <3>3. connections \ f.conns \in SUBSET Long /\ IsFiniteSet(connections \ f.conns)
      BY FS_Subset DEF TypeOK, ClosesExact
    <3>4. s \in Seq(PushFrames) /\ \A i \in DOMAIN s : \E k \in connections \ f.conns : s[i] = Push(k, 0)
      BY <3>3, ClosesType
    <3> QED
      BY <2>4, <3>1, <3>2, <3>4
  <2> QED
    BY <2>1, <2>3, <2>5, <2>6
<1>5. ASSUME NEW k \in Long, HandlerPush(k) PROVE ClosesExact'
  <2>1. /\ pushes' = Append(pushes, Push(k, pushed[k] + 1))
        /\ UNCHANGED <<runtime, socket, handled, connections, toClient>>
    BY <1>5 DEF HandlerPush, socketVars
  <2>2. pushed[k] + 1 \in Nat /\ pushed[k] + 1 # 0
    BY ClientAssumption DEF TypeOK
  <2>3. Push(k, pushed[k] + 1) \in PushFrames /\ Left(Push(k, pushed[k] + 1), handled' \ connections')
    <3>1. Push(k, pushed[k] + 1) \in PushFrames
      BY <2>2, FrameTypes
    <3> QED
      BY <2>2, <3>1 DEF Left, Push
  <2>4. \A i \in DOMAIN pushes' :
          \/ i \in DOMAIN pushes /\ pushes'[i] = pushes[i]
          \/ pushes'[i] = Push(k, pushed[k] + 1)
    BY <2>1, <2>3, AppendOf DEF TypeOK
  <2>5. \A g : Left(g, handled \ connections) => Left(g, handled' \ connections')
    BY <2>1 DEF Left
  <2> QED
    BY <2>1, <2>3, <2>4, <2>5 DEF ClosesExact, JavaScript
<1>6. ASSUME NEW error \in BOOLEAN, Lose(error) PROVE ClosesExact'
  <2>1. /\ toClient' = <<>> /\ pushes' = <<>> /\ connections' = {}
        /\ UNCHANGED <<runtime, handled, socket>>
    BY <1>6 DEF Lose, socketVars
  <2>2. (\A i \in DOMAIN toClient' : FALSE) /\ (\A i \in DOMAIN pushes' : FALSE)
    BY <2>1
  <2> QED
    BY <2>1, <2>2, FS_EmptySet DEF ClosesExact, JavaScript
<1>7. ASSUME NEW c \in Calls, Call(c) \/ Refuse(c) \/ Start(c) \/ StartThrows(c) PROVE ClosesExact'
  BY <1>1, <1>7 DEF Call, Refuse, Start, StartThrows, serverVars, socketVars
<1>8. ASSUME NEW c \in Calls, Resume(c) PROVE ClosesExact'
  BY <1>1, <1>8 DEF Resume, serverVars, TypeOK
<1>9. ASSUME NEW t \in timers, Timeout(t) \/ TimeoutThread(t) PROVE ClosesExact'
  BY <1>1, <1>9 DEF Timeout, TimeoutThread, serverVars, socketVars
<1>10. ASSUME NEW k \in Long, Close(k) \/ CloseThrows(k) \/ Expire(k) \/ HandlerEnds(k)
       PROVE  ClosesExact'
  BY <1>1, <1>10 DEF Close, CloseThrows, WriteThrows, Expire, HandlerEnds, serverVars, socketVars, TypeOK
<1>11. ASSUME Connected \/ ConnectFails \/ Heartbeat PROVE ClosesExact'
  BY <1>1, <1>11 DEF Connected, ConnectFails, Heartbeat, serverVars, socketVars
<1> QED
  BY <1>2, <1>3, <1>4, <1>5, <1>6, <1>7, <1>8, <1>9, <1>10, <1>11
     DEF Next, UserNext, RuntimeNext, LinkNext, ServerNext, Issue, CallThread

-----------------------------------------------------------------------------
LEMMA InitInv ==
  ASSUME Init PROVE IInv
<1>1. TypeOK
  BY ClientAssumption DEF Init, TypeOK
<1>2. CallsExact /\ IdsExact /\ RequestsExact /\ RepliesExact
  BY DEF Init, CallsExact, IdsExact, RequestsExact, RepliesExact, Sent
<1>3. ClosesExact
  BY FS_EmptySet DEF Init, ClosesExact, Left
<1> QED
  BY <1>1, <1>2, <1>3 DEF IInv

LEMMA StutterInv ==
  ASSUME IInv, UNCHANGED vars PROVE IInv'
<1>1. TypeOK' /\ CallsExact' /\ IdsExact'
  BY DEF IInv, TypeOK, CallsExact, IdsExact, Sent, JavaScript, vars, clientVars, socketVars, serverVars
<1>2. RequestsExact' /\ RepliesExact' /\ ClosesExact'
  BY DEF IInv, RequestsExact, RepliesExact, ClosesExact, Sent, IsRequest, Left, JavaScript,
         vars, clientVars, socketVars, serverVars
<1> QED
  BY <1>1, <1>2 DEF IInv

(* The invariant of calls, frames and closes holds in every behaviour of   *)
(* the client and the server (ts.rs:2729-2775, tcp.rs:154-494).            *)
THEOREM Inductive == Spec => []IInv
<1>1. Init => IInv
  BY InitInv
<1>2. IInv /\ [Next]_vars => IInv'
  <2> SUFFICES ASSUME IInv, [Next]_vars PROVE IInv'
    OBVIOUS
  <2>1. CASE Next
    <3>1. TypeOK' /\ CallsExact' /\ IdsExact'
      BY <2>1, TypeStep, CallsStep DEF IInv
    <3> QED
      BY <2>1, <3>1, RequestsStep, RepliesStep, ClosesStep DEF IInv
  <2> QED
    BY <2>1, StutterInv
<1> QED
  BY <1>1, <1>2, PTL DEF Spec

(* Every variable keeps its type; a Socket is closed and a handler pushes  *)
(* no more often than the bounds say (ts.rs:2153-2318).                    *)
THEOREM TypeCorrect == Spec => []TypeOK
<1>1. IInv => TypeOK
  BY DEF IInv
<1> QED
  BY <1>1, Inductive, PTL

(* An entry is that of a call that waits, under its own id and with its    *)
(* timer; a call that has timed out or that a reply has failed leaves none *)
(* that a late reply could find, whatever ids and timers do, and one of    *)
(* which the write threw leaves its entry only where no reply comes any    *)
(* more (ts.rs:2740-2775, 2593-2631, kt.rs:2330-2372, cs.rs:2105-2160).    *)
THEOREM CallsAreExact == Spec => []CallsExact
<1>1. IInv => CallsExact
  BY DEF IInv
<1> QED
  BY <1>1, Inductive, PTL

(* When close() of a JavaScript Socket has returned, the server's table has *)
(* no entry for it (ts.rs:193-236, ws.rs:163-225).                         *)
THEOREM ClosedMeansGone == Spec => []ClosedAtServer
<1>1. IInv => ClosedAtServer
  BY DEF IInv, ClosesExact, ClosedAtServer
<1> QED
  BY <1>1, Inductive, PTL

-----------------------------------------------------------------------------
(* How a step of the client looks through the contract.                    *)
LEMMA OutcomeOf ==
  \A c \in Calls :
    /\ call[c] = "idle" => Outcome(c) = "unmade"
    /\ call[c] \in {"waiting", "pending"} => Outcome(c) = "open"
    /\ call[c] \in {"answered", "done"} => Outcome(c) = "answered"
    /\ call[c] \in {"threw", "failed"} => Outcome(c) = "failed"
BY DEF Outcome

LEMMA OutcomeNext ==
  \A c \in Calls :
    /\ call'[c] = "idle" => Outcome(c)' = "unmade"
    /\ call'[c] \in {"waiting", "pending"} => Outcome(c)' = "open"
    /\ call'[c] \in {"answered", "done"} => Outcome(c)' = "answered"
    /\ call'[c] \in {"threw", "failed"} => Outcome(c)' = "failed"
BY DEF Outcome

(* Every step keeps the contract of calls.                                 *)
LEMMA ContractStep ==
  ASSUME IInv, Next PROVE [Contract!ContractNext]_(Contract!contractVars)
<1> USE DEF IInv
<1>0. call \in [Calls -> CallStates] /\ reply \in [Calls -> SUBSET Calls]
  BY DEF TypeOK, CallStates
<1>1. ASSUME NEW c \in Calls, NEW S \in CallStates, call' = [call EXCEPT ![c] = S]
      PROVE  /\ \A d \in Calls : d # c => Outcome(d)' = Outcome(d)
             /\ [d \in Calls |-> Outcome(d)'] = [[d \in Calls |-> Outcome(d)] EXCEPT ![c] = Outcome(c)']
  <2>1. \A d \in Calls : d # c => Outcome(d)' = Outcome(d)
    BY <1>0, <1>1 DEF Outcome
  <2> QED
    BY <2>1
<1>2. ASSUME UNCHANGED <<reply, handled>>, \A d \in Calls : Outcome(d)' = Outcome(d)
      PROVE  UNCHANGED Contract!contractVars
  BY <1>2 DEF Contract!contractVars
<1>3. ASSUME UNCHANGED <<call, reply, handled>> PROVE UNCHANGED Contract!contractVars
  BY <1>2, <1>3 DEF Outcome
<1>4. ASSUME NEW c \in Calls, call[c] = "idle", UNCHANGED <<reply, handled>>,
             NEW S \in {"waiting", "pending", "threw"}, call' = [call EXCEPT ![c] = S]
      PROVE  Contract!ContractNext
  <2>1. Outcome(c) = "unmade" /\ Outcome(c)' \in {"open", "failed"}
    BY <1>0, <1>4, OutcomeOf, OutcomeNext
  <2>2. Contract!Make(c)
    BY <1>1, <1>4, <2>1 DEF Contract!Make, CallStates
  <2> QED
    BY <2>2 DEF Contract!ContractNext
<1>5. ASSUME NEW C \in SUBSET Calls, UNCHANGED <<reply, handled>>,
             \A c \in C : call[c] \in {"waiting", "pending"},
             \A c \in Calls : call'[c] = IF c \in C THEN "failed" ELSE call[c]
      PROVE  Contract!ContractNext
  <2>1. \A c \in C : Outcome(c) = "open"
    BY <1>5, OutcomeOf
  <2>2. \A c \in Calls : Outcome(c)' = IF c \in C THEN "failed" ELSE Outcome(c)
    <3>1. \A c \in C : Outcome(c)' = "failed"
      BY <1>5, OutcomeNext
    <3>2. \A c \in Calls \ C : Outcome(c)' = Outcome(c)
      BY <1>5 DEF Outcome
    <3> QED
      BY <3>1, <3>2
  <2>3. Contract!Fail(C)
    BY <1>5, <2>1, <2>2 DEF Contract!Fail
  <2> QED
    BY <2>3 DEF Contract!ContractNext
<1>6. ASSUME NEW c \in Calls, call[c] \in {"waiting", "pending"}, UNCHANGED <<reply, handled>>,
             call' = [call EXCEPT ![c] = "failed"]
      PROVE  Contract!ContractNext
  <2>1. \A d \in Calls : call'[d] = IF d \in {c} THEN "failed" ELSE call[d]
    BY <1>0, <1>6
  <2> QED
    BY <1>5, <1>6, <2>1
<1>7. ASSUME NEW c \in Calls, call[c] = "waiting", UNCHANGED <<reply, handled>>,
             call' = [call EXCEPT ![c] = "pending"]
      PROVE  UNCHANGED Contract!contractVars
  <2>1. Outcome(c) = "open" /\ Outcome(c)' = "open"
    BY <1>0, <1>7, OutcomeOf, OutcomeNext
  <2> QED
    BY <1>1, <1>2, <1>7, <2>1 DEF CallStates
<1>8. ASSUME NEW c \in Calls, call[c] = "pending", c \in handled, handled' = handled,
              call' = [call EXCEPT ![c] = "answered"], reply' = [reply EXCEPT ![c] = {c}]
       PROVE  Contract!ContractNext
  <2>1. Outcome(c) = "open" /\ Outcome(c)' = "answered"
    BY <1>0, <1>8, OutcomeOf, OutcomeNext
  <2>2. Contract!Answer(c)
    BY <1>1, <1>8, <2>1 DEF Contract!Answer, CallStates
  <2> QED
    BY <2>2 DEF Contract!ContractNext
<1>9. ASSUME NEW c \in Calls, Issue(c) \/ CallThread(c) PROVE [Contract!ContractNext]_(Contract!contractVars)
  BY <1>4, <1>7, <1>9 DEF Issue, CallThread, Start, StartThrows, serverVars
<1>10. ASSUME NEW c \in Calls, Call(c) \/ Refuse(c) PROVE Contract!ContractNext
  BY <1>4, <1>6, <1>10 DEF Call, Refuse, serverVars
<1>11. ASSUME NEW c \in Calls, Resume(c) PROVE UNCHANGED Contract!contractVars
  <2>1. call[c] = "answered" /\ call' = [call EXCEPT ![c] = "done"] /\ UNCHANGED <<reply, handled>>
    BY <1>11 DEF Resume, serverVars
  <2>2. Outcome(c) = "answered" /\ Outcome(c)' = "answered"
    BY <1>0, <2>1, OutcomeOf, OutcomeNext
  <2> QED
    BY <1>1, <1>2, <2>1, <2>2 DEF CallStates
<1>12. ASSUME NEW t \in timers, Timeout(t) \/ TimeoutThread(t)
       PROVE  [Contract!ContractNext]_(Contract!contractVars)
  <2>1. t.call \in Sent /\ t.call \in Calls /\ t.id = ids[t.call]
    BY DEF IdsExact, Sent
  <2>2. UNCHANGED <<reply, handled>>
    BY <1>12 DEF Timeout, TimeoutThread, serverVars
  <2>3. (\E p \in pending : p.id = t.id) => call[t.call] \in Entered
    BY <2>1, IdFinds
  <2>4. \/ call' = call
        \/ call[t.call] \in Entered /\ call' = [call EXCEPT ![t.call] = "failed"]
    BY <1>12, <2>3 DEF Timeout, TimeoutThread, Entered
  <2>5. ASSUME call[t.call] = "threw", call' = [call EXCEPT ![t.call] = "failed"]
        PROVE  UNCHANGED Contract!contractVars
    <3>1. Outcome(t.call) = "failed" /\ Outcome(t.call)' = "failed"
      BY <1>0, <2>1, <2>5, OutcomeOf, OutcomeNext
    <3> QED
      BY <1>1, <1>2, <2>1, <2>2, <2>5, <3>1 DEF CallStates
  <2> QED
    BY <1>3, <1>6, <2>1, <2>2, <2>4, <2>5 DEF Entered
<1>13. CASE HandleMessage
  <2> DEFINE f == Head(toClient)
  <2>1. toClient # <<>> /\ handled' = handled /\ link = "open"
        /\ (ReceivePush(f) \/ ReceiveReply(f) \/ ReceiveReplyThread(f))
    BY <1>13 DEF HandleMessage, serverVars
  <2>2. CASE ReceivePush(f)
    BY <1>3, <2>1, <2>2 DEF ReceivePush
  <2>3. CASE ReceiveReply(f) \/ ReceiveReplyThread(f)
    <3> HIDE DEF f
    <3>1. f = Head(toClient)
      BY DEF f
    <3>2. CASE UNCHANGED <<call, pending, timers, reply>>
      BY <1>3, <2>1, <3>2
    <3>3. CASE ~UNCHANGED <<call, pending, timers, reply>>
      <4>1. f.call \in handled /\ f.call \in Calls /\ call[f.call] = "pending"
        BY <2>1, <2>3, <3>1, <3>3, SettleEffect DEF Sent
      <4>2. \/ /\ call' = [call EXCEPT ![f.call] = "answered"]
               /\ reply' = [reply EXCEPT ![f.call] = {f.call}]
            \/ call' = [call EXCEPT ![f.call] = "failed"] /\ reply' = reply
        BY <2>1, <2>3, <3>1, <3>3, SettleEffect
      <4>3. CASE call' = [call EXCEPT ![f.call] = "answered"] /\ reply' = [reply EXCEPT ![f.call] = {f.call}]
        BY <1>8, <2>1, <4>1, <4>3
      <4>4. CASE call' = [call EXCEPT ![f.call] = "failed"] /\ reply' = reply
        BY <1>6, <2>1, <4>1, <4>4
      <4> QED
        BY <4>2, <4>3, <4>4
    <3> QED
      BY <3>2, <3>3
  <2> QED
    BY <2>1, <2>2, <2>3
<1>14. ASSUME NEW error \in BOOLEAN, Lose(error) PROVE [Contract!ContractNext]_(Contract!contractVars)
  <2>1. UNCHANGED <<reply, handled>>
        /\ \A c \in Calls : call'[c] = IF c \in {d \in Calls : error /\ call[d] = "pending"}
                                       THEN "failed" ELSE call[c]
    BY <1>14 DEF Lose
  <2> QED
    BY <1>5, <2>1
<1>15. CASE Serve
  <2> DEFINE f == Head(toServer)
  <2>1. toServer # <<>> /\ UNCHANGED <<call, reply>>
        /\ ((\E ok \in BOOLEAN : ServeRequest(f, ok)) \/ ServeClose(f) \/ ServeBeat(f))
    BY <1>15 DEF Serve, clientVars
  <2>2. f \in ServerFrames /\ 1 \in DOMAIN toServer /\ f = toServer[1]
    BY <2>1, TailOf DEF TypeOK
  <2> HIDE DEF f
  <2>3. ASSUME NEW ok \in BOOLEAN, ServeRequest(f, ok) PROVE Contract!ContractNext
    <3>1. f.call \in Sent \ handled /\ f.call \in Calls /\ handled' = handled \cup {f.call}
      BY <2>2, <2>3 DEF ServeRequest, RequestsExact, IsRequest, Sent
    <3>2. call[f.call] # "idle"
      BY <3>1 DEF IdsExact, Sent
    <3>3. Outcome(f.call) # "unmade"
      BY <1>0, <3>1, <3>2, OutcomeOf DEF CallStates
    <3>4. \A c \in Calls : Outcome(c)' = Outcome(c)
      BY <2>1 DEF Outcome
    <3>5. Contract!Handle(f.call)
      BY <2>1, <3>1, <3>3, <3>4 DEF Contract!Handle
    <3> QED
      BY <3>1, <3>5 DEF Contract!ContractNext
  <2>4. CASE ServeClose(f) \/ ServeBeat(f)
    BY <1>3, <2>1, <2>4 DEF ServeClose, ServeBeat
  <2> QED
    BY <2>1, <2>3, <2>4
<1>16. ASSUME NEW k \in Long, Close(k) \/ CloseThrows(k) \/ Expire(k) \/ HandlerPush(k)
                                  \/ HandlerEnds(k)
       PROVE  UNCHANGED Contract!contractVars
  BY <1>3, <1>16 DEF Close, CloseThrows, Expire, HandlerPush, HandlerEnds, clientVars, serverVars
<1>17. ASSUME Connected \/ ConnectFails \/ Heartbeat \/ Forward
       PROVE  UNCHANGED Contract!contractVars
  BY <1>3, <1>17 DEF Connected, ConnectFails, Heartbeat, Forward, clientVars, serverVars
<1> QED
  BY <1>9, <1>10, <1>11, <1>12, <1>13, <1>14, <1>15, <1>16, <1>17
     DEF Next, UserNext, RuntimeNext, LinkNext, ServerNext

(* Client and server keep the contract of calls: each is handled at most   *)
(* once, settled once, and answered by its own answer, with any number of  *)
(* calls, timeouts and late replies (ts.rs:2593-2775, tcp.rs:154-494).     *)
THEOREM Implements == Spec => KeepsContract
<1>1. Init => Contract!ContractInit
  BY DEF Init, Contract!ContractInit, Outcome
<1>2. IInv /\ [Next]_vars => [Contract!ContractNext]_(Contract!contractVars)
  <2>1. ASSUME UNCHANGED vars PROVE UNCHANGED Contract!contractVars
    BY <2>1 DEF vars, clientVars, serverVars, Contract!contractVars, Outcome
  <2> QED
    BY <2>1, ContractStep
<1> QED
  BY <1>1, <1>2, Inductive, PTL DEF Spec, KeepsContract, Contract!ContractSpec

-----------------------------------------------------------------------------
(* Pushes.  While the client is connected, what a Socket was given and what*)
(* is on its way is all that its handler has pushed, in order - also before*)
(* there is a Socket, because the reply that makes it comes before the     *)
(* first message, and a browser runs what awaited the reply before it      *)
(* handles the next frame.                                                 *)
Connects == runtime = "browser" /\ link \in {"connecting", "open"}

OkReply(k, f) == f.kind = "reply" /\ f.call = k /\ f.ok

(* Connection k gets, or will get, what is pushed to it.                   *)
Gets(k) == call[k] # "failed" /\ (call[k] = "done" => socket[k] # "closed")

(* A reply that opens k is on its way, before the frame j of Way.          *)
ReplyBefore(k, j) == \E i \in DOMAIN toClient : i < j /\ OkReply(k, toClient[i])

PushOf(k) ==
  /\ k \in pushHandlers <=> call[k] = "done"
  /\ socket[k] # "none" => call[k] = "done"
  /\ Gets(k) => Counts(Stream(k), pushed[k])
  /\ \A j \in DOMAIN Way : IsMessage(k, Way[j]) =>
       k \in handled /\ (call[k] = "pending" => ReplyBefore(k, j))
  /\ k \in tasks /\ call[k] = "pending" => ReplyBefore(k, Len(toClient) + 1)

PushInv == Connects => tasks \subseteq handled /\ \A k \in Long : PushOf(k)

(* Zeros may be put anywhere.                                              *)
LEMMA CountsZeros ==
  ASSUME NEW s \in Seq(Nat), NEW z \in Seq(Nat), NEW t \in Seq(Nat), NEW n \in Nat,
         \A i \in DOMAIN z : z[i] = 0
  PROVE  Counts((s \o z) \o t, n) <=> Counts(s \o t, n)
<1> DEFINE a == Len(s)  b == Len(z)  c == Len(t)
           u == (s \o z) \o t
           v == s \o t
           Up(i) == IF i <= a THEN i ELSE i + b
           Down(i) == IF i <= a THEN i ELSE i - b
<1>1. a \in Nat /\ b \in Nat /\ c \in Nat OBVIOUS
<1>2. DOMAIN u = 1 .. a + b + c /\ DOMAIN v = 1 .. a + c OBVIOUS
<1>3. \A i \in 1 .. a + b + c :
        u[i] = IF i <= a THEN s[i] ELSE IF i <= a + b THEN 0 ELSE t[i - a - b]
  <2> SUFFICES ASSUME NEW i \in 1 .. a + b + c
               PROVE  u[i] = IF i <= a THEN s[i] ELSE IF i <= a + b THEN 0 ELSE t[i - a - b]
    OBVIOUS
  <2>1. Len(s \o z) = a + b /\ s \o z \in Seq(Nat) OBVIOUS
  <2>2. u[i] = IF i <= a + b THEN (s \o z)[i] ELSE t[i - (a + b)]
    BY <2>1, ConcatProperties
  <2>3. i <= a + b => (s \o z)[i] = IF i <= a THEN s[i] ELSE z[i - a] BY ConcatProperties
  <2>4. i <= a + b /\ ~(i <= a) => i - a \in DOMAIN z OBVIOUS
  <2> QED BY <1>1, <2>2, <2>3, <2>4
<1>4. \A i \in 1 .. a + c : v[i] = IF i <= a THEN s[i] ELSE t[i - a]
  BY ConcatProperties
<1> HIDE DEF u, v, a, b, c
<1>5. \A i \in 1 .. a + c : Up(i) \in 1 .. a + b + c /\ u[Up(i)] = v[i] BY <1>1, <1>3, <1>4
<1>6. \A i \in 1 .. a + b + c : u[i] # 0 => Down(i) \in 1 .. a + c /\ v[Down(i)] = u[i]
  BY <1>1, <1>3, <1>4
<1>7. \A i, j \in 1 .. a + c : i < j => Up(i) < Up(j) BY <1>1
<1>8. \A i, j \in 1 .. a + b + c : i < j /\ u[i] # 0 /\ u[j] # 0 => Down(i) < Down(j)
  BY <1>1, <1>3
<1>9. {u[i] : i \in DOMAIN u} \ {0} = {v[i] : i \in DOMAIN v} \ {0}
  <2> HIDE DEF Up, Down
  <2> QED BY <1>2, <1>5, <1>6
<1>10. ASSUME Counts(u, n) PROVE Counts(v, n)
  <2>1. ASSUME NEW i \in DOMAIN v, NEW j \in DOMAIN v, i < j, v[i] > 0, v[j] > 0 PROVE v[i] < v[j]
    <3> HIDE DEF Up, Down
    <3>1. Up(i) \in DOMAIN u /\ Up(j) \in DOMAIN u /\ u[Up(i)] = v[i] /\ u[Up(j)] = v[j]
      BY <1>2, <1>5
    <3>2. Up(i) < Up(j) BY <1>2, <1>7, <2>1
    <3> QED BY <1>10, <2>1, <3>1, <3>2 DEF Counts
  <2> QED BY <1>9, <1>10, <2>1 DEF Counts
<1>11. ASSUME Counts(v, n) PROVE Counts(u, n)
  <2>1. ASSUME NEW i \in DOMAIN u, NEW j \in DOMAIN u, i < j, u[i] > 0, u[j] > 0 PROVE u[i] < u[j]
    <3>0. u[i] # 0 /\ u[j] # 0 BY <2>1
    <3> HIDE DEF Up, Down
    <3>1. Down(i) \in DOMAIN v /\ Down(j) \in DOMAIN v /\ v[Down(i)] = u[i] /\ v[Down(j)] = u[j]
      BY <1>2, <1>6, <3>0
    <3>2. Down(i) < Down(j) BY <1>2, <1>8, <2>1, <3>0
    <3> QED BY <1>11, <2>1, <3>1, <3>2 DEF Counts
  <2> QED BY <1>9, <1>11, <2>1 DEF Counts
<1> QED BY <1>10, <1>11 DEF u, v

(* The next number may be put at the end.                                  *)
LEMMA CountsNext ==
  ASSUME NEW s \in Seq(Nat), NEW n \in Nat, Counts(s, n)
  PROVE  Counts(Append(s, n + 1), n + 1)
<1> DEFINE t == Append(s, n + 1)
           l == Len(s)
<1>1. l \in Nat /\ DOMAIN s = 1 .. l /\ DOMAIN t = 1 .. l + 1 /\ t[l + 1] = n + 1
      /\ \A i \in 1 .. l : t[i] = s[i]
  OBVIOUS
<1>2. \A i \in DOMAIN s : s[i] \in Nat OBVIOUS
<1> HIDE DEF t, l
<1>3. {s[i] : i \in DOMAIN s} \ {0} = 1 .. n BY DEF Counts
<1>4. {t[i] : i \in DOMAIN t} \ {0} = 1 .. n + 1
  <2>1. {t[i] : i \in DOMAIN t} = {s[i] : i \in DOMAIN s} \cup {n + 1}
    <3>1. \A i \in 1 .. l + 1 : i \in 1 .. l \/ i = l + 1 BY <1>1
    <3>2. \A i \in 1 .. l : i \in 1 .. l + 1 BY <1>1
    <3>3. l + 1 \in 1 .. l + 1 BY <1>1
    <3> QED BY <1>1, <3>1, <3>2, <3>3
  <2>2. 1 .. n + 1 = (1 .. n) \cup {n + 1} OBVIOUS
  <2>3. n + 1 # 0 OBVIOUS
  <2> DEFINE A == {s[i] : i \in DOMAIN s}  B == {t[i] : i \in DOMAIN t}
  <2>4. B = A \cup {n + 1} /\ A \ {0} = 1 .. n BY <1>3, <2>1
  <2> HIDE DEF A, B
  <2>5. B \ {0} = 1 .. n + 1 BY <2>2, <2>3, <2>4
  <2> QED BY <2>5 DEF B
<1>5. ASSUME NEW i \in DOMAIN t, NEW j \in DOMAIN t, i < j, t[i] > 0, t[j] > 0 PROVE t[i] < t[j]
  <2>1. i \in 1 .. l /\ t[i] = s[i] BY <1>1, <1>5
  <2>2. CASE j \in 1 .. l BY <1>1, <1>5, <2>1, <2>2 DEF Counts
  <2>3. CASE j = l + 1
    <3>1. s[i] # 0 /\ i \in DOMAIN s BY <1>1, <1>5, <2>1
    <3>2. s[i] \in 1 .. n BY <1>3, <3>1
    <3> QED BY <1>1, <2>1, <2>3, <3>2
  <2> QED BY <1>1, <2>2, <2>3
<1>6. Counts(t, n + 1) BY <1>4, <1>5 DEF Counts
<1> QED BY <1>6 DEF t

(* What is news of a sequence of frames.                                   *)
LEMMA NewsType ==
  ASSUME NEW k, NEW q \in Seq(ClientFrames)
  PROVE  /\ News(k, q) \in Seq(Nat) /\ Len(News(k, q)) = Len(q)
         /\ \A i \in 1 .. Len(q) : News(k, q)[i] = IF IsMessage(k, q[i]) THEN q[i].n ELSE 0
<1>1. DOMAIN q = 1 .. Len(q) /\ Len(q) \in Nat OBVIOUS
<1>2. \A i \in 1 .. Len(q) : (IF IsMessage(k, q[i]) THEN q[i].n ELSE 0) \in Nat
  BY ClientFrameTypes DEF IsMessage
<1>3. News(k, q) \in [1 .. Len(q) -> Nat] BY <1>1, <1>2 DEF News
<1>4. News(k, q) \in Seq(Nat) /\ Len(News(k, q)) = Len(q) BY <1>1, <1>3
<1> QED BY <1>1, <1>4 DEF News

LEMMA NewsConcat ==
  ASSUME NEW k, NEW q \in Seq(ClientFrames), NEW r \in Seq(ClientFrames)
  PROVE  News(k, q \o r) = News(k, q) \o News(k, r)
<1>1. q \o r \in Seq(ClientFrames) BY ConcatProperties
<1>2. News(k, q) \o News(k, r) \in Seq(Nat) BY NewsType, ConcatProperties
<1>3. Len(News(k, q \o r)) = Len(News(k, q) \o News(k, r))
  <2>1. Len(News(k, q \o r)) = Len(q) + Len(r) BY <1>1, NewsType, ConcatProperties
  <2>2. /\ News(k, q) \in Seq(Nat) /\ News(k, r) \in Seq(Nat)
        /\ Len(News(k, q)) = Len(q) /\ Len(News(k, r)) = Len(r)
    BY NewsType
  <2> DEFINE a == News(k, q)  b == News(k, r)
  <2> HIDE DEF a, b
  <2>3. a \in Seq(Nat) /\ b \in Seq(Nat) BY <2>2 DEF a, b
  <2>4. Len(a \o b) = Len(a) + Len(b) BY <2>3
  <2> QED BY <2>1, <2>2, <2>4 DEF a, b
<1>4. ASSUME NEW i \in 1 .. Len(q \o r)
      PROVE  News(k, q \o r)[i] = (News(k, q) \o News(k, r))[i]
  <2>0. Len(q) \in Nat /\ Len(r) \in Nat /\ Len(q \o r) = Len(q) + Len(r) OBVIOUS
  <2>1. (q \o r)[i] = IF i <= Len(q) THEN q[i] ELSE r[i - Len(q)] BY <2>0, ConcatProperties
  <2>2. (News(k, q) \o News(k, r))[i]
          = IF i <= Len(q) THEN News(k, q)[i] ELSE News(k, r)[i - Len(q)]
    BY <2>0, NewsType, ConcatProperties
  <2>3. News(k, q \o r)[i] = IF IsMessage(k, (q \o r)[i]) THEN (q \o r)[i].n ELSE 0
    BY <1>1, NewsType
  <2>4. CASE i <= Len(q)
    <3>1. i \in 1 .. Len(q) BY <2>0, <2>4
    <3> QED BY <2>1, <2>2, <2>3, <2>4, <3>1, NewsType
  <2>5. CASE ~(i <= Len(q))
    <3>1. i - Len(q) \in 1 .. Len(r) BY <2>0, <2>5
    <3> QED BY <2>1, <2>2, <2>3, <2>5, <3>1, NewsType
  <2> QED BY <2>4, <2>5
<1>5. News(k, q \o r) \in Seq(Nat) /\ Len(News(k, q \o r)) = Len(q \o r) BY <1>1, NewsType
<1> QED BY <1>2, <1>3, <1>4, <1>5, SeqEqual

(* Concatenation of sequences of numbers.                                  *)
LEMMA NatConcat ==
  \A s, t, u \in Seq(Nat) : s \o t \in Seq(Nat) /\ (s \o t) \o u = s \o (t \o u)
<1> SUFFICES ASSUME NEW s \in Seq(Nat), NEW t \in Seq(Nat), NEW u \in Seq(Nat)
             PROVE  s \o t \in Seq(Nat) /\ (s \o t) \o u = s \o (t \o u)
  OBVIOUS
<1>1. s \o t \in Seq(Nat) BY ConcatProperties
<1>2. (s \o t) \o u = s \o (t \o u) BY ConcatAssociative, SMTT(60)
<1> QED BY <1>1, <1>2

LEMMA FrameConcat ==
  \A s, t, u \in Seq(ClientFrames) : (s \o t) \o u = s \o (t \o u)
BY ConcatAssociative

(* Frames that are no messages of k may come and go anywhere on the way.   *)
LEMMA StreamZeros ==
  ASSUME NEW k, NEW R \in Seq(Nat), NEW a \in Seq(ClientFrames), NEW z \in Seq(ClientFrames),
         NEW b \in Seq(ClientFrames), NEW n \in Nat, \A i \in DOMAIN z : ~IsMessage(k, z[i])
  PROVE  Counts(R \o News(k, (a \o z) \o b), n) <=> Counts(R \o News(k, a \o b), n)
<1> DEFINE A == News(k, a)  Z == News(k, z)  B == News(k, b)
<1>1. A \in Seq(Nat) /\ Z \in Seq(Nat) /\ B \in Seq(Nat) BY NewsType
<1>2. \A i \in DOMAIN Z : Z[i] = 0 BY DEF News
<1>3. a \o z \in Seq(ClientFrames) BY ConcatProperties
<1>4. News(k, (a \o z) \o b) = (A \o Z) \o B
  <2>1. News(k, a \o z) = A \o Z BY NewsConcat
  <2>2. News(k, (a \o z) \o b) = News(k, a \o z) \o B BY <1>3, NewsConcat
  <2> QED BY <2>1, <2>2
<1>5. News(k, a \o b) = A \o B BY NewsConcat
<1> HIDE DEF A, Z, B
<1>6. R \o A \in Seq(Nat) /\ A \o Z \in Seq(Nat) BY <1>1, NatConcat
<1>7. R \o ((A \o Z) \o B) = ((R \o A) \o Z) \o B
  <2>1. R \o ((A \o Z) \o B) = (R \o (A \o Z)) \o B
    <3>1. PICK y \in Seq(Nat) : y = A \o Z BY <1>6
    <3>2. R \o (y \o B) = (R \o y) \o B BY <1>1, NatConcat, ZenonT(60)
    <3> QED BY <3>1, <3>2
  <2>2. R \o (A \o Z) = (R \o A) \o Z BY <1>1, NatConcat
  <2> QED BY <2>1, <2>2
<1>8. R \o (A \o B) = (R \o A) \o B BY <1>1, NatConcat
<1>9. Counts(((R \o A) \o Z) \o B, n) <=> Counts((R \o A) \o B, n)
  BY <1>1, <1>2, <1>6, CountsZeros
<1> QED BY <1>4, <1>5, <1>7, <1>8, <1>9

(* One frame, and what it is to k.                                         *)
LEMMA NewsOne ==
  ASSUME NEW k, NEW f \in ClientFrames
  PROVE  /\ <<f>> \in Seq(ClientFrames)
         /\ News(k, <<f>>) = <<IF IsMessage(k, f) THEN f.n ELSE 0>>
         /\ (IF IsMessage(k, f) THEN f.n ELSE 0) \in Nat
<1>1. <<f>> \in Seq(ClientFrames) OBVIOUS
<1>2. News(k, <<f>>) \in Seq(Nat) /\ Len(News(k, <<f>>)) = 1
      /\ News(k, <<f>>)[1] = IF IsMessage(k, f) THEN f.n ELSE 0
  <2>1. PICK q \in Seq(ClientFrames) : q = <<f>> BY <1>1
  <2>2. Len(q) = 1 /\ q[1] = f /\ 1 \in 1 .. Len(q) BY <2>1
  <2>3. News(k, q) \in Seq(Nat) /\ Len(News(k, q)) = 1
        /\ News(k, q)[1] = IF IsMessage(k, q[1]) THEN q[1].n ELSE 0
    BY <2>2, NewsType
  <2> QED BY <2>1, <2>2, <2>3
<1> DEFINE N == News(k, <<f>>)  v == IF IsMessage(k, f) THEN f.n ELSE 0
<1> HIDE DEF N, v
<1>3. N \in Seq(Nat) /\ Len(N) = 1 /\ N[1] = v BY <1>2 DEF N, v
<1>4. v \in Nat BY <1>3
<1>5. N = <<v>>
  <2>1. <<v>> \in Seq(Nat) /\ Len(<<v>>) = 1 /\ <<v>>[1] = v BY <1>4
  <2>2. \A i \in 1 .. Len(N) : N[i] = <<v>>[i] BY <1>3, <2>1
  <2> QED BY <1>3, <2>1, <2>2, SeqEqual
<1> QED BY <1>1, <1>4, <1>5 DEF N, v

(* The handler pushes its next message.                                    *)
LEMMA StreamNext ==
  ASSUME NEW k \in Long, NEW R \in Seq(Nat), NEW w \in Seq(ClientFrames), NEW n \in Nat,
         Counts(R \o News(k, w), n)
  PROVE  Counts(R \o News(k, Append(w, Push(k, n + 1))), n + 1)
<1> DEFINE f == Push(k, n + 1)  W == News(k, w)
<1>1. f \in ClientFrames /\ IsMessage(k, f) /\ f.n = n + 1
  BY FrameTypes DEF Push, IsMessage
<1> HIDE DEF f
<1>2. W \in Seq(Nat) /\ R \o W \in Seq(Nat) BY NewsType, NatConcat
<1>3. Append(w, f) = w \o <<f>> BY <1>1
<1>4. News(k, Append(w, f)) = W \o <<n + 1>>
  <2>1. <<f>> \in Seq(ClientFrames) /\ News(k, <<f>>) = <<n + 1>> BY <1>1, NewsOne
  <2>2. News(k, w \o <<f>>) = W \o News(k, <<f>>) BY <2>1, NewsConcat
  <2> QED BY <1>3, <2>1, <2>2
<1> HIDE DEF W
<1>5. R \o (W \o <<n + 1>>) = Append(R \o W, n + 1)
  <2>1. <<n + 1>> \in Seq(Nat) OBVIOUS
  <2>2. R \o (W \o <<n + 1>>) = (R \o W) \o <<n + 1>> BY <1>2, <2>1, NatConcat
  <2>3. R \o W \in Seq(Nat) BY <1>2
  <2>4. (R \o W) \o <<n + 1>> = Append(R \o W, n + 1) BY <2>3
  <2> QED BY <2>2, <2>4
<1>6. Counts(Append(R \o W, n + 1), n + 1) BY <1>2, CountsNext DEF W
<1> QED BY <1>4, <1>5, <1>6 DEF f

(* The Socket is given what was next on the way.                           *)
LEMMA StreamGiven ==
  ASSUME NEW k, NEW R \in Seq(Nat), NEW f \in ClientFrames, NEW w \in Seq(ClientFrames)
  PROVE  R \o News(k, <<f>> \o w) = Append(R, IF IsMessage(k, f) THEN f.n ELSE 0) \o News(k, w)
<1> DEFINE v == IF IsMessage(k, f) THEN f.n ELSE 0  W == News(k, w)
<1>1. v \in Nat /\ News(k, <<f>> \o w) = <<v>> \o W
  <2>1. v \in Nat /\ <<f>> \in Seq(ClientFrames) /\ News(k, <<f>>) = <<v>> BY NewsOne
  <2>2. News(k, <<f>> \o w) = News(k, <<f>>) \o W BY <2>1, NewsConcat
  <2> QED BY <2>1, <2>2
<1>2. W \in Seq(Nat) BY NewsType
<1> HIDE DEF v, W
<1>3. <<v>> \in Seq(Nat) /\ Append(R, v) = R \o <<v>> BY <1>1
<1>4. R \o (<<v>> \o W) = (R \o <<v>>) \o W BY <1>2, <1>3, NatConcat, SMTT(60)
<1> QED BY <1>1, <1>3, <1>4 DEF v, W

(* The queues on both sides of the server's loop, put together.            *)
LEMMA QueueParts ==
  ASSUME NEW S, NEW q \in Seq(S), NEW r \in Seq(S)
  PROVE  /\ q # <<>> => q \o r = <<Head(q)>> \o (Tail(q) \o r)
         /\ \A f \in S : Append(q, f) \o r = (q \o <<f>>) \o r
         /\ \A f \in S : q \o Append(r, f) = Append(q \o r, f)
         /\ r # <<>> => Append(q, Head(r)) \o Tail(r) = q \o r
<1>1. ASSUME q # <<>> PROVE q \o r = <<Head(q)>> \o (Tail(q) \o r)
  <2>1. Head(q) \in S /\ Tail(q) \in Seq(S) /\ <<Head(q)>> \in Seq(S) BY <1>1, HeadTailProperties
  <2>2. q = <<Head(q)>> \o Tail(q) BY <1>1
  <2>3. (<<Head(q)>> \o Tail(q)) \o r = <<Head(q)>> \o (Tail(q) \o r) BY <2>1, ConcatAssociative
  <2> QED BY <2>2, <2>3
<1>2. ASSUME NEW f \in S PROVE Append(q, f) \o r = (q \o <<f>>) \o r OBVIOUS
<1>3. ASSUME NEW f \in S PROVE q \o Append(r, f) = Append(q \o r, f)
  <2>1. Append(r, f) = r \o <<f>> /\ <<f>> \in Seq(S) /\ q \o r \in Seq(S) BY ConcatProperties
  <2>2. q \o (r \o <<f>>) = (q \o r) \o <<f>> BY <2>1, ConcatAssociative
  <2>3. Append(q \o r, f) = (q \o r) \o <<f>> BY <2>1
  <2> QED BY <2>1, <2>2, <2>3
<1>4. ASSUME r # <<>> PROVE Append(q, Head(r)) \o Tail(r) = q \o r
  <2>1. Head(r) \in S /\ Tail(r) \in Seq(S) /\ <<Head(r)>> \in Seq(S) BY <1>4, HeadTailProperties
  <2>2. r = <<Head(r)>> \o Tail(r) BY <1>4
  <2>3. Append(q, Head(r)) = q \o <<Head(r)>> BY <2>1
  <2>4. (q \o <<Head(r)>>) \o Tail(r) = q \o (<<Head(r)>> \o Tail(r)) BY <2>1, ConcatAssociative
  <2> QED BY <2>2, <2>3, <2>4
<1> QED BY <1>1, <1>2, <1>3, <1>4

-----------------------------------------------------------------------------
(* Each step keeps what is under way in order.                             *)

LEMMA WayType ==
  ASSUME TypeOK
  PROVE  /\ toClient \in Seq(ClientFrames) /\ pushes \in Seq(ClientFrames)
         /\ Way \in Seq(ClientFrames) /\ DOMAIN Way = 1 .. Len(toClient) + Len(pushes)
         /\ Len(Way) = Len(toClient) + Len(pushes)
         /\ \A k \in Long : received[k] \in Seq(Nat) /\ pushed[k] \in Nat
<1>1. toClient \in Seq(ClientFrames) BY DEF TypeOK
<1>2. pushes \in Seq(ClientFrames)
  <2>1. pushes \in Seq(PushFrames) /\ PushFrames \subseteq ClientFrames BY FrameTypes DEF TypeOK
  <2> QED BY <2>1, SeqMonotonic
<1>3. Way \in Seq(ClientFrames) /\ Len(Way) = Len(toClient) + Len(pushes)
  BY <1>1, <1>2, ConcatProperties DEF Way
<1>4. DOMAIN Way = 1 .. Len(toClient) + Len(pushes) BY <1>3
<1>5. \A k \in Long : received[k] \in Seq(Nat) /\ pushed[k] \in Nat BY DEF TypeOK
<1> QED BY <1>1, <1>2, <1>3, <1>4, <1>5

(* Steps that move no frame.                                               *)
LEMMA StillStep ==
  ASSUME NEW k \in Long, PushOf(k), tasks \subseteq handled, tasks' \subseteq tasks,
         UNCHANGED <<received, toClient, pushes, pushed, handled>>,
         k \in pushHandlers' <=> call'[k] = "done", socket'[k] # "none" => call'[k] = "done",
         Gets(k)' => Gets(k),
         call'[k] = "pending" => call[k] = "pending" \/ k \notin handled
  PROVE  PushOf(k)'
<1>1. Way' = Way /\ Stream(k)' = Stream(k) BY DEF Way, Stream, News, IsMessage
<1>2. \A j : ReplyBefore(k, j)' <=> ReplyBefore(k, j) BY DEF ReplyBefore, OkReply
<1>3. (Gets(k) => Counts(Stream(k), pushed[k]))' BY <1>1 DEF PushOf, Counts
<1>4. \A j \in DOMAIN Way' : IsMessage(k, Way'[j]) =>
         k \in handled' /\ (call'[k] = "pending" => ReplyBefore(k, j)')
  BY <1>1, <1>2 DEF PushOf, IsMessage
<1>5. k \in tasks' /\ call'[k] = "pending" => ReplyBefore(k, Len(toClient) + 1)'
  BY <1>2 DEF PushOf
<1> QED BY <1>3, <1>4, <1>5 DEF PushOf, IsMessage

(* A reply stays before what it was before.                                *)
LEMMA ReplyLater ==
  ASSUME NEW k, NEW i \in Int, NEW j \in Int, i <= j, TypeOK, ReplyBefore(k, i)
  PROVE  ReplyBefore(k, j)
BY DEF ReplyBefore, TypeOK

LEMMA ReplyAppend ==
  ASSUME NEW k, NEW f \in ClientFrames, TypeOK, toClient' = Append(toClient, f), NEW j \in Int
  PROVE  /\ ReplyBefore(k, j) => ReplyBefore(k, j)'
         /\ OkReply(k, f) => ReplyBefore(k, Len(toClient) + 1)'
<1>1. toClient \in Seq(ClientFrames) BY DEF TypeOK
<1>2. \A i \in DOMAIN toClient : i \in DOMAIN toClient' /\ toClient'[i] = toClient[i] BY <1>1
<1>3. /\ Len(toClient) + 1 \in DOMAIN toClient' /\ toClient'[Len(toClient) + 1] = f
      /\ Len(toClient') = Len(toClient) + 1
  BY <1>1
<1>4. Len(toClient) + 1 < Len(toClient') + 1 BY <1>1, <1>3
<1> QED BY <1>2, <1>3, <1>4 DEF ReplyBefore, OkReply

LEMMA ReplyTail ==
  ASSUME NEW k, TypeOK, toClient # <<>>, ~OkReply(k, Head(toClient)), toClient' = Tail(toClient),
         NEW j \in Int, ReplyBefore(k, j + 1)
  PROVE  ReplyBefore(k, j)'
<1>1. toClient \in Seq(ClientFrames) BY DEF TypeOK
<1>2. PICK i \in DOMAIN toClient : i < j + 1 /\ OkReply(k, toClient[i]) BY DEF ReplyBefore
<1>3. i # 1 BY <1>1, <1>2
<1>4. i - 1 \in DOMAIN toClient' /\ toClient'[i - 1] = toClient[i] /\ i - 1 < j BY <1>1, <1>2, <1>3
<1> QED BY <1>2, <1>4 DEF ReplyBefore, OkReply

(* A frame is handled: a message finds its Socket registered, as what      *)
(* awaited the reply has run.                                              *)
LEMMA HandleStep ==
  ASSUME IInv, PushInv, Connects, HandleMessage, NEW k \in Long
  PROVE  PushOf(k)'
<1> DEFINE f == Head(toClient)
           w == Tail(toClient) \o pushes
           v == IF IsMessage(k, f) THEN f.n ELSE 0
<1>0. TypeOK /\ CallsExact /\ IdsExact /\ RequestsExact /\ RepliesExact BY DEF IInv
<1>1. PushOf(k) /\ tasks \subseteq handled BY DEF PushInv
<1>2. /\ toClient \in Seq(ClientFrames) /\ pushes \in Seq(ClientFrames)
      /\ Way \in Seq(ClientFrames) /\ received[k] \in Seq(Nat) /\ pushed[k] \in Nat
  BY <1>0, WayType
<1>3. /\ toClient # <<>> /\ toClient' = Tail(toClient)
      /\ UNCHANGED <<pushHandlers, handled, tasks, pushed, pushes, ids>>
      /\ \A c \in Calls : call[c] # "answered"
  BY DEF HandleMessage, serverVars, Connects, Quiet, JavaScript
<1>4. f \in ClientFrames /\ Tail(toClient) \in Seq(ClientFrames) BY <1>2, <1>3, HeadTailProperties
<1>5. Way = <<f>> \o w /\ Way' = w /\ w \in Seq(ClientFrames)
  BY <1>2, <1>3, <1>4, QueueParts, ConcatProperties DEF Way
<1>6. \A j \in DOMAIN w : j + 1 \in DOMAIN Way /\ Way[j + 1] = w[j] /\ j \in Int
  <2> HIDE DEF f, w
  <2> QED BY <1>4, <1>5
<1>7. 1 \in DOMAIN Way /\ Way[1] = f
  <2> HIDE DEF f, w
  <2> QED BY <1>4, <1>5
<1>8. Stream(k) = Append(received[k], v) \o News(k, w)
  BY <1>2, <1>4, <1>5, StreamGiven DEF Stream
<1>9. v = 0 => (Counts(Stream(k), pushed[k]) => Counts(received[k] \o News(k, w), pushed[k]))
  <2>1. SUFFICES ASSUME v = 0, Counts(Stream(k), pushed[k])
                 PROVE  Counts(received[k] \o News(k, w), pushed[k])
    OBVIOUS
  <2> DEFINE R == received[k]  N == News(k, w)
  <2>2. R \in Seq(Nat) /\ N \in Seq(Nat) BY <1>2, <1>5, NewsType
  <2>3. Counts((R \o <<0>>) \o N, pushed[k])
    <3>1. Append(R, 0) = R \o <<0>> BY <2>2, SMTT(60)
    <3> HIDE DEF v, w
    <3> QED BY <1>8, <2>1, <3>1
  <2> HIDE DEF R, N
  <2>4. <<0>> \in Seq(Nat) /\ \A i \in DOMAIN <<0>> : <<0>>[i] = 0 OBVIOUS
  <2>5. Counts(R \o N, pushed[k]) BY <1>2, <2>2, <2>3, <2>4, CountsZeros
  <2> QED BY <2>5 DEF R, N
<1>10. \A j \in DOMAIN w : IsMessage(k, w[j]) =>
         k \in handled /\ (call[k] = "pending" => ReplyBefore(k, j + 1))
  BY <1>1, <1>6 DEF PushOf
<1>11. CASE f.kind = "push"
  <2>1. ReceivePush(f) BY <1>11 DEF HandleMessage, ReceiveReply, ReceiveReplyThread
  <2>2. /\ UNCHANGED call
        /\ IF f.conn \in pushHandlers THEN OnMessage(f.conn, f.n) ELSE UNCHANGED <<socket, received>>
    BY <2>1 DEF ReceivePush
  <2>3. f.conn \in Long /\ f.n \in Nat BY <1>4, <1>11, ClientFrameTypes
  <2>4. ASSUME NEW j \in Int, ReplyBefore(k, j + 1) PROVE ReplyBefore(k, j)'
    BY <1>0, <1>3, <1>11, <2>4, ReplyTail DEF OkReply
  <2>5. /\ \A j \in DOMAIN w : IsMessage(k, w[j]) =>
              k \in handled /\ (call[k] = "pending" => ReplyBefore(k, j)')
        /\ k \in tasks /\ call[k] = "pending" => ReplyBefore(k, Len(toClient) + 1)'
    <3>1. k \in tasks /\ call[k] = "pending" => ReplyBefore(k, Len(toClient) + 1) BY <1>1 DEF PushOf
    <3>2. PICK n \in Int : n = Len(toClient) /\ n = Len(toClient') + 1 BY <1>2, <1>3
    <3>3. \A j \in DOMAIN w : ReplyBefore(k, j + 1) => ReplyBefore(k, j)'
      <4> SUFFICES ASSUME NEW j \in DOMAIN w, ReplyBefore(k, j + 1) PROVE ReplyBefore(k, j)' OBVIOUS
      <4>1. j \in Int BY <1>6
      <4> QED BY <2>4, <4>1
    <3>4. ReplyBefore(k, n + 1) => ReplyBefore(k, n)' BY <2>4
    <3>5. k \in tasks /\ call[k] = "pending" => ReplyBefore(k, Len(toClient) + 1)'
      BY <3>1, <3>2, <3>4 DEF ReplyBefore
    <3> HIDE DEF w
    <3> QED BY <1>10, <3>3, <3>5
  <2>6. /\ \/ received'[k] = Append(received[k], v)
           \/ v = 0 /\ received'[k] = received[k]
           \/ ~Gets(k)'
        /\ socket[k] = "closed" => socket'[k] = "closed"
        /\ socket'[k] # "none" => call[k] = "done"
    <3>0. /\ k \in DOMAIN received /\ k \in DOMAIN socket
          /\ received \in [Long -> Seq(Nat)] /\ socket \in [Long -> SocketStates]
      BY <1>0 DEF TypeOK, SocketStates
    <3>1. CASE IsMessage(k, f)
      <4>1. v = f.n /\ f.n > 0 /\ f.conn = k BY <3>1 DEF IsMessage
      <4>2. k \in handled /\ call[k] # "pending"
        <5>1. ~ReplyBefore(k, 1) BY <1>0 DEF ReplyBefore, TypeOK
        <5>2. IsMessage(k, Way[1]) BY <1>7, <3>1
        <5> HIDE DEF f, v
        <5> QED BY <1>1, <1>7, <5>1, <5>2 DEF PushOf
      <4>3. call[k] \in {"done", "failed"}
        <5>1. k \in Calls /\ ids[k] # 0 BY <1>0, <4>2, ClientAssumption DEF RequestsExact, Sent
        <5>2. call[k] \in CallStates
          BY <1>0, <5>1 DEF TypeOK, CallStates
        <5>3. call[k] # "threw"
          BY <1>0, <5>1 DEF CallsExact, HandleMessage
        <5> QED BY <1>0, <1>3, <4>2, <5>1, <5>2, <5>3 DEF IdsExact, CallStates
      <4>4. CASE call[k] = "done"
        <5>1. k \in pushHandlers BY <1>1, <4>4 DEF PushOf
        <5>2. OnMessage(k, f.n) BY <2>2, <4>1, <5>1
        <5> HIDE DEF f, v
        <5> QED BY <2>2, <3>0, <4>1, <4>4, <5>2 DEF OnMessage, Gets
      <4>5. CASE call[k] = "failed"
        <5>1. k \notin pushHandlers /\ socket[k] = "none" BY <1>1, <4>5 DEF PushOf
        <5>2. ~Gets(k)' BY <2>2, <4>5 DEF Gets
        <5>3. UNCHANGED socket BY <2>2, <4>1, <5>1
        <5> QED BY <4>5, <5>1, <5>2, <5>3
      <4> QED BY <4>3, <4>4, <4>5
    <3>2. CASE ~IsMessage(k, f)
      <4>1. v = 0 /\ (f.conn = k => f.n = 0) BY <1>11, <2>3, <3>2 DEF IsMessage
      <4>2. /\ k \in pushHandlers <=> call[k] = "done"
            /\ socket[k] # "none" => call[k] = "done"
        BY <1>1 DEF PushOf
      <4> HIDE DEF f, v
      <4>3. CASE f.conn = k BY <2>2, <3>0, <4>1, <4>2, <4>3 DEF OnMessage
      <4>4. CASE f.conn # k BY <2>2, <3>0, <4>1, <4>2, <4>4 DEF OnMessage
      <4> QED BY <4>3, <4>4
    <3> QED BY <3>1, <3>2
  <2>7. (Gets(k) => Counts(Stream(k), pushed[k]))'
    <3> SUFFICES ASSUME Gets(k)' PROVE Counts(received'[k] \o News(k, w), pushed[k])
      BY <1>3, <1>5 DEF Stream, News, IsMessage, Counts
    <3>1. Gets(k) BY <2>2, <2>6 DEF Gets
    <3>2. Counts(Stream(k), pushed[k]) BY <1>1, <3>1 DEF PushOf
    <3>3. CASE received'[k] = Append(received[k], v)
      <4> HIDE DEF v, w
      <4> QED BY <1>8, <3>2, <3>3
    <3>4. CASE v = 0 /\ received'[k] = received[k]
      <4> HIDE DEF v, w
      <4> QED BY <1>9, <3>2, <3>4
    <3> QED BY <2>6, <3>3, <3>4
  <2>8. (k \in pushHandlers <=> call[k] = "done")' /\ (socket[k] # "none" => call[k] = "done")'
    BY <1>1, <1>3, <2>2, <2>6 DEF PushOf
  <2> HIDE DEF f, v, w
  <2> QED BY <1>3, <1>5, <2>2, <2>5, <2>7, <2>8 DEF PushOf, IsMessage
<1>12. CASE f.kind = "reply"
  <2>1. ReceiveReply(f) \/ ReceiveReplyThread(f) BY <1>12 DEF HandleMessage, ReceivePush
  <2>2. UNCHANGED <<socket, received>>
    BY <2>1 DEF ReceiveReply, ReceiveReplyThread, Settle
  <2>3. v = 0 BY <1>12 DEF IsMessage
  <2>4. /\ f.call \in Calls /\ call' \in [Calls -> CallStates] /\ k \in Calls
        /\ \/ call' = call
           \/ call[f.call] = "pending" /\ call' = [call EXCEPT ![f.call] = "answered"]
           \/ call[f.call] = "pending" /\ call' = [call EXCEPT ![f.call] = "failed"]
    <3>0. link = "open" BY DEF HandleMessage
    <3>1. PICK g : g = f OBVIOUS
    <3>2. ReceiveReply(g) \/ ReceiveReplyThread(g) BY <2>1, <3>1
    <3>3. /\ g.call \in Sent
          /\ \/ call' = call
             \/ call[g.call] = "pending" /\ call' = [call EXCEPT ![g.call] = "answered"]
             \/ call[g.call] = "pending" /\ call' = [call EXCEPT ![g.call] = "failed"]
      BY <1>0, <1>3, <3>0, <3>1, <3>2, SettleEffect
    <3>4. k \in Calls /\ call \in [Calls -> CallStates]
      BY <1>0, ClientAssumption DEF TypeOK, CallStates
    <3> HIDE DEF f
    <3> QED BY <3>1, <3>3, <3>4 DEF Sent, CallStates
  <2>5. f.call = k \/ call'[k] = call[k] BY <1>0, <2>4, ClientAssumption DEF TypeOK
  <2>6. call'[k] = "done" <=> call[k] = "done"
    <3> HIDE DEF f
    <3> QED BY <1>0, <2>4 DEF TypeOK
  <2>7. Gets(k)' => Gets(k)
    <3> HIDE DEF f
    <3> QED BY <1>0, <2>2, <2>4, <2>6 DEF Gets, TypeOK
  <2>8. call'[k] = "pending" => call[k] = "pending" /\ ~OkReply(k, f)
    <3>1. SUFFICES ASSUME call'[k] = "pending", OkReply(k, f) PROVE FALSE
      <4> HIDE DEF f
      <4> QED BY <1>0, <2>4 DEF TypeOK
    <3>2. f.call = k /\ f.ok BY <3>1 DEF OkReply
    <3>3. f.id = ids[k] /\ k \in Sent
      BY <1>0, <1>3, <1>12, <3>2, ReplyAtHead
    <3>4. call[k] = "pending"
      <4> HIDE DEF f
      <4> QED BY <1>0, <2>4, <3>1 DEF TypeOK
    <3>5. Entry(ids[k], k) \in pending /\ Entry(ids[k], k).id = f.id /\ Entry(ids[k], k).call = k
      BY <1>0, <2>4, <3>3, <3>4, PendingOf, EntryOf DEF Entered
    <3>6. Settle(f, {p \in pending : p.id = f.id}) BY <2>1 DEF ReceiveReply, ReceiveReplyThread
    <3>7. call'[k] # "pending"
      <4> HIDE DEF f
      <4> QED BY <2>4, <3>5, <3>6 DEF Settle
    <3> QED BY <3>1, <3>7
  <2>9. ASSUME NEW j \in Int, call'[k] = "pending", ReplyBefore(k, j + 1) PROVE ReplyBefore(k, j)'
    BY <1>0, <1>3, <2>8, <2>9, ReplyTail
  <2>10. /\ \A j \in DOMAIN w : IsMessage(k, w[j]) =>
               k \in handled /\ (call'[k] = "pending" => ReplyBefore(k, j)')
         /\ k \in tasks /\ call'[k] = "pending" => ReplyBefore(k, Len(toClient) + 1)'
    <3>1. k \in tasks /\ call[k] = "pending" => ReplyBefore(k, Len(toClient) + 1) BY <1>1 DEF PushOf
    <3>2. PICK n \in Int : n = Len(toClient) /\ n = Len(toClient') + 1 BY <1>2, <1>3
    <3>3. \A j \in DOMAIN w : call'[k] = "pending" /\ ReplyBefore(k, j + 1) => ReplyBefore(k, j)'
      <4> SUFFICES ASSUME NEW j \in DOMAIN w, call'[k] = "pending", ReplyBefore(k, j + 1)
                   PROVE  ReplyBefore(k, j)'
        OBVIOUS
      <4>1. j \in Int BY <1>6
      <4> QED BY <2>9, <4>1
    <3>4. call'[k] = "pending" /\ ReplyBefore(k, n + 1) => ReplyBefore(k, n)' BY <2>9
    <3>5. k \in tasks /\ call'[k] = "pending" => ReplyBefore(k, Len(toClient) + 1)'
      BY <2>8, <3>1, <3>2, <3>4 DEF ReplyBefore
    <3> HIDE DEF w
    <3> QED BY <1>10, <2>8, <3>3, <3>5
  <2>11. (Gets(k) => Counts(Stream(k), pushed[k]))'
    <3> SUFFICES ASSUME Gets(k)' PROVE Counts(received[k] \o News(k, w), pushed[k])
      BY <1>3, <1>5, <2>2, ZenonT(60) DEF Stream, News, IsMessage, Counts
    <3>1. Counts(Stream(k), pushed[k]) BY <1>1, <2>7 DEF PushOf
    <3> HIDE DEF v, w
    <3> QED BY <1>9, <2>3, <3>1
  <2>12. (k \in pushHandlers <=> call[k] = "done")' /\ (socket[k] # "none" => call[k] = "done")'
    BY <1>1, <1>3, <2>2, <2>6 DEF PushOf
  <2> HIDE DEF f, v, w
  <2> QED BY <1>3, <1>5, <2>10, <2>11, <2>12 DEF PushOf, IsMessage
<1> QED BY <1>4, <1>11, <1>12 DEF ClientFrames, PushFrames

LEMMA StreamNow ==
  ASSUME NEW k \in Long, NEW s, Stream(k)' = s, Counts(s, pushed'[k])
  PROVE  Counts(Stream(k), pushed[k])'
BY DEF Counts

(* The server handles a request: what it answers goes before every message *)
(* of the handler that it starts.                                          *)
LEMMA RequestStep ==
  ASSUME IInv, PushInv, Connects, Serve, NEW ok \in BOOLEAN, ServeRequest(Head(toServer), ok),
         NEW k \in Long
  PROVE  PushOf(k)' /\ tasks' \subseteq handled'
<1> DEFINE f == Head(toServer)
           r == Reply(f.id, f.call, ok)
<1>0. TypeOK /\ RequestsExact BY DEF IInv
<1>1. PushOf(k) /\ tasks \subseteq handled BY DEF PushInv
<1>2. /\ toClient \in Seq(ClientFrames) /\ pushes \in Seq(ClientFrames)
      /\ Way \in Seq(ClientFrames) /\ received[k] \in Seq(Nat) /\ pushed[k] \in Nat
      /\ DOMAIN Way = 1 .. Len(toClient) + Len(pushes)
  BY <1>0, WayType
<1>3. /\ f.kind = "request" /\ f \in ServerFrames /\ toServer # <<>>
      /\ f = toServer[1] /\ 1 \in DOMAIN toServer
  BY <1>0 DEF Serve, ServeRequest, TypeOK
<1>4. f.id \in Nat /\ f.call \in Calls /\ f.call \notin handled
  BY <1>0, <1>3, ServerFrameTypes DEF RequestsExact, IsRequest
<1>5. /\ toClient' = Append(toClient, r) /\ UNCHANGED pushes
      /\ handled' = handled \cup {f.call}
      /\ UNCHANGED <<call, socket, pushHandlers, received, pushed>>
      /\ \/ tasks' = tasks
         \/ tasks' = tasks \cup {f.call} /\ ok = TRUE
  BY DEF Serve, ServeRequest, clientVars, socketVars
<1>6. r \in ClientFrames /\ ~IsMessage(k, r)
  BY <1>4, FrameTypes DEF Reply, IsMessage
<1> HIDE DEF f, r
<1>7. Way' = (toClient \o <<r>>) \o pushes BY <1>2, <1>5, <1>6 DEF Way
<1>8. (Gets(k) => Counts(Stream(k), pushed[k]))'
  <2>1. <<r>> \in Seq(ClientFrames) /\ \A i \in DOMAIN <<r>> : ~IsMessage(k, <<r>>[i])
    BY <1>6
  <2>2. Counts(received[k] \o News(k, (toClient \o <<r>>) \o pushes), pushed[k])
          <=> Counts(received[k] \o News(k, toClient \o pushes), pushed[k])
    BY <1>2, <2>1, StreamZeros
  <2>3. Stream(k)' = received[k] \o News(k, (toClient \o <<r>>) \o pushes)
    BY <1>5, <1>7 DEF Stream, News, IsMessage
  <2> QED BY <1>1, <1>5, <2>2, <2>3, StreamNow DEF PushOf, Gets, Stream, Way
<1>9. ASSUME NEW j \in DOMAIN Way', IsMessage(k, Way'[j])
      PROVE  k \in handled' /\ (call'[k] = "pending" => ReplyBefore(k, j)')
  <2> DEFINE l == Len(toClient)  n == Len(pushes)
  <2>1. l \in Nat /\ n \in Nat /\ DOMAIN Way' = 1 .. l + 1 + n BY <1>2, <1>6, <1>7
  <2>2. PICK i \in DOMAIN Way : i <= j /\ Way[i] = Way'[j] /\ j \in Int
    <3>1. CASE j <= l
      <4>1. j \in 1 .. l + n /\ Way'[j] = toClient[j] /\ Way[j] = toClient[j]
        BY <1>2, <1>6, <1>7, <2>1, <3>1 DEF Way
      <4> QED BY <1>2, <2>1, <4>1
    <3>2. CASE j = l + 1
      <4>1. Way'[j] = r BY <1>2, <1>6, <1>7, <2>1, <3>2
      <4> QED BY <1>6, <1>9, <4>1
    <3>3. CASE j > l + 1
      <4>1. /\ j - 1 \in 1 .. l + n /\ j - 1 - l \in 1 .. n
            /\ Way'[j] = pushes[j - 1 - l] /\ Way[j - 1] = pushes[j - 1 - l]
        BY <1>2, <1>6, <1>7, <2>1, <3>3, SMTT(60) DEF Way
      <4> QED BY <1>2, <2>1, <4>1
    <3> QED BY <2>1, <3>1, <3>2, <3>3
  <2>3. k \in handled /\ (call[k] = "pending" => ReplyBefore(k, i))
    BY <1>1, <1>9, <2>2 DEF PushOf
  <2>4. call[k] = "pending" => ReplyBefore(k, j)'
    <3>1. i \in Int BY <1>2, <2>2
    <3> QED BY <1>0, <1>5, <1>6, <2>2, <2>3, <3>1, ReplyLater, ReplyAppend
  <2> QED BY <1>5, <2>3, <2>4
<1>10. k \in tasks' /\ call'[k] = "pending" => ReplyBefore(k, Len(toClient) + 1)'
  <2>1. SUFFICES ASSUME k \in tasks', call[k] = "pending" PROVE ReplyBefore(k, Len(toClient) + 1)'
    BY <1>5
  <2>2. PICK n \in Int : n = Len(toClient) + 1 BY <1>2
  <2>3. Len(toClient') = n BY <1>2, <1>5, <1>6, <2>2
  <2>4. ReplyBefore(k, n + 1)'
    <3>1. CASE k \in tasks
      <4>1. ReplyBefore(k, n) BY <1>1, <2>1, <2>2, <3>1 DEF PushOf
      <4>2. ReplyBefore(k, n)' BY <1>0, <1>5, <1>6, <4>1, ReplyAppend
      <4>3. \A i \in DOMAIN toClient' : i \in Int BY <1>2, <1>5, <1>6
      <4> QED BY <4>2, <4>3 DEF ReplyBefore, OkReply
    <3>2. CASE k \notin tasks
      <4>1. k = f.call /\ ok = TRUE BY <1>5, <2>1, <3>2
      <4>2. OkReply(k, r) BY <4>1 DEF r, Reply, OkReply
      <4>3. n \in DOMAIN toClient' /\ toClient'[n] = r BY <1>2, <1>5, <1>6, <2>2
      <4> QED BY <4>2, <4>3 DEF ReplyBefore, OkReply
    <3> QED BY <3>1, <3>2
  <2> QED BY <2>3, <2>4 DEF ReplyBefore
<1> QED BY <1>1, <1>5, <1>8, <1>9, <1>10 DEF PushOf, IsMessage

(* A close or a heartbeat is served: no message comes or goes.             *)
LEMMA EmptyStep ==
  ASSUME IInv, PushInv, NEW k \in Long, NEW z \in Seq(ClientFrames), pushes' = pushes \o z,
         \A i \in DOMAIN z : ~IsMessage(k, z[i]),
         UNCHANGED <<call, socket, pushHandlers, received, pushed, toClient, handled, tasks>>,
         Connects
  PROVE  PushOf(k)'
<1>0. TypeOK BY DEF IInv
<1>1. PushOf(k) BY DEF PushInv
<1>2. /\ toClient \in Seq(ClientFrames) /\ pushes \in Seq(ClientFrames)
      /\ Way \in Seq(ClientFrames) /\ received[k] \in Seq(Nat) /\ pushed[k] \in Nat
      /\ DOMAIN Way = 1 .. Len(Way)
  BY <1>0, WayType
<1>3. Way' = Way \o z
  <2>1. toClient \o (pushes \o z) = (toClient \o pushes) \o z BY <1>2, FrameConcat, SMTT(60)
  <2> QED BY <2>1 DEF Way
<1>4. (Gets(k) => Counts(Stream(k), pushed[k]))'
  <2>1. <<>> \in Seq(ClientFrames) OBVIOUS
  <2>2. Counts(received[k] \o News(k, (Way \o z) \o <<>>), pushed[k])
          <=> Counts(received[k] \o News(k, Way \o <<>>), pushed[k])
    BY <1>2, <2>1, StreamZeros
  <2>3. (Way \o z) \o <<>> = Way \o z /\ Way \o <<>> = Way
    <3>1. Way \o z \in Seq(ClientFrames) BY <1>2, ConcatProperties
    <3> QED BY <1>2, <3>1
  <2>4. Counts(received[k] \o News(k, Way \o z), pushed[k]) <=> Counts(received[k] \o News(k, Way), pushed[k])
    BY <2>2, <2>3
  <2>5. Stream(k)' = received[k] \o News(k, Way \o z) BY <1>3 DEF Stream, News, IsMessage
  <2> QED BY <1>1, <2>4, <2>5, StreamNow DEF PushOf, Gets, Stream
<1>5. \A j \in DOMAIN Way' : IsMessage(k, Way'[j]) => j \in DOMAIN Way /\ Way'[j] = Way[j]
  <2> SUFFICES ASSUME NEW j \in DOMAIN (Way \o z), IsMessage(k, (Way \o z)[j])
               PROVE  j \in DOMAIN Way /\ (Way \o z)[j] = Way[j]
    BY <1>3 DEF IsMessage
  <2>1. Len(Way) \in Nat /\ Len(z) \in Nat /\ j \in 1 .. Len(Way) + Len(z) BY <1>2
  <2>2. CASE j <= Len(Way) BY <1>2, <2>1, <2>2
  <2>3. CASE j > Len(Way)
    <3>1. (Way \o z)[j] = z[j - Len(Way)] /\ j - Len(Way) \in DOMAIN z BY <1>2, <2>1, <2>3
    <3> QED BY <3>1
  <2> QED BY <2>1, <2>2, <2>3
<1>6. \A j : ReplyBefore(k, j)' <=> ReplyBefore(k, j) BY DEF ReplyBefore, OkReply
<1>7. \A j \in DOMAIN Way' : IsMessage(k, Way'[j]) =>
         k \in handled' /\ (call'[k] = "pending" => ReplyBefore(k, j)')
  BY <1>1, <1>5, <1>6 DEF PushOf
<1>8. k \in tasks' /\ call'[k] = "pending" => ReplyBefore(k, Len(toClient) + 1)'
  BY <1>1, <1>6 DEF PushOf
<1> QED BY <1>1, <1>4, <1>7, <1>8 DEF PushOf, IsMessage

(* A handler pushes: if the client still waits, the reply is ahead.        *)
LEMMA PushStep ==
  ASSUME IInv, PushInv, Connects, NEW h \in Long, HandlerPush(h), NEW k \in Long
  PROVE  PushOf(k)'
<1> DEFINE p == Push(h, pushed[h] + 1)
<1>0. TypeOK BY DEF IInv
<1>1. PushOf(k) /\ tasks \subseteq handled BY DEF PushInv
<1>2. /\ toClient \in Seq(ClientFrames) /\ pushes \in Seq(ClientFrames)
      /\ Way \in Seq(ClientFrames) /\ Len(Way) = Len(toClient) + Len(pushes)
      /\ received[k] \in Seq(Nat) /\ pushed[k] \in Nat /\ pushed[h] \in Nat
  BY <1>0, WayType
<1>3. /\ h \in tasks /\ pushes' = Append(pushes, p)
      /\ pushed' = [pushed EXCEPT ![h] = @ + 1]
      /\ UNCHANGED <<call, socket, pushHandlers, received, toClient, handled, tasks>>
  BY DEF HandlerPush, clientVars, socketVars
<1>4. p \in ClientFrames BY <1>2, FrameTypes
<1>5. CASE h # k
  <2>1. ~IsMessage(k, p) BY <1>5 DEF IsMessage, Push
  <2>2. pushed'[k] = pushed[k] BY <1>0, <1>3, <1>5 DEF TypeOK
  <2> HIDE DEF p
  <2>3. Way' = Append(Way, p) BY <1>2, <1>3, <1>4, QueueParts DEF Way
  <2>4. (Gets(k) => Counts(Stream(k), pushed[k]))'
    <3>1. <<>> \in Seq(ClientFrames) /\ <<p>> \in Seq(ClientFrames)
          /\ \A i \in DOMAIN <<p>> : ~IsMessage(k, <<p>>[i])
      BY <1>4, <2>1
    <3>2. Counts(received[k] \o News(k, (Way \o <<p>>) \o <<>>), pushed[k])
            <=> Counts(received[k] \o News(k, Way \o <<>>), pushed[k])
      BY <1>2, <3>1, StreamZeros
    <3>3. (Way \o <<p>>) \o <<>> = Append(Way, p) /\ Way \o <<>> = Way BY <1>2, <1>4
    <3>4. Counts(received[k] \o News(k, Append(Way, p)), pushed[k])
            <=> Counts(received[k] \o News(k, Way), pushed[k])
      BY <3>2, <3>3
    <3>5. Stream(k)' = received[k] \o News(k, Append(Way, p))
      BY <1>3, <2>3 DEF Stream, News, IsMessage
    <3> QED BY <1>1, <1>3, <2>2, <3>4, <3>5, StreamNow DEF PushOf, Gets, Stream
  <2>5. \A j \in DOMAIN Way' : IsMessage(k, Way'[j]) => j \in DOMAIN Way /\ Way'[j] = Way[j]
    BY <1>2, <1>4, <2>1, <2>3
  <2>6. \A j : ReplyBefore(k, j)' <=> ReplyBefore(k, j) BY <1>3 DEF ReplyBefore, OkReply
  <2>7. \A j \in DOMAIN Way' : IsMessage(k, Way'[j]) =>
           k \in handled' /\ (call'[k] = "pending" => ReplyBefore(k, j)')
    BY <1>1, <1>3, <2>5, <2>6 DEF PushOf
  <2>8. k \in tasks' /\ call'[k] = "pending" => ReplyBefore(k, Len(toClient) + 1)'
    BY <1>1, <1>3, <2>6 DEF PushOf
  <2> QED BY <1>1, <1>3, <2>4, <2>7, <2>8 DEF PushOf, IsMessage
<1>6. CASE h = k
  <2>1. pushed'[k] = pushed[k] + 1 /\ k \in tasks /\ k \in handled
    BY <1>0, <1>1, <1>3, <1>6 DEF TypeOK
  <2>2. p = Push(k, pushed[k] + 1) BY <1>6
  <2> HIDE DEF p
  <2>3. Way' = Append(Way, p) BY <1>2, <1>3, <1>4, QueueParts DEF Way
  <2>4. (Gets(k) => Counts(Stream(k), pushed[k]))'
    <3>1. Counts(received[k] \o News(k, Way), pushed[k]) =>
            Counts(received[k] \o News(k, Append(Way, p)), pushed[k] + 1)
      BY <1>2, <2>2, StreamNext
    <3>2. Stream(k)' = received[k] \o News(k, Append(Way, p))
      BY <1>3, <2>3 DEF Stream, News, IsMessage
    <3> QED BY <1>1, <1>3, <2>1, <3>1, <3>2, StreamNow DEF PushOf, Gets, Stream
  <2>5. \A j \in DOMAIN Way' : \/ j \in DOMAIN Way /\ Way'[j] = Way[j]
                              \/ j = Len(Way) + 1
    BY <1>2, <1>4, <2>3
  <2>6. \A j : ReplyBefore(k, j)' <=> ReplyBefore(k, j) BY <1>3 DEF ReplyBefore, OkReply
  <2>7. ASSUME call[k] = "pending" PROVE ReplyBefore(k, Len(Way) + 1)
    <3>1. PICK a \in Int, b \in Int : a = Len(toClient) + 1 /\ b = Len(Way) + 1 /\ a <= b
      BY <1>2
    <3>2. ReplyBefore(k, a) BY <1>1, <2>1, <2>7, <3>1 DEF PushOf
    <3>3. ReplyBefore(k, b) BY <1>0, <3>1, <3>2, ReplyLater
    <3> QED BY <3>1, <3>3
  <2>8. \A j \in DOMAIN Way' : IsMessage(k, Way'[j]) =>
           k \in handled' /\ (call'[k] = "pending" => ReplyBefore(k, j)')
    BY <1>1, <1>3, <2>1, <2>5, <2>6, <2>7 DEF PushOf
  <2>9. k \in tasks' /\ call'[k] = "pending" => ReplyBefore(k, Len(toClient) + 1)'
    BY <1>1, <1>3, <2>6 DEF PushOf
  <2> QED BY <1>1, <1>3, <2>4, <2>8, <2>9 DEF PushOf, IsMessage
<1> QED BY <1>5, <1>6

(* The server's loop writes: all that is on its way stays so.              *)
LEMMA ForwardStep ==
  ASSUME IInv, PushInv, Connects, Forward, NEW k \in Long PROVE PushOf(k)'
<1>0. TypeOK BY DEF IInv
<1>1. PushOf(k) BY DEF PushInv
<1>2. /\ toClient \in Seq(ClientFrames) /\ pushes \in Seq(ClientFrames)
      /\ DOMAIN Way = 1 .. Len(toClient) + Len(pushes)
  BY <1>0, WayType
<1>3. /\ pushes # <<>> /\ toClient' = Append(toClient, Head(pushes)) /\ pushes' = Tail(pushes)
      /\ UNCHANGED <<call, socket, pushHandlers, received, pushed, handled, tasks>>
  BY DEF Forward, clientVars, socketVars, serverVars
<1>4. Head(pushes) \in ClientFrames BY <1>2, <1>3
<1>5. Way' = Way BY <1>2, <1>3, QueueParts DEF Way
<1>6. \A j \in Int : ReplyBefore(k, j) => ReplyBefore(k, j)' BY <1>0, <1>3, <1>4, ReplyAppend
<1>7. \A j \in DOMAIN Way' : IsMessage(k, Way'[j]) =>
         k \in handled' /\ (call'[k] = "pending" => ReplyBefore(k, j)')
  <2>1. \A j \in DOMAIN Way : j \in Int BY <1>2
  <2> QED BY <1>1, <1>3, <1>5, <1>6, <2>1 DEF PushOf
<1>8. k \in tasks' /\ call'[k] = "pending" => ReplyBefore(k, Len(toClient) + 1)'
  <2>1. PICK n \in Int : n = Len(toClient) + 1 /\ n <= Len(toClient') + 1 /\ Len(toClient') \in Int
    BY <1>2, <1>3, <1>4
  <2>2. k \in tasks /\ call[k] = "pending" => ReplyBefore(k, n)' BY <1>1, <1>6, <2>1 DEF PushOf
  <2>3. ReplyBefore(k, n)' => ReplyBefore(k, Len(toClient) + 1)'
    <3>1. \A i \in DOMAIN toClient' : i \in Int BY <1>2, <1>3, <1>4
    <3> QED BY <2>1, <3>1 DEF ReplyBefore
  <2> QED BY <1>3, <2>2, <2>3
<1>9. (Gets(k) => Counts(Stream(k), pushed[k]))'
  <2>1. Stream(k)' = Stream(k) BY <1>3, <1>5 DEF Stream, News, IsMessage
  <2> QED BY <1>1, <1>3, <2>1, StreamNow DEF PushOf, Gets
<1> QED BY <1>1, <1>3, <1>7, <1>8, <1>9 DEF PushOf, IsMessage

(* Steps that move no frame, one by one.                                   *)
LEMMA StillSteps ==
  ASSUME IInv, PushInv, Connects, NEW k \in Long,
         \/ Connected \/ Heartbeat
         \/ \E c \in Calls : Call(c) \/ Issue(c) \/ Refuse(c) \/ Resume(c)
         \/ \E t \in timers : Timeout(t)
         \/ \E h \in Long : Close(h) \/ HandlerEnds(h)
  PROVE  PushOf(k)' /\ tasks' \subseteq handled'
<1>0. TypeOK /\ CallsExact /\ IdsExact /\ RequestsExact BY DEF IInv
<1>1. PushOf(k) /\ tasks \subseteq handled BY DEF PushInv
<1>2. k \in Calls /\ call \in [Calls -> CallStates] /\ socket \in [Long -> SocketStates]
  BY <1>0, ClientAssumption DEF TypeOK, CallStates, SocketStates
<1>3. /\ k \in pushHandlers <=> call[k] = "done"
      /\ socket[k] # "none" => call[k] = "done"
  BY <1>1 DEF PushOf
<1> DEFINE Still == /\ tasks' \subseteq tasks
                    /\ UNCHANGED <<received, toClient, pushes, pushed, handled>>
                    /\ k \in pushHandlers' <=> call'[k] = "done"
                    /\ socket'[k] # "none" => call'[k] = "done"
                    /\ Gets(k)' => Gets(k)
                    /\ call'[k] = "pending" => call[k] = "pending" \/ k \notin handled
<1>4. ASSUME Still PROVE PushOf(k)' /\ tasks' \subseteq handled'
  BY <1>1, <1>4, StillStep
<1>5. CASE Connected \/ Heartbeat
  <2>1. Still BY <1>3, <1>5 DEF Connected, Heartbeat, clientVars, socketVars, serverVars, Gets
  <2> QED BY <1>4, <2>1
<1>6. ASSUME NEW c \in Calls, Call(c) \/ Refuse(c) PROVE Still
  BY <1>2, <1>3, <1>6 DEF Call, Refuse, socketVars, serverVars, Gets
<1>7. ASSUME NEW c \in Calls, Issue(c) PROVE Still
  <2>1. c \notin handled BY <1>0, <1>7 DEF Issue, IdsExact, RequestsExact, Sent
  <2> QED BY <1>2, <1>3, <1>7, <2>1 DEF Issue, Start, socketVars, serverVars, Gets
<1>8. ASSUME NEW c \in Calls, Resume(c) PROVE Still
  <2>1. reply[c] = {c} BY <1>0, <1>8 DEF CallsExact, Resume
  <2>2. /\ call[c] = "answered" /\ call' = [call EXCEPT ![c] = "done"]
        /\ socket' = IF c \in Long THEN [socket EXCEPT ![c] = "open"] ELSE socket
        /\ pushHandlers' = IF c \in Long THEN pushHandlers \cup {c} ELSE pushHandlers
        /\ UNCHANGED <<received, toClient, pushes, pushed, handled, tasks>>
    BY <1>8, <2>1 DEF Resume, serverVars
  <2> QED BY <1>2, <1>3, <2>2 DEF Gets
<1>9. ASSUME NEW t \in timers, Timeout(t) PROVE Still
  <2>1. t.call \in Calls BY <1>0 DEF IdsExact, Sent
  <2> QED BY <1>2, <1>3, <1>9, <2>1 DEF Timeout, socketVars, serverVars, Gets
<1>10. ASSUME NEW h \in Long, Close(h) PROVE Still
  BY <1>2, <1>3, <1>10 DEF Close, clientVars, serverVars, Gets
<1>11. ASSUME NEW h \in Long, HandlerEnds(h) PROVE Still
  BY <1>2, <1>3, <1>11 DEF HandlerEnds, clientVars, socketVars, Gets
<1> QED BY <1>4, <1>5, <1>6, <1>7, <1>8, <1>9, <1>10, <1>11

LEMMA PushInvStep ==
  ASSUME IInv, PushInv, Next PROVE PushInv'
<1> SUFFICES ASSUME Connects' PROVE tasks' \subseteq handled' /\ \A k \in Long : PushOf(k)'
  BY DEF PushInv
<1>0. TypeOK /\ ClosesExact BY DEF IInv
<1>1. Connects
  BY DEF Next, UserNext, RuntimeNext, LinkNext, ServerNext, Connects, Call, CallThread, Close, CloseThrows,
         Issue, Start, StartThrows, Refuse, Resume, Timeout, TimeoutThread, Expire, HandleMessage, Heartbeat,
         Connected, ConnectFails, Lose, HandlerPush, HandlerEnds, Serve, Forward
<1>2. JavaScript BY <1>1 DEF Connects, JavaScript
<1>3. tasks \subseteq handled BY <1>1 DEF PushInv
<1>4. CASE HandleMessage BY <1>1, <1>3, <1>4, HandleStep DEF HandleMessage, serverVars
<1>5. CASE Serve
  <2> DEFINE f == Head(toServer)
  <2>1. f \in ServerFrames /\ pushes \in Seq(PushFrames) BY <1>0, <1>5 DEF Serve, TypeOK
  <2>2. /\ UNCHANGED <<call, socket, pushHandlers, received, pushed>>
        /\ (\E ok \in BOOLEAN : ServeRequest(f, ok)) \/ ServeClose(f) \/ ServeBeat(f)
    BY <1>5 DEF Serve, clientVars, socketVars
  <2>3. CASE \E ok \in BOOLEAN : ServeRequest(f, ok)
    <3>1. \A k \in Long : PushOf(k)' /\ tasks' \subseteq handled' BY <1>1, <1>5, <2>3, RequestStep
    <3>2. CASE Long = {} BY <1>3, <2>3, <3>2 DEF ServeRequest
    <3> QED BY <3>1, <3>2
  <2>4. ASSUME NEW z \in Seq(PushFrames), pushes' = pushes \o z,
               \A i \in DOMAIN z : \E k \in Long : z[i] = Push(k, 0),
               UNCHANGED <<toClient, handled, tasks>>
        PROVE  tasks' \subseteq handled' /\ \A k \in Long : PushOf(k)'
    <3>1. z \in Seq(ClientFrames)
      <4>1. PushFrames \subseteq ClientFrames BY FrameTypes
      <4> QED BY <4>1, SeqMonotonic
    <3>2. \A k \in Long, i \in DOMAIN z : ~IsMessage(k, z[i]) BY <2>4 DEF IsMessage, Push
    <3> QED BY <1>1, <1>3, <2>2, <2>4, <3>1, <3>2, EmptyStep
  <2>5. CASE ServeClose(f)
    <3>1. f.conn \in Long /\ UNCHANGED <<toClient, handled, tasks>>
      BY <2>1, <2>5, ServerFrameTypes DEF ServeClose
    <3> DEFINE z == IF f.conn \in connections THEN <<Push(f.conn, 0)>> ELSE <<>>
    <3>2. z \in Seq(PushFrames) /\ \A i \in DOMAIN z : \E k \in Long : z[i] = Push(k, 0)
      BY <3>1, FrameTypes
    <3>3. pushes' = pushes \o z
      <4>1. Push(f.conn, 0) \in PushFrames BY <3>1, FrameTypes
      <4>2. CASE f.conn \in connections BY <2>1, <2>5, <4>1, <4>2 DEF ServeClose
      <4>3. CASE f.conn \notin connections BY <2>1, <2>5, <4>3 DEF ServeClose
      <4> QED BY <4>2, <4>3
    <3> HIDE DEF z
    <3> QED BY <2>4, <3>1, <3>2, <3>3
  <2>6. CASE ServeBeat(f)
    <3>1. connections \ f.conns \in SUBSET Long /\ IsFiniteSet(connections \ f.conns)
      BY <1>0, FS_Subset DEF TypeOK, ClosesExact
    <3>2. PICK s \in ClosesOf(connections \ f.conns) : pushes' = pushes \o s
      BY <2>6 DEF ServeBeat
    <3>3. s \in Seq(PushFrames) /\ \A i \in DOMAIN s : \E k \in connections \ f.conns : s[i] = Push(k, 0)
      BY <3>1, ClosesType
    <3>4. UNCHANGED <<toClient, handled, tasks>> BY <2>6 DEF ServeBeat
    <3> QED BY <2>4, <3>1, <3>2, <3>3, <3>4
  <2> QED BY <2>2, <2>3, <2>5, <2>6
<1>6. ASSUME NEW h \in Long, HandlerPush(h) PROVE tasks' \subseteq handled' /\ \A k \in Long : PushOf(k)'
  BY <1>1, <1>3, <1>6, PushStep DEF HandlerPush
<1>7. CASE Forward BY <1>1, <1>3, <1>7, ForwardStep DEF Forward, serverVars
<1>8. ASSUME \/ Connected \/ Heartbeat
             \/ \E c \in Calls : Call(c) \/ Issue(c) \/ Refuse(c) \/ Resume(c)
             \/ \E t \in timers : Timeout(t)
             \/ \E h \in Long : Close(h) \/ HandlerEnds(h)
      PROVE  tasks' \subseteq handled' /\ \A k \in Long : PushOf(k)'
  <2>1. \A k \in Long : PushOf(k)' BY <1>1, <1>8, StillSteps
  <2>2. tasks' \subseteq tasks /\ handled' = handled
    BY <1>8 DEF Connected, Heartbeat, Call, Issue, Start, Refuse, Resume, Timeout, Close, HandlerEnds,
                serverVars
  <2> QED BY <1>3, <2>1, <2>2
<1>9. CASE ConnectFails \/ \E error \in BOOLEAN : Lose(error)
  BY <1>9 DEF ConnectFails, Lose, Connects
<1>10. /\ \A c : ~CallThread(c)
       /\ \A t : ~TimeoutThread(t)
       /\ \A h : ~Expire(h) /\ ~CloseThrows(h)
  BY <1>2 DEF CallThread, TimeoutThread, Expire, CloseThrows, WriteThrows
<1> QED BY <1>4, <1>5, <1>6, <1>7, <1>8, <1>9, <1>10
           DEF Next, UserNext, RuntimeNext, LinkNext, ServerNext

LEMMA InitPush == ASSUME Init PROVE PushInv
<1>1. Way = <<>> BY DEF Init, Way
<1>2. ASSUME NEW k \in Long PROVE PushOf(k)
  <2>1. k \in Calls BY ClientAssumption
  <2>2. Stream(k) = <<>> /\ pushed[k] = 0
    <3>1. News(k, <<>>) = <<>> BY DEF News
    <3> QED BY <1>1, <3>1 DEF Init, Stream
  <2>3. Counts(<<>>, 0) BY DEF Counts
  <2> QED BY <1>1, <2>1, <2>2, <2>3 DEF PushOf, Init
<1> QED BY <1>2 DEF PushInv, Init

LEMMA StutterPush == ASSUME IInv, PushInv, UNCHANGED vars PROVE PushInv'
<1>1. UNCHANGED <<runtime, link, call, socket, pushHandlers, received, toClient, pushes, pushed,
                  handled, tasks>>
  BY DEF vars, clientVars, socketVars, serverVars
<1>2. ASSUME NEW k \in Long, PushOf(k), tasks \subseteq handled PROVE PushOf(k)'
  BY <1>1, <1>2, StillStep DEF PushOf, Gets
<1> QED BY <1>1, <1>2 DEF PushInv, Connects

(* Over a browser's WebSocket no message of a handler is lost, doubled or  *)
(* reordered, from before the client has a Socket for it until that is     *)
(* closed: neither on the two ways the server has for a reply and for a    *)
(* message, nor between the reply and the entry in _pushHandlers           *)
(* (ts.rs:1394-1405 and 2540-2592, ws.rs:229-440).                         *)
THEOREM NoPushIsLost == Spec => []NoPushLost
<1>1. Init => PushInv BY InitPush
<1>2. IInv /\ PushInv /\ [Next]_vars => PushInv' BY PushInvStep, StutterPush
<1>3. IInv /\ PushInv => NoPushLost
  BY DEF NoPushLost, PushInv, PushOf, Connects, Gets, IInv
<1> QED BY <1>1, <1>2, <1>3, Inductive, PTL DEF Spec
=============================================================================

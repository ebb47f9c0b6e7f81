---------------------------- MODULE LongConn_proofs ----------------------------
(***************************************************************************)
(* An inductive invariant of LongConn, for all values of its constants, and*)
(* what it proves: the safety properties, and that LongConn implements     *)
(* SessionContract.                                                        *)
(***************************************************************************)
EXTENDS LongConn, SequenceTheorems, TLAPS

(* The close frame of s is in the hands of the main loop.                  *)
Closing(s) == target = s /\ main \in {"close", "reapClose"}

(* Number of the last message of s that entered the push channel, or would *)
(* have if there were one.                                                 *)
Queued(s) == sent[s] - outq[s] - (IF pump[s] = "push" THEN 1 ELSE 0)

(* A session is known to every part of the server once it is opened.       *)
OpenInv ==
  \A s \in Sessions :
    /\ s <= opens => pump[s] # "none" /\ sid[s] \in Ids
    /\ s > opens => /\ pump[s] = "none" /\ sid[s] = 0 /\ closes[s] = 0
                    /\ sent[s] = 0 /\ outq[s] = 0 /\ inq[s] = 0

(* What the table holds, and what the main loop has in hand.               *)
TableInv ==
  /\ \A id \in Ids : conns[id] # 0 =>
       /\ conns[id] <= opens
       /\ sid[conns[id]] = id
       /\ pump[conns[id]] # "done"
  /\ target <= opens
  /\ main \in {"opening", "deliver", "close", "reapClose"} => target # 0
  /\ main = "opening" => pump[target] = "opening"
  /\ \A s \in Sessions : pump[s] = "opening" => main = "opening" /\ target = s
  /\ main \in {"reap", "reapClose"} => \A id \in stale : conns[id] # 0

(* A close frame was or will be queued only for a session without entry.   *)
CloseInv ==
  \A s \in Sessions :
    /\ closes[s] <= 1
    /\ closes[s] = 1 => ~HasEntry(s) /\ ~Closing(s)
    /\ Closing(s) => ~HasEntry(s)

(* The way of a message: from_handler channel, pump, push channel, socket. *)
PipeInv ==
  \A s \in Sessions :
    /\ 0 <= Queued(s) /\ got[s] <= Queued(s)
    /\ pump[s] \in {"none", "opening", "start", "cleanup", "done"} => outq[s] = 0
    /\ pump[s] \in {"none", "opening", "start"} => sent[s] = 0
    /\ Disconnected(s) => ~tx[s]

(* The push channel holds messages between the last one on the socket and  *)
(* the last one queued, ...                                                *)
FifoBounds ==
  \A i \in 1 .. Len(pushq) : pushq[i].n # 0 =>
    got[pushq[i].s] < pushq[i].n /\ pushq[i].n <= Queued(pushq[i].s)

(* ... in increasing order for each session, ...                           *)
FifoSorted ==
  \A i, j \in 1 .. Len(pushq) :
    i < j /\ pushq[i].s = pushq[j].s /\ pushq[i].n # 0 /\ pushq[j].n # 0
      => pushq[i].n < pushq[j].n

(* ... and all of them.                                                    *)
FifoComplete ==
  \A s \in Sessions : \A n \in 1 .. MaxSends :
    got[s] < n /\ n <= Queued(s) =>
      \E i \in 1 .. Len(pushq) : pushq[i] = [s |-> s, n |-> n]

FifoInv == main # "done" => FifoBounds /\ FifoSorted /\ FifoComplete

(* Until the counter of conn_ids wraps around, session s has conn_id s.    *)
NoReuseInv ==
  opens <= MaxId =>
    /\ nextId = IF opens = MaxId THEN 1 ELSE opens + 1
    /\ \A s \in Sessions : s <= opens => sid[s] = s
    /\ \A s \in Sessions :
         pump[s] \in {"opening", "start", "drain", "push"} /\ ~HasEntry(s) =>
           closes[s] = 1 \/ Closing(s)

IInv ==
  /\ TypeOK /\ OpenInv /\ TableInv /\ CloseInv
  /\ PipeInv /\ FifoInv /\ NoReuseInv


-----------------------------------------------------------------------------
(* What the table holds is a session.                                      *)
LEMMA ConnsType ==
  ASSUME TypeOK, NEW id \in Ids, conns[id] # 0
  PROVE  conns[id] \in Sessions /\ conns[id] \in Nat
<1>1. conns[id] \in 0 .. MaxOpens
  BY DEF TypeOK
<1> QED
  BY <1>1, LongConnAssumption DEF Sessions

(* What the main loop has in hand is a session that was opened.            *)
LEMMA SessionIds ==
  ASSUME TypeOK
  PROVE  \A r \in Sessions : r \in Nat \ {0} /\ (sid[r] # 0 => sid[r] \in Ids)
<1>1. sid \in [Sessions -> 0 .. MaxId]
  BY DEF TypeOK
<1> QED
  BY <1>1, LongConnAssumption DEF Sessions, Ids

LEMMA TargetType ==
  ASSUME TypeOK, TableInv, main \in {"opening", "deliver", "close", "reapClose"}
  PROVE  target \in Sessions /\ target <= opens /\ opens \in Nat
<1>1. target \in 0 .. MaxOpens /\ opens \in 0 .. MaxOpens
  BY DEF TypeOK
<1>2. target # 0 /\ target <= opens
  BY DEF TableInv
<1> QED
  BY <1>1, <1>2, LongConnAssumption DEF Sessions

(* The effect of opening a long connection, pointwise.                     *)
LEMMA OpenEffect ==
  ASSUME TypeOK, ReadOpen
  PROVE  /\ opens \in Nat /\ opens + 1 \in Sessions /\ opens' = opens + 1
         /\ nextId \in Ids /\ nextId \in Nat \ {0}
         /\ main = "select" /\ main' = "opening" /\ target' = opens + 1
         /\ \A id \in Ids : conns'[id] = IF id = nextId THEN opens + 1 ELSE conns[id]
         /\ \A r \in Sessions :
              /\ pump'[r] = IF r = opens + 1 THEN "opening" ELSE pump[r]
              /\ sid'[r] = IF r = opens + 1 THEN nextId ELSE sid[r]
<1>1. opens \in 0 .. MaxOpens /\ opens < MaxOpens /\ nextId \in Ids
  BY DEF TypeOK, ReadOpen
<1>2. opens + 1 \in Sessions /\ opens \in Nat /\ nextId \in Nat \ {0}
  BY <1>1, LongConnAssumption DEF Sessions, Ids
<1>3. /\ conns \in [Ids -> 0 .. MaxOpens]
      /\ pump \in [Sessions -> PumpStates] /\ sid \in [Sessions -> 0 .. MaxId]
  BY DEF TypeOK
<1> QED
  BY <1>1, <1>2, <1>3 DEF ReadOpen, Reading

(* The effect of the end of the opening, pointwise.                        *)
LEMMA OpenedEffect ==
  ASSUME TypeOK, TableInv, Opened
  PROVE  /\ target \in Sessions /\ target <= opens /\ pump[target] = "opening"
         /\ main = "opening" /\ main' = "select" /\ target' = 0
         /\ pump' = [pump EXCEPT ![target] = "start"]
         /\ \A r \in Sessions : pump'[r] = IF r = target THEN "start" ELSE pump[r]
         /\ UNCHANGED <<peer, tableVars, stale, pushq, handlerVars, got, closes>>
<1>1. target \in Sessions /\ target <= opens /\ pump[target] = "opening"
  BY TargetType DEF Opened, TableInv
<1>2. pump \in [Sessions -> PumpStates]
  BY DEF TypeOK
<1> QED
  BY <1>1, <1>2 DEF Opened

(* A frame that is being written is the first of pushq.                    *)
LEMMA WriteFrame ==
  ASSUME TypeOK, Write
  PROVE  /\ pushq \in Seq(Frames) /\ pushq # <<>> /\ Len(pushq) \in Nat \ {0}
         /\ Len(pushq) <= PushCap + 1
<1>1. pushq \in Seq(Frames) /\ Len(pushq) - 1 \in 0 .. PushCap
  BY DEF TypeOK, Write, Queue
<1> QED
  BY <1>1, LongConnAssumption

(* What leaves the push channel and the place of the main loop alone, or   *)
(* only moves the main loop between places where it writes no push frame,  *)
(* leaves the channel as long as it was.                                   *)
LEMMA SameQueue ==
  ASSUME TypeOK, pushq' = pushq, (main = "write") <=> (main' = "write")
  PROVE  pushq' \in Seq(Frames) /\ Queue' \in 0 .. PushCap
<1>1. pushq \in Seq(Frames) /\ Queue \in 0 .. PushCap /\ Queue' = Queue
  BY DEF TypeOK, Queue
<1> QED
  BY <1>1

-----------------------------------------------------------------------------
(* Every action preserves each conjunct of the invariant.                  *)

(* The types.                                                              *)
LEMMA TypeStep ==
  ASSUME TypeOK, OpenInv, TableInv, PipeInv, Next PROVE TypeOK'
<1>1. CASE ReadOpen
  <2>1. opens + 1 \in Sessions /\ opens + 1 \in 0 .. MaxOpens
    BY <1>1, LongConnAssumption DEF ReadOpen, Sessions, TypeOK
  <2>2. nextId \in 0 .. MaxId /\ NextConnId(nextId) \in Ids
    BY LongConnAssumption DEF TypeOK, Ids, NextConnId
  <2>3. conns' \in [Ids -> 0 .. MaxOpens] /\ sid' \in [Sessions -> 0 .. MaxId]
    BY <1>1, <2>1, <2>2 DEF ReadOpen, TypeOK
  <2>4. pushq' \in Seq(Frames) /\ Queue' \in 0 .. PushCap
    BY <1>1, SameQueue, OpenEffect DEF ReadOpen
  <2> QED
    BY <1>1, <2>1, <2>2, <2>3, <2>4
       DEF ReadOpen, TypeOK, MainStates, PumpStates
<1>2. CASE ReadCall
  BY <1>2, SameQueue
     DEF ReadCall, Reading, TypeOK, MainStates, PumpStates, tableVars, handlerVars
<1>3. ASSUME NEW id \in Ids, ReadPush(id) PROVE TypeOK'
  <2>1. pushq' \in Seq(Frames) /\ Queue' \in 0 .. PushCap
    BY <1>3, SameQueue DEF ReadPush, Reading
  <2> QED
    BY <1>3, <2>1
       DEF ReadPush, TypeOK, MainStates, PumpStates, tableVars, handlerVars
<1>4. ASSUME NEW id \in Ids, ReadClose(id) PROVE TypeOK'
  <2>1. conns' \in [Ids -> 0 .. MaxOpens] /\ target' \in 0 .. MaxOpens
    BY <1>4, LongConnAssumption, Z3 DEF ReadClose, TypeOK, Remove
  <2>2. pushq' \in Seq(Frames) /\ Queue' \in 0 .. PushCap
    BY <1>4, SameQueue DEF ReadClose, Reading
  <2> QED
    BY <1>4, <2>1, <2>2
       DEF ReadClose, TypeOK, MainStates, PumpStates, handlerVars, Remove
<1>5. ASSUME NEW alive \in SUBSET Ids, ReadHeartbeat(alive) PROVE TypeOK'
  <2>1. pushq' \in Seq(Frames) /\ Queue' \in 0 .. PushCap
    BY <1>5, SameQueue DEF ReadHeartbeat, Reading
  <2> QED
    BY <1>5, <2>1
     DEF ReadHeartbeat, TypeOK, MainStates, PumpStates, tableVars, handlerVars
<1>6. CASE Deliver
  <2>1. target \in Sessions /\ inq \in [Sessions -> 0 .. Cap] /\ 0 \in 0 .. MaxOpens
    BY <1>6, TargetType, LongConnAssumption DEF Deliver, TypeOK
  <2>2. inq' \in [Sessions -> 0 .. Cap]
    BY <1>6, <2>1, LongConnAssumption DEF Deliver
  <2>3. pushq' \in Seq(Frames) /\ Queue' \in 0 .. PushCap
    BY <1>6, SameQueue DEF Deliver
  <2> QED
    BY <1>6, <2>1, <2>2, <2>3 DEF Deliver, TypeOK, MainStates, PumpStates, tableVars
<1>7. CASE QueueClose
  <2>1. target \in Sessions /\ closes \in [Sessions -> Nat] /\ 0 \in 0 .. MaxOpens
    <3>1. main \in {"close", "reapClose"}
      BY <1>7 DEF QueueClose
    <3>2. target \in Sessions
      BY <3>1, TargetType
    <3> QED
      BY <3>2, LongConnAssumption DEF TypeOK
  <2>2. [s |-> target, n |-> 0] \in Frames
    BY <2>1, LongConnAssumption DEF Frames
  <2>3. pushq \in Seq(Frames) /\ Len(pushq) < PushCap /\ main' # "write"
    BY <1>7 DEF QueueClose, TypeOK, Push, Queue
  <2>4. pushq' \in Seq(Frames) /\ Queue' \in 0 .. PushCap
    BY <1>7, <2>2, <2>3, AppendProperties, LongConnAssumption
       DEF QueueClose, Push, Queue
  <2>5. closes' \in [Sessions -> Nat]
    BY <1>7, <2>1 DEF QueueClose, Push
  <2> QED
    BY <1>7, <2>1, <2>4, <2>5
       DEF QueueClose, TypeOK, MainStates, PumpStates, tableVars, handlerVars,
           Push
<1>8. ASSUME NEW id \in Ids, Reap(id) PROVE TypeOK'
  <2>1. conns' \in [Ids -> 0 .. MaxOpens] /\ target' \in 0 .. MaxOpens
    BY <1>8, LongConnAssumption, Z3 DEF Reap, TypeOK, Remove
  <2>2. pushq' \in Seq(Frames) /\ Queue' \in 0 .. PushCap
    BY <1>8, SameQueue DEF Reap
  <2> QED
    BY <1>8, <2>1, <2>2 DEF Reap, TypeOK, MainStates, PumpStates, handlerVars, Remove
<1>9. CASE ReapEnd
  BY <1>9, SameQueue DEF ReapEnd, TypeOK, MainStates, PumpStates, tableVars, handlerVars
<1>10. CASE CallReturn
  BY <1>10, SameQueue
     DEF CallReturn, TypeOK, MainStates, PumpStates, tableVars, handlerVars
<1>11. CASE Stop
  <2>1. pushq' \in Seq(Frames) /\ Queue' \in 0 .. PushCap
    BY <1>11, LongConnAssumption DEF Stop, Queue
  <2> QED
    BY <1>11, <2>1
       DEF Stop, TypeOK, MainStates, PumpStates, tableVars, handlerVars
<1>12. CASE Forward
  <2>1. pushq' = pushq /\ pushq \in Seq(Frames) /\ Len(pushq) \in 1 .. PushCap
    BY <1>12 DEF Forward, TypeOK, Queue
  <2>2. Queue' \in 0 .. PushCap
    BY <1>12, <2>1, LongConnAssumption DEF Forward, Queue
  <2> QED
    BY <1>12, <2>1, <2>2
       DEF Forward, TypeOK, MainStates, PumpStates, tableVars, handlerVars
<1>23. CASE Write
  <2>1. Head(pushq) \in Frames /\ pushq' \in Seq(Frames) /\ Len(pushq') = Len(pushq) - 1
    BY <1>23, WriteFrame, HeadTailProperties DEF Write
  <2>2. Queue' \in 0 .. PushCap
    BY <1>23, <2>1, WriteFrame, LongConnAssumption DEF Write, Queue
  <2>3. got' \in [Sessions -> 0 .. MaxSends]
    BY <1>23, <2>1 DEF Write, Frames, TypeOK
  <2> QED
    BY <1>23, <2>1, <2>2, <2>3
       DEF Write, TypeOK, MainStates, PumpStates, tableVars, handlerVars
<1>24. CASE Opened
  <2>1. pump' \in [Sessions -> PumpStates] /\ 0 \in 0 .. MaxOpens
    <3>1. pump \in [Sessions -> PumpStates] /\ "start" \in PumpStates
      BY DEF TypeOK, PumpStates
    <3>2. pump' = [pump EXCEPT ![target] = "start"]
      BY <1>24, OpenedEffect
    <3>3. pump' \in [Sessions -> PumpStates]
      BY <3>1, <3>2
    <3> QED
      BY <3>3, LongConnAssumption
  <2>2. pushq' \in Seq(Frames) /\ Queue' \in 0 .. PushCap
    BY <1>24, SameQueue, OpenedEffect
  <2> QED
    BY <1>24, <2>1, <2>2 DEF Opened, TypeOK, MainStates, tableVars, handlerVars
<1>25. CASE ReadBad \/ Replied
  <2>1. pushq' \in Seq(Frames) /\ Queue' \in 0 .. PushCap
    BY <1>25, SameQueue DEF ReadBad, Replied, Reading
  <2> QED
    BY <1>25, <2>1
       DEF ReadBad, Replied, TypeOK, MainStates, PumpStates, tableVars,
           handlerVars
<1>13. ASSUME NEW s \in Sessions, PumpStart(s) PROVE TypeOK'
  <2>1. inq \in [Sessions -> 0 .. Cap]
    BY DEF TypeOK
  <2>2. inq' \in [Sessions -> 0 .. Cap]
    BY <1>13, <2>1, LongConnAssumption DEF PumpStart
  <2>3. pushq' \in Seq(Frames) /\ Queue' \in 0 .. PushCap
    BY <1>13, SameQueue DEF PumpStart, loopVars
  <2> QED
    BY <1>13, <2>2, <2>3
       DEF PumpStart, TypeOK, MainStates, PumpStates, loopVars, tableVars
<1>14. ASSUME NEW s \in Sessions, PumpTake(s) PROVE TypeOK'
  <2>1. outq \in [Sessions -> 0 .. Cap]
    BY DEF TypeOK
  <2>2. outq' \in [Sessions -> 0 .. Cap]
    BY <1>14, <2>1, LongConnAssumption DEF PumpTake
  <2>3. pushq' \in Seq(Frames) /\ Queue' \in 0 .. PushCap
    BY <1>14, SameQueue DEF PumpTake, loopVars
  <2> QED
    BY <1>14, <2>2, <2>3
       DEF PumpTake, TypeOK, MainStates, PumpStates, loopVars, tableVars
<1>15. ASSUME NEW s \in Sessions, PumpPush(s) PROVE TypeOK'
  <2>1. sent[s] \in 0 .. MaxSends /\ outq[s] \in 0 .. Cap /\ 0 <= sent[s] - outq[s] - 1
    BY <1>15 DEF PumpPush, PipeInv, Queued, TypeOK, Push
  <2>2. [s |-> s, n |-> sent[s] - outq[s]] \in Frames
    BY <2>1, LongConnAssumption DEF Frames
  <2>3. pushq \in Seq(Frames) /\ Len(pushq) \in Nat /\ Queue \in 0 .. PushCap
        /\ main' = main
    BY <1>15 DEF TypeOK, PumpPush, loopVars
  <2>4. pushq' \in Seq(Frames) /\ Queue' \in 0 .. PushCap
    <3>1. CASE pushq' = pushq
      BY <2>3, <3>1, SameQueue
    <3>2. CASE pushq' = Append(pushq, [s |-> s, n |-> sent[s] - outq[s]]) /\ Queue < PushCap
      <4>1. pushq' \in Seq(Frames) /\ Len(pushq') = Len(pushq) + 1
        BY <2>2, <2>3, <3>2, AppendProperties
      <4>2. Queue' = Queue + 1
        BY <2>3, <4>1 DEF Queue
      <4> QED
        BY <2>3, <3>2, <4>1, <4>2, LongConnAssumption
    <3> QED
      BY <1>15, <3>1, <3>2 DEF PumpPush, Push
  <2> QED
    BY <1>15, <2>4
       DEF PumpPush, TypeOK, MainStates, PumpStates, loopVars, tableVars,
           handlerVars, Push
<1>16. ASSUME NEW s \in Sessions, PumpEnd(s) PROVE TypeOK'
  <2>1. pushq' \in Seq(Frames) /\ Queue' \in 0 .. PushCap
    BY <1>16, SameQueue DEF PumpEnd, loopVars
  <2> QED
    BY <1>16, <2>1
     DEF PumpEnd, TypeOK, MainStates, PumpStates, loopVars, tableVars,
         handlerVars, Drained
<1>17. ASSUME NEW s \in Sessions, PumpCleanup(s) PROVE TypeOK'
  <2>1. conns \in [Ids -> 0 .. MaxOpens] /\ 0 \in 0 .. MaxOpens
    BY LongConnAssumption DEF TypeOK
  <2>2. conns' \in [Ids -> 0 .. MaxOpens]
    BY <1>17, <2>1 DEF PumpCleanup, Remove
  <2>3. pushq' \in Seq(Frames) /\ Queue' \in 0 .. PushCap
    BY <1>17, SameQueue DEF PumpCleanup, loopVars
  <2> QED
    BY <1>17, <2>2, <2>3
       DEF PumpCleanup, TypeOK, MainStates, PumpStates, loopVars, handlerVars,
           Remove
<1>18. ASSUME NEW s \in Sessions, HandlerSend(s) PROVE TypeOK'
  <2>1. outq \in [Sessions -> 0 .. Cap] /\ sent \in [Sessions -> 0 .. MaxSends]
    BY DEF TypeOK
  <2>2. outq[s] + 1 \in 0 .. Cap /\ sent[s] + 1 \in 0 .. MaxSends
    BY <1>18, <2>1, LongConnAssumption DEF HandlerSend
  <2>3. outq' \in [Sessions -> 0 .. Cap] /\ sent' \in [Sessions -> 0 .. MaxSends]
    BY <1>18, <2>1, <2>2 DEF HandlerSend
  <2>4. pushq' \in Seq(Frames) /\ Queue' \in 0 .. PushCap
    BY <1>18, SameQueue DEF HandlerSend, loopVars
  <2> QED
    BY <1>18, <2>3, <2>4
       DEF HandlerSend, TypeOK, MainStates, PumpStates, loopVars, tableVars
<1>19. ASSUME NEW s \in Sessions, HandlerRecv(s) PROVE TypeOK'
  <2>1. inq \in [Sessions -> 0 .. Cap]
    BY DEF TypeOK
  <2>2. inq' \in [Sessions -> 0 .. Cap]
    BY <1>19, <2>1, LongConnAssumption DEF HandlerRecv
  <2>3. pushq' \in Seq(Frames) /\ Queue' \in 0 .. PushCap
    BY <1>19, SameQueue DEF HandlerRecv, loopVars
  <2> QED
    BY <1>19, <2>2, <2>3
       DEF HandlerRecv, TypeOK, MainStates, PumpStates, loopVars, tableVars
<1>20. ASSUME NEW s \in Sessions, DropReceiver(s) PROVE TypeOK'
  <2>1. inq \in [Sessions -> 0 .. Cap]
    BY DEF TypeOK
  <2>2. inq' \in [Sessions -> 0 .. Cap]
    BY <1>20, <2>1, LongConnAssumption DEF DropReceiver
  <2>3. pushq' \in Seq(Frames) /\ Queue' \in 0 .. PushCap
    BY <1>20, SameQueue DEF DropReceiver, loopVars
  <2> QED
    BY <1>20, <2>2, <2>3
       DEF DropReceiver, TypeOK, MainStates, PumpStates, loopVars, tableVars
<1>21. ASSUME NEW s \in Sessions, DropSender(s) PROVE TypeOK'
  <2>1. pushq' \in Seq(Frames) /\ Queue' \in 0 .. PushCap
    BY <1>21, SameQueue DEF DropSender, loopVars
  <2> QED
    BY <1>21, <2>1 DEF DropSender, TypeOK, MainStates, PumpStates, loopVars, tableVars
<1>22. CASE PeerDrops
  <2>1. pushq' \in Seq(Frames) /\ Queue' \in 0 .. PushCap
    BY <1>22, SameQueue DEF PeerDrops, loopVars
  <2> QED
    BY <1>22, <2>1
     DEF PeerDrops, TypeOK, MainStates, PumpStates, loopVars, tableVars,
         handlerVars
<1> QED
  BY <1>1, <1>2, <1>3, <1>4, <1>5, <1>6, <1>7, <1>8, <1>9, <1>10, <1>11,
     <1>12, <1>13, <1>14, <1>15, <1>16, <1>17, <1>18, <1>19, <1>20, <1>21,
     <1>22, <1>23, <1>24, <1>25
     DEF Next, MainLoop, ReadFrame, Pump, Handler, SocketEnds, CallPanics,
         WriteFails

(* What a session is before and after it is opened.                        *)
LEMMA OpenStep ==
  ASSUME TypeOK, OpenInv, TableInv, Next PROVE OpenInv'
<1>0. ASSUME UNCHANGED <<opens, pump, sid, closes, sent, outq, inq>> PROVE OpenInv'
  BY <1>0 DEF OpenInv
<1>1. CASE ReadOpen
  <2>1. UNCHANGED <<closes, sent, outq, inq>>
    BY <1>1 DEF ReadOpen
  <2>2. \A r \in Sessions : r \in Nat
    BY DEF Sessions
  <2> QED
    BY <1>1, <2>1, <2>2, OpenEffect DEF OpenInv
<1>2. CASE \/ ReadCall \/ ReadBad \/ Replied \/ ReapEnd \/ CallReturn
           \/ Stop \/ Forward \/ Write \/ PeerDrops
  BY <1>2, <1>0
     DEF ReadCall, ReadBad, Replied, ReapEnd, CallReturn, Stop, Forward, Write,
         PeerDrops, loopVars, tableVars, handlerVars
<1>3. ASSUME NEW id \in Ids, ReadPush(id) \/ ReadClose(id) \/ Reap(id)
      PROVE  OpenInv'
  BY <1>3, <1>0 DEF ReadPush, ReadClose, Reap, tableVars, handlerVars, Remove
<1>4. ASSUME NEW alive \in SUBSET Ids, ReadHeartbeat(alive) PROVE OpenInv'
  BY <1>4, <1>0 DEF ReadHeartbeat, tableVars, handlerVars
<1>5. CASE Deliver
  <2>1. target \in Sessions /\ target <= opens /\ opens \in Nat
    BY <1>5, TargetType DEF Deliver
  <2>2. \A r \in Sessions : r # target => inq'[r] = inq[r]
    BY <1>5 DEF Deliver, TypeOK
  <2> QED
    BY <1>5, <2>1, <2>2 DEF Deliver, OpenInv, tableVars
<1>6. CASE QueueClose
  <2>1. target \in Sessions /\ target <= opens /\ opens \in Nat
    BY <1>6, TargetType DEF QueueClose, Push
  <2>2. \A r \in Sessions : r # target => closes'[r] = closes[r]
    BY <1>6 DEF QueueClose, TypeOK, Push
  <2> QED
    BY <1>6, <2>1, <2>2 DEF QueueClose, OpenInv, tableVars, handlerVars, Push
<1>7. ASSUME NEW s \in Sessions, PumpStart(s) PROVE OpenInv'
  <2>1. \A r \in Sessions : /\ r # s => pump'[r] = pump[r] /\ inq'[r] = inq[r]
                            /\ pump'[s] # "none"
    BY <1>7 DEF PumpStart, TypeOK
  <2> QED
    BY <1>7, <2>1 DEF PumpStart, OpenInv, loopVars, tableVars
<1>8. ASSUME NEW s \in Sessions, PumpTake(s) PROVE OpenInv'
  BY <1>8 DEF PumpTake, loopVars, tableVars, OpenInv
<1>9. ASSUME NEW s \in Sessions, PumpPush(s) PROVE OpenInv'
  BY <1>9 DEF PumpPush, loopVars, tableVars, handlerVars, OpenInv, Push
<1>10. ASSUME NEW s \in Sessions, PumpEnd(s) PROVE OpenInv'
  BY <1>10 DEF PumpEnd, loopVars, tableVars, handlerVars, OpenInv, Drained
<1>11. ASSUME NEW s \in Sessions, PumpCleanup(s) PROVE OpenInv'
  BY <1>11 DEF PumpCleanup, loopVars, handlerVars, OpenInv, Remove
<1>12. ASSUME NEW s \in Sessions, HandlerSend(s) PROVE OpenInv'
  <2>1. \A r \in Sessions : r # s => outq'[r] = outq[r] /\ sent'[r] = sent[r]
    BY <1>12 DEF HandlerSend, TypeOK
  <2>2. pump[s] # "none"
    BY <1>12 DEF HandlerSend, Started
  <2> QED
    BY <1>12, <2>1, <2>2 DEF HandlerSend, OpenInv, tableVars
<1>13. ASSUME NEW s \in Sessions, HandlerRecv(s) PROVE OpenInv'
  BY <1>13 DEF HandlerRecv, loopVars, tableVars, OpenInv
<1>14. ASSUME NEW s \in Sessions, DropReceiver(s) PROVE OpenInv'
  BY <1>14 DEF DropReceiver, loopVars, tableVars, OpenInv
<1>15. ASSUME NEW s \in Sessions, DropSender(s) PROVE OpenInv'
  BY <1>15, <1>0 DEF DropSender, loopVars, tableVars
<1>16. CASE Opened
  <2>1. UNCHANGED <<opens, sid, closes, sent, outq, inq>>
    BY <1>16 DEF Opened, tableVars, handlerVars
  <2>2. \A r \in Sessions : pump'[r] = "none" <=> pump[r] = "none"
    BY <1>16, OpenedEffect
  <2> QED
    BY <2>1, <2>2 DEF OpenInv
<1> QED
  BY <1>16, <1>1, <1>2, <1>3, <1>4, <1>5, <1>6, <1>7, <1>8, <1>9, <1>10, <1>11,
     <1>12, <1>13, <1>14, <1>15
     DEF Next, MainLoop, ReadFrame, Pump, Handler, SocketEnds, CallPanics,
         WriteFails

(* The table and what the main loop has in hand.                           *)
LEMMA TableStep ==
  ASSUME TypeOK, OpenInv, TableInv, Next PROVE TableInv'
<1>0. ASSUME UNCHANGED <<conns, opens, sid, pump, main, target, stale>> PROVE TableInv'
  BY <1>0 DEF TableInv
<1>1. CASE ReadOpen
  <2>1. opens + 1 \in Nat \ {0} /\ main' = "opening" /\ target' = opens + 1
    BY <1>1, OpenEffect
  <2>2. \A id \in Ids : conns[id] # 0 => conns[id] \in Sessions /\ conns[id] \in Nat
    BY ConnsType
  <2> QED
    BY <2>1, <2>2, OpenEffect, <1>1 DEF TableInv
<1>2. CASE ReadCall \/ ReadBad \/ Replied
  BY <1>2 DEF ReadCall, ReadBad, Replied, Reading, tableVars, handlerVars, TableInv
<1>3. ASSUME NEW id \in Ids, ReadPush(id) PROVE TableInv'
  <2>1. UNCHANGED <<conns, opens, sid, pump>> /\ main = "select"
        /\ main' = "deliver" /\ target' = conns[id] /\ conns[id] # 0
    BY <1>3 DEF ReadPush, Reading, tableVars
  <2> QED
    BY <2>1 DEF TableInv
<1>4. ASSUME NEW id \in Ids, ReadClose(id) PROVE TableInv'
  <2>1. UNCHANGED <<opens, sid, pump>> /\ main = "select"
        /\ main' = "close" /\ target' = conns[id] /\ conns[id] # 0
    BY <1>4 DEF ReadClose, Reading
  <2>2. \A i \in Ids : conns'[i] = IF i = id THEN 0 ELSE conns[i]
    BY <1>4 DEF ReadClose, TypeOK, Remove
  <2> QED
    BY <2>1, <2>2 DEF TableInv
<1>5. ASSUME NEW alive \in SUBSET Ids, ReadHeartbeat(alive) PROVE TableInv'
  <2>1. UNCHANGED <<conns, opens, sid, pump, target>> /\ main = "select" /\ main' = "reap"
    BY <1>5 DEF ReadHeartbeat, Reading, tableVars
  <2>2. \A id \in stale' : conns[id] # 0
    BY <1>5 DEF ReadHeartbeat
  <2> QED
    BY <2>1, <2>2 DEF TableInv
<1>6. CASE Deliver
  <2>1. UNCHANGED <<conns, opens, sid, pump>> /\ main = "deliver"
        /\ main' = "select" /\ target' = 0
    BY <1>6 DEF Deliver, tableVars
  <2> QED
    BY <2>1 DEF TableInv, TypeOK
<1>7. CASE QueueClose
  <2>1. /\ UNCHANGED <<conns, opens, sid, pump, stale>>
        /\ main' = (IF main = "close" THEN "select" ELSE "reap")
        /\ main' \in {"select", "reap"} /\ target' = 0
    BY <1>7 DEF QueueClose, tableVars, Push
  <2>2. main \in {"close", "reapClose"} /\ opens \in Nat
    BY <1>7 DEF QueueClose, TypeOK, Push
  <2> QED
    BY <2>1, <2>2 DEF TableInv
<1>8. ASSUME NEW id \in Ids, Reap(id) PROVE TableInv'
  <2>1. \A i \in Ids : conns'[i] = IF i = id THEN 0 ELSE conns[i]
    BY <1>8 DEF Reap, TypeOK, Remove
  <2>2. /\ stale \subseteq Ids /\ stale' = stale \ {id} /\ id \in stale
        /\ UNCHANGED <<opens, sid, pump>>
        /\ main = "reap" /\ main' = "reapClose" /\ target' = conns[id]
    BY <1>8 DEF Reap, TypeOK, Remove
  <2> QED
    BY <2>1, <2>2 DEF TableInv
<1>9. CASE ReapEnd
  BY <1>9 DEF ReapEnd, tableVars, handlerVars, TableInv
<1>10. CASE CallReturn
  BY <1>10 DEF CallReturn, tableVars, handlerVars, TableInv
<1>11. CASE Stop /\ main \in {"select", "call", "write"}
  BY <1>11 DEF Stop, tableVars, handlerVars, TableInv
<1>12. CASE PeerDrops
  BY <1>12, <1>0 DEF PeerDrops, loopVars, tableVars, handlerVars
<1>19. CASE Forward \/ Write
  BY <1>19 DEF Forward, Write, tableVars, handlerVars, TableInv
<1>20. CASE Opened
  <2>1. UNCHANGED <<conns, opens, sid>> /\ main' = "select" /\ target' = 0 /\ opens \in Nat
    BY <1>20, OpenedEffect DEF Opened, tableVars, TypeOK
  <2>2. \A r \in Sessions : /\ pump'[r] # "done" \/ pump'[r] = pump[r]
                            /\ pump'[r] # "opening"
    BY <1>20, OpenedEffect DEF TableInv
  <2>3. \A id \in Ids : conns[id] # 0 => conns[id] \in Sessions
    BY ConnsType
  <2> QED
    BY <2>1, <2>2, <2>3 DEF TableInv
<1>13. ASSUME NEW s \in Sessions, PumpStart(s) PROVE TableInv'
  <2>1. UNCHANGED <<conns, opens, sid, main, target, stale>>
    BY <1>13 DEF PumpStart, tableVars, loopVars
  <2>2. \A r \in Sessions : \/ pump'[r] = pump[r]
                            \/ pump'[r] # "done" /\ pump[r] # "opening"
    BY <1>13 DEF PumpStart, TypeOK
  <2>3. \A id \in Ids : conns[id] # 0 => conns[id] \in Sessions
    BY ConnsType
  <2>4. \A r \in Sessions : pump'[r] = "opening" <=> pump[r] = "opening"
    BY <1>13 DEF PumpStart, TypeOK
  <2>5. main = "opening" => target \in Sessions
    BY TargetType
  <2> QED
    BY <2>1, <2>2, <2>3, <2>4, <2>5 DEF TableInv
<1>14. ASSUME NEW s \in Sessions, PumpTake(s) PROVE TableInv'
  BY <1>14 DEF PumpTake, loopVars, tableVars, TableInv
<1>15. ASSUME NEW s \in Sessions, PumpPush(s) PROVE TableInv'
  BY <1>15 DEF PumpPush, loopVars, tableVars, handlerVars, TableInv, Push
<1>16. ASSUME NEW s \in Sessions, PumpEnd(s) PROVE TableInv'
  BY <1>16 DEF PumpEnd, loopVars, tableVars, handlerVars, TableInv, Drained
<1>17. ASSUME NEW s \in Sessions, PumpCleanup(s) PROVE TableInv'
  <2>1. UNCHANGED <<opens, sid, main, target, stale>> /\ main \notin {"reap", "reapClose"}
    BY <1>17 DEF PumpCleanup, loopVars, Locked, Remove
  <2>2. \A r \in Sessions : r # s => pump'[r] = pump[r]
    BY <1>17 DEF PumpCleanup, TypeOK, Remove
  <2>3. \A id \in Ids : conns[id] # 0 => conns[id] \in Sessions
    BY ConnsType
  <2>4. \A id \in Ids : conns'[id] = IF id = sid[s] THEN 0 ELSE conns[id]
    BY <1>17 DEF PumpCleanup, TypeOK, Remove
  <2>5. \A r \in Sessions : pump'[r] = "opening" <=> pump[r] = "opening"
    BY <1>17 DEF PumpCleanup, TypeOK, Remove
  <2>6. main = "opening" => target \in Sessions
    BY TargetType
  <2> QED
    BY <2>1, <2>2, <2>3, <2>4, <2>5, <2>6 DEF TableInv
<1>18. ASSUME NEW s \in Sessions, \/ HandlerSend(s) \/ HandlerRecv(s)
                                  \/ DropReceiver(s) \/ DropSender(s)
       PROVE  TableInv'
  BY <1>18, <1>0
     DEF HandlerSend, HandlerRecv, DropReceiver, DropSender, loopVars,
         tableVars
<1> QED
  BY <1>19, <1>20, <1>1, <1>2, <1>3, <1>4, <1>5, <1>6, <1>7, <1>8, <1>9, <1>10, <1>11,
     <1>12, <1>13, <1>14, <1>15, <1>16, <1>17, <1>18
     DEF Next, MainLoop, ReadFrame, Pump, Handler, SocketEnds, CallPanics,
         WriteFails

(* Close frames.                                                           *)
LEMMA CloseStep ==
  ASSUME TypeOK, OpenInv, TableInv, CloseInv, Next PROVE CloseInv'
<1>0. ASSUME UNCHANGED <<closes, sid, conns>>,
             \A r \in Sessions : Closing(r)' => Closing(r)
      PROVE  CloseInv'
  BY <1>0 DEF CloseInv, HasEntry
<1>1. CASE ReadOpen
  <2>1. UNCHANGED closes /\ main' = "opening"
    BY <1>1 DEF ReadOpen
  <2>2. \A r \in Sessions : r \in Nat /\ (sid[r] # 0 => sid[r] \in Ids)
    BY SessionIds
  <2>3. \A r \in Sessions : r # opens + 1 /\ HasEntry(r)' => HasEntry(r)
    BY <1>1, <2>2, OpenEffect DEF HasEntry
  <2> QED
    BY <2>1, <2>2, <2>3, OpenEffect, <1>1 DEF CloseInv, OpenInv, Closing
<1>2. CASE \/ ReadCall \/ ReadBad \/ Replied \/ Opened \/ Deliver \/ ReapEnd
           \/ CallReturn \/ Stop \/ Forward \/ Write \/ PeerDrops
  BY <1>2, <1>0
     DEF ReadCall, ReadBad, Replied, Opened, Deliver, ReapEnd, CallReturn, Stop,
         Forward, Write, PeerDrops,
         loopVars, tableVars, handlerVars, Closing
<1>3. ASSUME NEW id \in Ids, ReadPush(id) PROVE CloseInv'
  BY <1>3, <1>0 DEF ReadPush, tableVars, handlerVars, Closing
<1>4. ASSUME NEW id \in Ids, ReadClose(id) PROVE CloseInv'
  <2>1. /\ UNCHANGED <<closes, sid>> /\ main = "select" /\ main' = "close"
        /\ target' = conns[id] /\ conns[id] # 0 /\ sid[conns[id]] = id
    BY <1>4 DEF ReadClose, Reading, TableInv, Remove
  <2>2. \A i \in Ids : conns'[i] = IF i = id THEN 0 ELSE conns[i]
    BY <1>4 DEF ReadClose, TypeOK, Remove
  <2>3. \A r \in Sessions : r \in Nat \ {0} /\ (sid[r] # 0 => sid[r] \in Ids)
    BY SessionIds
  <2> QED
    BY <2>1, <2>2, <2>3 DEF CloseInv, HasEntry, Closing, Ids
<1>5. ASSUME NEW alive \in SUBSET Ids, ReadHeartbeat(alive) PROVE CloseInv'
  BY <1>5, <1>0 DEF ReadHeartbeat, tableVars, handlerVars, Closing
<1>6. CASE QueueClose
  <2>1. /\ UNCHANGED <<sid, conns>> /\ main \in {"close", "reapClose"}
        /\ main' \notin {"close", "reapClose"}
    BY <1>6 DEF QueueClose, tableVars, Push
  <2>2. \A r \in Sessions : closes[r] \in Nat /\
          closes'[r] = IF r = target THEN closes[r] + 1 ELSE closes[r]
    BY <1>6 DEF QueueClose, TypeOK, Push
  <2> QED
    BY <2>1, <2>2 DEF CloseInv, HasEntry, Closing
<1>7. ASSUME NEW id \in Ids, Reap(id) PROVE CloseInv'
  <2>1. /\ UNCHANGED <<closes, sid>> /\ main = "reap" /\ main' = "reapClose"
        /\ target' = conns[id] /\ conns[id] # 0 /\ sid[conns[id]] = id
    BY <1>7 DEF Reap, TableInv, Remove
  <2>2. \A i \in Ids : conns'[i] = IF i = id THEN 0 ELSE conns[i]
    BY <1>7 DEF Reap, TypeOK, Remove
  <2>3. \A r \in Sessions : r \in Nat \ {0} /\ (sid[r] # 0 => sid[r] \in Ids)
    BY SessionIds
  <2> QED
    BY <2>1, <2>2, <2>3 DEF CloseInv, HasEntry, Closing, Ids
<1>8. ASSUME NEW s \in Sessions, \/ PumpStart(s) \/ PumpTake(s)
                                 \/ PumpPush(s) \/ PumpEnd(s)
                                 \/ HandlerSend(s) \/ HandlerRecv(s)
                                 \/ DropReceiver(s) \/ DropSender(s)
      PROVE  CloseInv'
  BY <1>8, <1>0
     DEF PumpStart, PumpTake, PumpPush, PumpEnd, HandlerSend, HandlerRecv,
         DropReceiver, DropSender, loopVars, tableVars, handlerVars, Closing,
         Push, Drained
<1>9. ASSUME NEW s \in Sessions, PumpCleanup(s) PROVE CloseInv'
  <2>1. UNCHANGED <<closes, sid, main, target>>
    BY <1>9 DEF PumpCleanup, loopVars, Remove
  <2>2. \A i \in Ids : conns'[i] = IF i = sid[s] THEN 0 ELSE conns[i]
    BY <1>9 DEF PumpCleanup, TypeOK, Remove
  <2>3. \A r \in Sessions : r \in Nat \ {0} /\ (sid[r] # 0 => sid[r] \in Ids)
    BY SessionIds
  <2> QED
    BY <2>1, <2>2, <2>3 DEF CloseInv, HasEntry, Closing, Ids
<1> QED
  BY <1>1, <1>2, <1>3, <1>4, <1>5, <1>6, <1>7, <1>8, <1>9
     DEF Next, MainLoop, ReadFrame, Pump, Handler, SocketEnds, CallPanics,
         WriteFails

(* The way of a message up to the push channel.                            *)
LEMMA PipeStep ==
  ASSUME TypeOK, OpenInv, TableInv, PipeInv, FifoInv, Next PROVE PipeInv'
<1>0. ASSUME UNCHANGED <<sent, outq, pump, got, tx>> PROVE PipeInv'
  BY <1>0 DEF PipeInv, Queued, Disconnected
<1>1. CASE ReadOpen
  <2>1. UNCHANGED <<sent, outq, got>> /\ \A r \in Sessions : r # opens + 1 => tx'[r] = tx[r]
    BY <1>1 DEF ReadOpen, TypeOK
  <2>2. opens + 1 \in Sessions /\ opens + 1 > opens
    BY OpenEffect, <1>1
  <2>3. pump[opens + 1] = "none" /\ sent[opens + 1] = 0 /\ outq[opens + 1] = 0
    BY <2>2 DEF OpenInv
  <2> QED
    BY <2>1, <2>2, <2>3, OpenEffect, <1>1 DEF PipeInv, Queued, Disconnected
<1>2. CASE \/ ReadCall \/ ReadBad \/ Replied \/ Deliver \/ QueueClose
           \/ ReapEnd \/ CallReturn \/ Stop \/ Forward \/ PeerDrops
  BY <1>2, <1>0
     DEF ReadCall, ReadBad, Replied, Deliver, QueueClose, ReapEnd, CallReturn,
         Stop, Forward, PeerDrops,
         loopVars, tableVars, handlerVars, Push
<1>3. ASSUME NEW id \in Ids, ReadPush(id) \/ ReadClose(id) \/ Reap(id)
      PROVE  PipeInv'
  BY <1>3, <1>0 DEF ReadPush, ReadClose, Reap, tableVars, handlerVars, Remove
<1>4. ASSUME NEW alive \in SUBSET Ids, ReadHeartbeat(alive) PROVE PipeInv'
  BY <1>4, <1>0 DEF ReadHeartbeat, tableVars, handlerVars
<1>5. CASE Write
  <2>0. \A r \in Sessions : sent[r] \in Nat /\ outq[r] \in Nat /\ got[r] \in Nat
    BY DEF TypeOK
  <2>1. UNCHANGED <<sent, outq, pump, tx>>
    BY <1>5 DEF Write, handlerVars
  <2>2. \A r \in Sessions : got'[r] = got[r] \/ got'[r] <= Queued(r) 
    <3>1. pushq \in Seq(Frames) /\ pushq # <<>> /\ main # "done" /\ got \in [Sessions -> 0 .. MaxSends]
      BY <1>5, WriteFrame DEF Write, TypeOK
    <3>2. 1 \in 1 .. Len(pushq) /\ Head(pushq) = pushq[1] /\ pushq[1] \in Frames
      BY <3>1
    <3>3. pushq[1].n # 0 => pushq[1].n <= Queued(pushq[1].s)
      BY <3>1, <3>2 DEF FifoInv, FifoBounds
    <3> QED
      BY <1>5, <3>1, <3>2, <3>3 DEF Write
  <2>3. \A r \in Sessions : got'[r] <= Queued(r)
    BY <2>2 DEF PipeInv
  <2> QED
    BY <2>1, <2>3 DEF PipeInv, Queued, Disconnected
<1>6. ASSUME NEW s \in Sessions, PumpStart(s) PROVE PipeInv'
  <2>0. \A r \in Sessions : sent[r] \in Nat /\ outq[r] \in Nat /\ got[r] \in Nat
    BY DEF TypeOK
  <2>1. /\ \A r \in Sessions : r # s => pump'[r] = pump[r] /\ tx'[r] = tx[r]
        /\ pump[s] = "start"
        /\ pump'[s] = "drain" \/ (pump'[s] = "cleanup" /\ ~tx'[s])
        /\ UNCHANGED <<sent, outq, got>>
    BY <1>6 DEF PumpStart, TypeOK
  <2> QED
    BY <2>0, <2>1 DEF PipeInv, Queued, Disconnected
<1>7. ASSUME NEW s \in Sessions, PumpTake(s) PROVE PipeInv'
  <2>0. \A r \in Sessions : sent[r] \in Nat /\ outq[r] \in Nat /\ got[r] \in Nat
    BY DEF TypeOK
  <2>1. /\ \A r \in Sessions : r # s => pump'[r] = pump[r] /\ outq'[r] = outq[r]
        /\ pump[s] = "drain" /\ pump'[s] = "push"
        /\ outq[s] > 0 /\ outq'[s] = outq[s] - 1
        /\ UNCHANGED <<sent, tx, got>>
    BY <1>7 DEF PumpTake, TypeOK
  <2> QED
    BY <2>0, <2>1 DEF PipeInv, Queued, Disconnected
<1>8. ASSUME NEW s \in Sessions, PumpPush(s) PROVE PipeInv'
  <2>0. \A r \in Sessions : sent[r] \in Nat /\ outq[r] \in Nat /\ got[r] \in Nat
    BY DEF TypeOK
  <2>1. /\ \A r \in Sessions : r # s => pump'[r] = pump[r]
        /\ pump[s] = "push" /\ pump'[s] = "drain"
        /\ UNCHANGED <<sent, tx, got, outq>>
    BY <1>8 DEF PumpPush, TypeOK, handlerVars, Push
  <2> QED
    BY <2>0, <2>1 DEF PipeInv, Queued, Disconnected
<1>9. ASSUME NEW s \in Sessions, PumpEnd(s) PROVE PipeInv'
  BY <1>9
     DEF PumpEnd, loopVars, tableVars, handlerVars, PipeInv, Queued,
         Disconnected, Drained
<1>10. ASSUME NEW s \in Sessions, PumpCleanup(s) PROVE PipeInv'
  BY <1>10
     DEF PumpCleanup, loopVars, handlerVars, PipeInv, Queued, Disconnected,
         Remove
<1>11. ASSUME NEW s \in Sessions, HandlerSend(s) PROVE PipeInv'
  <2>0. \A r \in Sessions : sent[r] \in Nat /\ outq[r] \in Nat /\ got[r] \in Nat
    BY DEF TypeOK
  <2>1. /\ \A r \in Sessions : r # s => sent'[r] = sent[r] /\ outq'[r] = outq[r]
        /\ outq'[s] = outq[s] + 1 /\ sent'[s] = sent[s] + 1
        /\ UNCHANGED <<pump, tx, got>> /\ tx[s] /\ Started(s)
    BY <1>11 DEF HandlerSend, TypeOK
  <2>2. pump[s] \in {"drain", "push"}
    BY <2>1 DEF Started, PipeInv, Disconnected, TypeOK, PumpStates
  <2>3. \A r \in Sessions : Queued(r) \in Int /\ Queued(r)' = Queued(r)
    BY <2>0, <2>1 DEF Queued
  <2> QED
    BY <2>1, <2>2, <2>3 DEF PipeInv, Disconnected
<1>12. ASSUME NEW s \in Sessions, HandlerRecv(s) \/ DropReceiver(s)
       PROVE  PipeInv'
  BY <1>12, <1>0 DEF HandlerRecv, DropReceiver, loopVars, tableVars
<1>13. ASSUME NEW s \in Sessions, DropSender(s) PROVE PipeInv'
  BY <1>13 DEF DropSender, loopVars, tableVars, PipeInv, Queued, Disconnected
<1>14. CASE Opened
  <2>1. UNCHANGED <<sent, outq, got, tx>>
    BY <1>14 DEF Opened, handlerVars
  <2>2. \A r \in Sessions : \/ pump'[r] = pump[r]
                            \/ pump[r] = "opening" /\ pump'[r] = "start"
    BY <1>14, OpenedEffect
  <2> QED
    BY <2>1, <2>2 DEF PipeInv, Queued, Disconnected
<1> QED
  BY <1>14, <1>1, <1>2, <1>3, <1>4, <1>5, <1>6, <1>7, <1>8, <1>9, <1>10, <1>11,
     <1>12, <1>13
     DEF Next, MainLoop, ReadFrame, Pump, Handler, SocketEnds, CallPanics,
         WriteFails

(* The content of the push channel.                                        *)
LEMMA FifoStep ==
  ASSUME TypeOK, OpenInv, TableInv, PipeInv, FifoInv, Next PROVE FifoInv'
<1>0. ASSUME main' # "done" => main # "done", UNCHANGED <<pushq, got>>,
             \A r \in Sessions : Queued(r)' = Queued(r)
      PROVE  FifoInv'
  <2>1. \A i \in 1 .. Len(pushq) : pushq[i] \in Frames
    BY DEF TypeOK
  <2>2. \A i \in 1 .. Len(pushq) : pushq[i].s \in Sessions
    BY <2>1 DEF Frames
  <2> QED
    BY <1>0, <2>2 DEF FifoInv, FifoBounds, FifoSorted, FifoComplete
<1>1. CASE ReadOpen
  <2>1. UNCHANGED <<pushq, got, sent, outq>> /\ main # "done"
    BY <1>1 DEF ReadOpen, Reading
  <2>2. pump[opens + 1] # "push"
    BY OpenEffect, <1>1 DEF OpenInv
  <2> QED
    BY <1>0, <2>1, <2>2, OpenEffect, <1>1 DEF Queued
<1>2. CASE ReadCall \/ ReadBad \/ Replied \/ Deliver \/ ReapEnd \/ CallReturn \/ Forward
  <2>1. UNCHANGED <<pushq, got, sent, outq, pump>> /\ main # "done"
    BY <1>2
       DEF ReadCall, ReadBad, Replied, Deliver, ReapEnd, CallReturn, Forward,
           Reading, handlerVars
  <2> QED
    BY <1>0, <2>1 DEF Queued
<1>3. ASSUME NEW id \in Ids, ReadPush(id) \/ ReadClose(id) \/ Reap(id)
      PROVE  FifoInv'
  <2>1. UNCHANGED <<pushq, got, sent, outq, pump>> /\ main # "done"
    BY <1>3 DEF ReadPush, ReadClose, Reap, Reading, handlerVars, Remove
  <2> QED
    BY <1>0, <2>1 DEF Queued
<1>4. ASSUME NEW alive \in SUBSET Ids, ReadHeartbeat(alive) PROVE FifoInv'
  <2>1. UNCHANGED <<pushq, got, sent, outq, pump>> /\ main # "done"
    BY <1>4 DEF ReadHeartbeat, Reading, handlerVars
  <2> QED
    BY <1>0, <2>1 DEF Queued
<1>5. CASE QueueClose
  <2>1. /\ UNCHANGED <<got, sent, outq, pump>> /\ main # "done"
        /\ pushq' = Append(pushq, [s |-> target, n |-> 0])
    BY <1>5 DEF QueueClose, handlerVars, Push
  <2>2. /\ Len(pushq') = Len(pushq) + 1 /\ Len(pushq) \in Nat
        /\ \A i \in 1 .. Len(pushq) : pushq'[i] = pushq[i]
        /\ pushq'[Len(pushq) + 1].n = 0
    BY <2>1 DEF TypeOK
  <2> QED
    BY <2>1, <2>2 DEF FifoInv, FifoBounds, FifoSorted, FifoComplete, Queued
<1>6. CASE Stop
  BY <1>6 DEF Stop, FifoInv
<1>7. CASE Write
  <2>1. /\ UNCHANGED <<sent, outq, pump>> /\ main # "done"
        /\ pushq' = Tail(pushq) /\ pushq # <<>> /\ pushq \in Seq(Frames)
        /\ got' = IF Head(pushq).n = 0 THEN got
                  ELSE [got EXCEPT ![Head(pushq).s] = Head(pushq).n]
    BY <1>7, WriteFrame DEF Write, handlerVars
  <2>2. /\ Len(pushq) \in Nat \ {0} /\ Len(pushq') = Len(pushq) - 1
        /\ \A i \in 1 .. Len(pushq') : pushq'[i] = pushq[i + 1]
        /\ \A i \in 1 .. Len(pushq) : pushq[i] \in Frames
        /\ Head(pushq) = pushq[1]
    BY <2>1
  <2>3. /\ pushq[1].n # 0 => got'[pushq[1].s] = pushq[1].n
        /\ \A r \in Sessions : r # pushq[1].s \/ pushq[1].n = 0 => got'[r] = got[r]
        /\ \A r \in Sessions : got[r] \in Nat /\ Queued(r)' = Queued(r)
    <3>1. pushq[1].s \in Sessions /\ pushq[1].n \in Nat
      BY <2>2 DEF Frames
    <3>2. got \in [Sessions -> 0 .. MaxSends]
      BY DEF TypeOK
    <3> QED
      BY <2>1, <2>2, <3>1, <3>2 DEF Queued
  <2>4. FifoBounds /\ FifoSorted /\ FifoComplete
    BY <2>1 DEF FifoInv
  <2>5. FifoBounds'
    <3> SUFFICES ASSUME NEW i \in 1 .. Len(pushq'), pushq'[i].n # 0
                 PROVE  (got[pushq[i].s] < pushq[i].n /\ pushq[i].n <= Queued(pushq[i].s))'
      BY DEF FifoBounds
    <3>1. /\ 1 \in 1 .. Len(pushq) /\ i + 1 \in 1 .. Len(pushq) /\ 1 < i + 1
          /\ pushq'[i] = pushq[i + 1] /\ pushq[i + 1] \in Frames
      BY <2>2
    <3>2. pushq[i + 1].n <= Queued(pushq[i + 1].s) /\ got[pushq[i + 1].s] < pushq[i + 1].n
      BY <2>4, <3>1 DEF FifoBounds
    <3>3. pushq[1].s = pushq[i + 1].s /\ pushq[1].n # 0 => pushq[1].n < pushq[i + 1].n
      BY <2>4, <3>1 DEF FifoSorted
    <3>4. PICK r \in Sessions, n \in 0 .. MaxSends : pushq[i + 1] = [s |-> r, n |-> n]
      BY <3>1 DEF Frames
    <3>5. got'[r] < n
      BY <2>2, <2>3, <3>1, <3>2, <3>3, <3>4
    <3>6. n <= Queued(r)'
      BY <2>3, <3>2, <3>4
    <3> QED
      BY <3>1, <3>4, <3>5, <3>6
  <2>6. FifoSorted'
    BY <2>2, <2>4, SMTT(60) DEF FifoSorted
  <2>7. FifoComplete'
    <3> SUFFICES ASSUME NEW r \in Sessions, NEW n \in 1 .. MaxSends,
                        got'[r] < n, n <= Queued(r)'
                 PROVE  \E i \in 1 .. Len(pushq') : pushq'[i] = [s |-> r, n |-> n]
      BY DEF FifoComplete
    <3>1. got[r] < n
      <4>1. 1 \in 1 .. Len(pushq) /\ pushq[1] \in Frames
        BY <2>2
      <4>2. pushq[1].n # 0 => got[pushq[1].s] < pushq[1].n
        BY <2>4, <4>1 DEF FifoBounds
      <4>3. CASE r = pushq[1].s /\ pushq[1].n # 0
        BY <2>3, <4>1, <4>2, <4>3 DEF Frames
      <4>4. CASE ~(r = pushq[1].s /\ pushq[1].n # 0)
        BY <2>3, <4>4
      <4> QED
        BY <4>3, <4>4
    <3>2. PICK i \in 1 .. Len(pushq) : pushq[i] = [s |-> r, n |-> n]
      BY <2>3, <2>4, <3>1 DEF FifoComplete
    <3>3. i # 1
      BY <2>3, <3>2
    <3>4. i - 1 \in 1 .. Len(pushq') /\ pushq'[i - 1] = pushq[i]
      BY <2>2, <3>3
    <3> QED
      BY <3>2, <3>4
  <2> QED
    BY <2>5, <2>6, <2>7 DEF FifoInv
<1>16. CASE Opened
  <2>1. UNCHANGED <<pushq, got, sent, outq>> /\ main # "done"
    BY <1>16 DEF Opened, handlerVars
  <2>2. \A r \in Sessions : pump'[r] = "push" <=> pump[r] = "push"
    BY <1>16, OpenedEffect
  <2> QED
    BY <1>0, <2>1, <2>2 DEF Queued
<1>8. ASSUME NEW s \in Sessions, PumpStart(s) PROVE FifoInv'
  <2>0. \A r \in Sessions : sent[r] \in Nat /\ outq[r] \in Nat
    BY DEF TypeOK
  <2>1. /\ \A r \in Sessions : r # s => pump'[r] = pump[r]
        /\ pump[s] # "push" /\ pump'[s] # "push"
        /\ UNCHANGED <<main, pushq, got, sent, outq>>
    BY <1>8 DEF PumpStart, TypeOK, loopVars
  <2> QED
    BY <1>0, <2>0, <2>1 DEF Queued
<1>9. ASSUME NEW s \in Sessions, PumpTake(s) PROVE FifoInv'
  <2>0. \A r \in Sessions : sent[r] \in Nat /\ outq[r] \in Nat
    BY DEF TypeOK
  <2>1. /\ \A r \in Sessions : r # s => pump'[r] = pump[r] /\ outq'[r] = outq[r]
        /\ pump[s] = "drain" /\ pump'[s] = "push" /\ outq'[s] = outq[s] - 1
        /\ UNCHANGED <<main, pushq, got, sent>>
    BY <1>9 DEF PumpTake, TypeOK, loopVars
  <2> QED
    BY <1>0, <2>0, <2>1 DEF Queued
<1>10. ASSUME NEW s \in Sessions, PumpPush(s) PROVE FifoInv'
  <2>0. \A r \in Sessions : sent[r] \in Nat /\ outq[r] \in Nat
    BY DEF TypeOK
  <2> SUFFICES ASSUME main # "done" PROVE FifoInv'
    BY <1>10 DEF PumpPush, FifoInv, loopVars, Push
  <2>1. /\ \A r \in Sessions : r # s => pump'[r] = pump[r]
        /\ pump[s] = "push" /\ pump'[s] = "drain"
        /\ UNCHANGED <<main, got, sent, outq>>
        /\ pushq' = Append(pushq, [s |-> s, n |-> sent[s] - outq[s]])
    BY <1>10 DEF PumpPush, TypeOK, loopVars, handlerVars, Push
  <2>2. /\ Queued(s)' = Queued(s) + 1 /\ Queued(s)' = sent[s] - outq[s]
        /\ \A r \in Sessions : Queued(r) \in Int /\ (r # s => Queued(r)' = Queued(r))
    BY <2>0, <2>1 DEF Queued
  <2>3. /\ Len(pushq') = Len(pushq) + 1 /\ Len(pushq) \in Nat
        /\ \A i \in 1 .. Len(pushq) : pushq'[i] = pushq[i] /\ pushq[i] \in Frames
        /\ pushq'[Len(pushq) + 1] = [s |-> s, n |-> Queued(s) + 1]
    BY <2>1, <2>2, SMTT(60) DEF TypeOK
  <2>4. /\ got[s] <= Queued(s) /\ \A r \in Sessions : got[r] \in Nat
        /\ FifoBounds /\ FifoSorted /\ FifoComplete
    BY DEF PipeInv, TypeOK, FifoInv
  <2>5. FifoBounds'
    <3> SUFFICES ASSUME NEW i \in 1 .. Len(pushq'), pushq'[i].n # 0
                 PROVE  (got[pushq[i].s] < pushq[i].n /\ pushq[i].n <= Queued(pushq[i].s))'
      BY DEF FifoBounds
    <3>1. CASE i = Len(pushq) + 1
      BY <2>1, <2>2, <2>3, <2>4, <3>1
    <3>2. CASE i \in 1 .. Len(pushq)
      <4>1. got[pushq[i].s] < pushq[i].n /\ pushq[i].n <= Queued(pushq[i].s)
        BY <2>3, <2>4, <3>2 DEF FifoBounds
      <4>2. pushq'[i] = pushq[i] /\ pushq[i].s \in Sessions /\ pushq[i].n \in Int
        BY <2>3, <3>2 DEF Frames
      <4>3. pushq[i].n <= Queued(pushq[i].s)'
        BY <2>2, <4>1, <4>2
      <4> QED
        BY <2>1, <4>1, <4>2, <4>3
    <3> QED
      BY <2>3, <3>1, <3>2
  <2>6. FifoSorted'
    <3> SUFFICES ASSUME NEW i \in 1 .. Len(pushq'), NEW j \in 1 .. Len(pushq'), i < j,
                        pushq'[i].s = pushq'[j].s, pushq'[i].n # 0, pushq'[j].n # 0
                 PROVE  pushq'[i].n < pushq'[j].n
      BY DEF FifoSorted
    <3>1. i \in 1 .. Len(pushq) /\ pushq'[i] = pushq[i] /\ pushq[i] \in Frames
      BY <2>3
    <3>2. CASE j = Len(pushq) + 1
      <4>1. pushq[i].n <= Queued(pushq[i].s)
        BY <2>4, <3>1 DEF FifoBounds
      <4>2. pushq[i].s = s /\ pushq'[j].n = Queued(s) + 1 /\ pushq[i].n \in Int
        BY <2>3, <3>1, <3>2 DEF Frames
      <4> QED
        BY <2>2, <3>1, <4>1, <4>2
    <3>3. CASE j \in 1 .. Len(pushq)
      BY <2>3, <2>4, <3>1, <3>3 DEF FifoSorted
    <3> QED
      BY <2>3, <3>2, <3>3
  <2>7. FifoComplete'
    <3> SUFFICES ASSUME NEW r \in Sessions, NEW n \in 1 .. MaxSends,
                        got'[r] < n, n <= Queued(r)'
                 PROVE  \E i \in 1 .. Len(pushq') : pushq'[i] = [s |-> r, n |-> n]
      BY DEF FifoComplete
    <3>1. CASE r = s /\ n = Queued(s) + 1
      BY <2>3, <3>1
    <3>2. CASE ~(r = s /\ n = Queued(s) + 1)
      <4>1. n <= Queued(r)
        BY <2>2, <3>2
      <4>2. PICK i \in 1 .. Len(pushq) : pushq[i] = [s |-> r, n |-> n]
        BY <2>1, <2>4, <4>1 DEF FifoComplete
      <4> QED
        BY <2>3, <4>2
    <3> QED
      BY <3>1, <3>2
  <2> QED
    BY <2>5, <2>6, <2>7 DEF FifoInv
<1>11. ASSUME NEW s \in Sessions, PumpEnd(s) PROVE FifoInv'
  <2>0. \A r \in Sessions : sent[r] \in Nat /\ outq[r] \in Nat
    BY DEF TypeOK
  <2>1. /\ \A r \in Sessions : r # s => pump'[r] = pump[r]
        /\ pump[s] # "push" /\ pump'[s] # "push"
        /\ UNCHANGED <<main, pushq, got, sent, outq>>
    BY <1>11 DEF PumpEnd, TypeOK, loopVars, handlerVars, Drained
  <2> QED
    BY <1>0, <2>0, <2>1 DEF Queued
<1>12. ASSUME NEW s \in Sessions, PumpCleanup(s) PROVE FifoInv'
  <2>0. \A r \in Sessions : sent[r] \in Nat /\ outq[r] \in Nat
    BY DEF TypeOK
  <2>1. /\ \A r \in Sessions : r # s => pump'[r] = pump[r]
        /\ pump[s] # "push" /\ pump'[s] # "push"
        /\ UNCHANGED <<main, pushq, got, sent, outq>>
    BY <1>12 DEF PumpCleanup, TypeOK, loopVars, handlerVars, Remove
  <2> QED
    BY <1>0, <2>0, <2>1 DEF Queued
<1>13. ASSUME NEW s \in Sessions, HandlerSend(s) PROVE FifoInv'
  <2>0. \A r \in Sessions : sent[r] \in Nat /\ outq[r] \in Nat
    BY DEF TypeOK
  <2>1. /\ \A r \in Sessions : r # s => sent'[r] = sent[r] /\ outq'[r] = outq[r]
        /\ sent'[s] = sent[s] + 1 /\ outq'[s] = outq[s] + 1
        /\ UNCHANGED <<main, pushq, got, pump>>
    BY <1>13 DEF HandlerSend, TypeOK, loopVars
  <2> QED
    BY <1>0, <2>0, <2>1 DEF Queued
<1>14. ASSUME NEW s \in Sessions, \/ HandlerRecv(s) \/ DropReceiver(s)
                                  \/ DropSender(s)
       PROVE  FifoInv'
  BY <1>14, <1>0
     DEF HandlerRecv, DropReceiver, DropSender, loopVars, tableVars, Queued
<1>15. CASE PeerDrops
  BY <1>15, <1>0 DEF PeerDrops, loopVars, tableVars, handlerVars, Queued
<1> QED
  BY <1>16, <1>1, <1>2, <1>3, <1>4, <1>5, <1>6, <1>7, <1>8, <1>9, <1>10, <1>11,
     <1>12, <1>13, <1>14, <1>15
     DEF Next, MainLoop, ReadFrame, Pump, Handler, SocketEnds, CallPanics,
         WriteFails

(* The conn_ids, until they are reused.                                    *)
LEMMA NoReuseStep ==
  ASSUME TypeOK, OpenInv, TableInv, CloseInv, NoReuseInv, Next PROVE NoReuseInv'
<1>0. ASSUME UNCHANGED <<opens, nextId, sid, pump, conns, closes>>,
             \A r \in Sessions : Closing(r) => Closing(r)'
      PROVE  NoReuseInv'
  BY <1>0 DEF NoReuseInv, HasEntry
<1>1. CASE ReadOpen
  <2> SUFFICES ASSUME opens + 1 <= MaxId PROVE NoReuseInv'
    BY OpenEffect, <1>1 DEF NoReuseInv
  <2>1. /\ UNCHANGED closes /\ nextId' = NextConnId(nextId)
        /\ main = "select" /\ main' = "opening"
        /\ MaxId \in Nat \ {0} /\ \A r \in Sessions : r \in Nat
    BY <1>1, LongConnAssumption, OpenEffect DEF ReadOpen, Sessions
  <2>2. nextId = opens + 1 /\ opens < MaxId
    BY <2>1, OpenEffect, <1>1 DEF NoReuseInv
  <2>3. nextId' = IF opens' = MaxId THEN 1 ELSE opens' + 1
    BY <2>1, <2>2, OpenEffect, <1>1 DEF NextConnId
  <2>4. \A r \in Sessions : r <= opens' => sid'[r] = r
    BY <2>1, <2>2, OpenEffect, <1>1 DEF NoReuseInv
  <2>5. ASSUME NEW r \in Sessions, pump'[r] \in {"opening", "start", "drain", "push"}, ~HasEntry(r)'
        PROVE  closes[r] = 1 \/ Closing(r)
    <3>1. r <= opens \/ r = opens + 1
      BY <2>1, <2>5, OpenEffect, <1>1 DEF OpenInv
    <3>2. r # opens + 1
      BY <2>2, <2>5, OpenEffect, <1>1 DEF HasEntry, Ids
    <3>3. sid[r] = r /\ sid'[r] = r /\ r \in Ids /\ conns'[r] = conns[r]
      BY <2>1, <2>2, <3>1, <3>2, OpenEffect, <1>1 DEF NoReuseInv, Ids, Sessions
    <3>4. ~HasEntry(r)
      BY <2>5, <3>3 DEF HasEntry
    <3> QED
      BY <2>1, <2>2, <2>5, <3>2, <3>4, OpenEffect, <1>1 DEF NoReuseInv
  <2> QED
    BY <2>1, <2>3, <2>4, <2>5 DEF NoReuseInv, Closing
<1>2. CASE ReadCall \/ ReadBad \/ Replied \/ Deliver \/ ReapEnd \/ CallReturn
           \/ Forward \/ Write
  <2>1. /\ UNCHANGED <<opens, nextId, sid, pump, conns, closes>>
        /\ main \notin {"close", "reapClose"}
    BY <1>2
       DEF ReadCall, ReadBad, Replied, Deliver, ReapEnd, CallReturn, Forward,
           Write, Reading, tableVars
  <2> QED
    BY <1>0, <2>1 DEF Closing
<1>3. ASSUME NEW id \in Ids, ReadPush(id) PROVE NoReuseInv'
  <2>1. /\ UNCHANGED <<opens, nextId, sid, pump, conns, closes>>
        /\ main \notin {"close", "reapClose"}
    BY <1>3 DEF ReadPush, Reading, tableVars
  <2> QED
    BY <1>0, <2>1 DEF Closing
<1>4. ASSUME NEW id \in Ids, ReadClose(id) PROVE NoReuseInv'
  <2>1. /\ UNCHANGED <<opens, nextId, sid, pump, closes>>
        /\ main = "select" /\ main' = "close" /\ target' = conns[id]
    BY <1>4 DEF ReadClose, Reading, Remove
  <2>2. \A i \in Ids : conns'[i] = IF i = id THEN 0 ELSE conns[i]
    BY <1>4 DEF ReadClose, TypeOK, Remove
  <2>3. \A r \in Sessions : r \in Nat \ {0} /\ (sid[r] # 0 => sid[r] \in Ids)
    BY SessionIds
  <2>4. \A r \in Sessions : ~HasEntry(r)' => ~HasEntry(r) \/ Closing(r)'
    BY <2>1, <2>2, <2>3 DEF HasEntry, Closing
  <2>5. \A r \in Sessions : ~Closing(r)
    BY <2>1 DEF Closing
  <2> QED
    BY <2>1, <2>4, <2>5 DEF NoReuseInv
<1>5. ASSUME NEW alive \in SUBSET Ids, ReadHeartbeat(alive) PROVE NoReuseInv'
  <2>1. /\ UNCHANGED <<opens, nextId, sid, pump, conns, closes>>
        /\ main \notin {"close", "reapClose"}
    BY <1>5 DEF ReadHeartbeat, Reading, tableVars
  <2> QED
    BY <1>0, <2>1 DEF Closing
<1>6. CASE QueueClose
  <2>1. /\ UNCHANGED <<opens, nextId, sid, pump, conns>> /\ target \in Nat
        /\ main \in {"close", "reapClose"} /\ main' \notin {"close", "reapClose"}
    BY <1>6 DEF QueueClose, tableVars, TypeOK, Push
  <2>2. \A r \in Sessions : closes[r] \in Nat /\
          closes'[r] = IF r = target THEN closes[r] + 1 ELSE closes[r]
    BY <1>6 DEF QueueClose, TypeOK, Push
  <2>3. \A r \in Sessions : Closing(r) => r = target /\ closes[r] = 0
    BY <2>1, <2>2 DEF CloseInv, Closing
  <2>4. \A r \in Sessions : closes[r] = 1 \/ Closing(r) => closes'[r] = 1
    BY <2>1, <2>2, <2>3 DEF CloseInv, Closing
  <2>5. \A r \in Sessions : HasEntry(r)' = HasEntry(r)
    BY <2>1 DEF HasEntry
  <2> QED
    BY <2>1, <2>4, <2>5 DEF NoReuseInv
<1>7. ASSUME NEW id \in Ids, Reap(id) PROVE NoReuseInv'
  <2>1. /\ UNCHANGED <<opens, nextId, sid, pump, closes>>
        /\ main = "reap" /\ main' = "reapClose" /\ target' = conns[id]
    BY <1>7 DEF Reap, Reading, Remove
  <2>2. \A i \in Ids : conns'[i] = IF i = id THEN 0 ELSE conns[i]
    BY <1>7 DEF Reap, TypeOK, Remove
  <2>3. \A r \in Sessions : r \in Nat \ {0} /\ (sid[r] # 0 => sid[r] \in Ids)
    BY SessionIds
  <2>4. \A r \in Sessions : ~HasEntry(r)' => ~HasEntry(r) \/ Closing(r)'
    BY <2>1, <2>2, <2>3 DEF HasEntry, Closing
  <2>5. \A r \in Sessions : ~Closing(r)
    BY <2>1 DEF Closing
  <2> QED
    BY <2>1, <2>4, <2>5 DEF NoReuseInv
<1>8. CASE Stop /\ main \in {"select", "call", "write"}
  <2>1. /\ UNCHANGED <<opens, nextId, sid, pump, conns, closes>>
        /\ main \notin {"close", "reapClose"}
    BY <1>8 DEF Stop, Reading, tableVars
  <2> QED
    BY <1>0, <2>1 DEF Closing
<1>9. CASE PeerDrops
  BY <1>9, <1>0 DEF PeerDrops, loopVars, tableVars, handlerVars, Closing
<1>13. CASE Opened
  <2>1. /\ UNCHANGED <<opens, nextId, sid, conns, closes>>
        /\ main \notin {"close", "reapClose"}
    BY <1>13 DEF Opened, tableVars
  <2>2. \A r \in Sessions : pump'[r] \in {"opening", "start", "drain", "push"} =>
          pump[r] \in {"opening", "start", "drain", "push"}
    BY <1>13, OpenedEffect
  <2> QED
    BY <2>1, <2>2 DEF NoReuseInv, HasEntry, Closing
<1>10. ASSUME NEW s \in Sessions, \/ PumpStart(s) \/ PumpTake(s)
                                  \/ PumpPush(s) \/ PumpEnd(s)
       PROVE  NoReuseInv'
  <2>1. UNCHANGED <<opens, nextId, sid, conns, closes, main, target>>
    BY <1>10
       DEF PumpStart, PumpTake, PumpPush, PumpEnd, tableVars, loopVars, Push,
           Drained
  <2>2. \A r \in Sessions : pump'[r] \in {"opening", "start", "drain", "push"} =>
          pump[r] \in {"opening", "start", "drain", "push"}
    BY <1>10 DEF PumpStart, PumpTake, PumpPush, PumpEnd, TypeOK, Push, Drained
  <2> QED
    BY <2>1, <2>2 DEF NoReuseInv, HasEntry, Closing
<1>11. ASSUME NEW s \in Sessions, PumpCleanup(s) PROVE NoReuseInv'
  <2> SUFFICES ASSUME opens <= MaxId,
                      NEW r \in Sessions, pump'[r] \in {"opening", "start", "drain", "push"},
                      ~HasEntry(r)'
               PROVE  closes'[r] = 1 \/ Closing(r)'
    BY <1>11 DEF NoReuseInv, PumpCleanup, Remove
  <2>1. UNCHANGED <<opens, sid, closes, main, target>> /\ pump[s] = "cleanup"
    BY <1>11 DEF PumpCleanup, loopVars, Remove
  <2>2. r # s /\ pump[r] = pump'[r]
    BY <1>11 DEF PumpCleanup, TypeOK, Remove
  <2>3. r <= opens /\ s <= opens
    BY <2>1, <2>2 DEF OpenInv, TypeOK, Sessions
  <2>4. sid[r] = r /\ sid[s] = s /\ r \in Ids
    BY <2>3 DEF NoReuseInv, OpenInv
  <2>5. conns'[r] = conns[r]
    BY <1>11, <2>2, <2>4 DEF PumpCleanup, TypeOK, Remove
  <2>6. ~HasEntry(r)
    BY <2>1, <2>4, <2>5 DEF HasEntry
  <2> QED
    BY <2>1, <2>2, <2>6 DEF NoReuseInv, Closing
<1>12. ASSUME NEW s \in Sessions, \/ HandlerSend(s) \/ HandlerRecv(s)
                                  \/ DropReceiver(s) \/ DropSender(s)
       PROVE  NoReuseInv'
  BY <1>12, <1>0
     DEF HandlerSend, HandlerRecv, DropReceiver, DropSender, loopVars,
         tableVars, Closing
<1> QED
  BY <1>13, <1>1, <1>2, <1>3, <1>4, <1>5, <1>6, <1>7, <1>8, <1>9, <1>10, <1>11, <1>12
     DEF Next, MainLoop, ReadFrame, Pump, Handler, SocketEnds, CallPanics,
         WriteFails

-----------------------------------------------------------------------------
(* Before the first frame: an empty table, empty channels, no session.     *)
LEMMA InitInv ==
  ASSUME Init PROVE IInv
<1>1. TypeOK
  BY LongConnAssumption DEF Init, TypeOK, MainStates, PumpStates, Ids, Frames, Queue
<1>2. OpenInv /\ TableInv
  BY LongConnAssumption DEF Init, OpenInv, TableInv, Sessions
<1>3. CloseInv /\ PipeInv
  BY LongConnAssumption
     DEF Init, CloseInv, Closing, HasEntry, PipeInv, Queued, Disconnected
<1>4. FifoInv
  BY DEF Init, FifoInv, FifoBounds, FifoSorted, FifoComplete, Queued
<1>5. NoReuseInv
  BY LongConnAssumption DEF Init, NoReuseInv, Sessions
<1> QED
  BY <1>1, <1>2, <1>3, <1>4, <1>5 DEF IInv

(* The invariant reads nothing but the variables.                          *)
LEMMA StutterInv ==
  ASSUME IInv, UNCHANGED vars PROVE IInv'
<1>1. TypeOK'
  BY DEF IInv, TypeOK, Queue, vars
<1>2. OpenInv' /\ TableInv' /\ CloseInv'
  BY DEF IInv, OpenInv, TableInv, CloseInv, HasEntry, Closing, vars
<1>3. \A s \in Sessions : Queued(s)' = Queued(s)
  BY DEF Queued, vars
<1>4. PipeInv'
  BY <1>3 DEF IInv, PipeInv, Disconnected, vars
<1>5. FifoInv'
  BY DEF IInv, FifoInv, FifoBounds, FifoSorted, FifoComplete, Queued, vars
<1>6. NoReuseInv'
  BY DEF IInv, NoReuseInv, HasEntry, Closing, vars
<1> QED
  BY <1>1, <1>2, <1>4, <1>5, <1>6 DEF IInv

(* The inductive invariant holds in every reachable state of the socket    *)
(* (handle_connection, handle_websocket).                                  *)
THEOREM Inductive == Spec => []IInv
<1>1. Init => IInv
  BY InitInv
<1>2. IInv /\ [Next]_vars => IInv'
  <2> SUFFICES ASSUME IInv, [Next]_vars PROVE IInv'
    OBVIOUS
  <2>1. CASE Next
    <3>1. TypeOK' /\ OpenInv' /\ TableInv'
      BY <2>1, TypeStep, OpenStep, TableStep DEF IInv
    <3>2. CloseInv' /\ PipeInv' /\ FifoInv' /\ NoReuseInv'
      BY <2>1, CloseStep, PipeStep, FifoStep, NoReuseStep DEF IInv
    <3> QED
      BY <3>1, <3>2 DEF IInv
  <2>2. CASE UNCHANGED vars
    BY <2>2, StutterInv
  <2> QED
    BY <2>1, <2>2
<1> QED
  BY <1>1, <1>2, PTL DEF Spec

-----------------------------------------------------------------------------
(* Every variable keeps its type, and neither the push channel nor the     *)
(* channels of a session ever exceed their capacity (tcp.rs:182, 333, 334). *)
THEOREM TypeCorrect == Spec => []TypeOK
<1>1. IInv => TypeOK
  BY DEF IInv
<1> QED
  BY <1>1, Inductive, PTL

(* The cleanup of a pump leaves no to_handler behind in the table: an entry *)
(* always belongs to a session whose pump will still run (tcp.rs:417-421). *)
THEOREM TableClean == Spec => []NoLeakedEntry
<1>1. IInv => NoLeakedEntry
  <2> SUFFICES ASSUME IInv, NEW id \in Ids, conns[id] # 0
               PROVE  sid[conns[id]] = id /\ pump[conns[id]] \in PumpStates \ {"none", "done"}
    BY DEF NoLeakedEntry
  <2>1. conns[id] \in Sessions
    BY ConnsType DEF IInv
  <2> QED
    BY <2>1 DEF IInv, TypeOK, OpenInv, TableInv
<1> QED
  BY <1>1, Inductive, PTL

(* No connection is reported closed to the client twice, whether it or a   *)
(* heartbeat closes it (tcp.rs:230-238, 266-272).                          *)
THEOREM NotifiedOnce == Spec => []ClosedOnce
<1>1. IInv => ClosedOnce
  BY DEF IInv, CloseInv, ClosedOnce
<1> QED
  BY <1>1, Inductive, PTL

(* Until conn_ids are reused (tcp.rs:336-341), only the client takes an open *)
(* connection from its handler, and then a close frame is under way.       *)
THEOREM LossHasCause == Spec => []EntryLossHasCause
<1>1. IInv => EntryLossHasCause
  BY DEF IInv, NoReuseInv, EntryLossHasCause, Closing
<1> QED
  BY <1>1, Inductive, PTL

(* When the on_disconnect hooks have run (tcp.rs:397-415), nothing the     *)
(* handler sent is still behind the push channel.                          *)
THEOREM DrainedAtDisconnect == Spec => []NothingLostAtDisconnect
<1>1. IInv => NothingLostAtDisconnect
  <2> SUFFICES ASSUME IInv, main # "done", NEW s \in Sessions, Disconnected(s),
                      NEW n \in 1 .. MaxSends, got[s] < n, n <= sent[s]
               PROVE  \E i \in 1 .. Len(pushq) : pushq[i] = [s |-> s, n |-> n]
    BY DEF NothingLostAtDisconnect
  <2>1. outq[s] = 0 /\ pump[s] # "push" /\ sent[s] \in Nat
    BY DEF IInv, PipeInv, TypeOK, Disconnected
  <2>2. Queued(s) = sent[s]
    BY <2>1 DEF Queued
  <2> QED
    BY <2>2 DEF IInv, FifoInv, FifoComplete
<1> QED
  BY <1>1, Inductive, PTL

(* The frame that Write takes off pushq.                                   *)
LEMMA HeadFrame ==
  ASSUME IInv, Write
  PROVE  \E r \in Sessions, n \in 0 .. MaxSends : Head(pushq) = [s |-> r, n |-> n]
<1>1. pushq \in Seq(Frames) /\ pushq # <<>>
  BY WriteFrame DEF IInv
<1>2. Head(pushq) \in Frames
  BY <1>1
<1> QED
  BY <1>2 DEF Frames

(* What Write puts on the socket is the next message of its session.     *)
LEMMA HeardNext ==
  ASSUME IInv, Write, NEW r \in Sessions, NEW n \in 0 .. MaxSends,
         Head(pushq) = [s |-> r, n |-> n], n # 0
  PROVE  got[r] < sent[r] /\ got' = [got EXCEPT ![r] = got[r] + 1]
<1>1. /\ pushq \in Seq(Frames) /\ pushq # <<>> /\ main # "done"
      /\ FifoBounds /\ FifoSorted /\ FifoComplete
  BY WriteFrame DEF Write, IInv, FifoInv
<1>2. 1 \in 1 .. Len(pushq) /\ Head(pushq) = pushq[1]
  BY <1>1
<1>3. pushq[1] = [s |-> r, n |-> n]
  BY <1>2
<1>4. n # 0 /\ got[r] < n /\ n <= Queued(r)
  BY <1>1, <1>2, <1>3 DEF FifoBounds
<1>5. sent[r] \in Nat /\ outq[r] \in Nat /\ got[r] \in Nat
  BY DEF IInv, TypeOK
<1>6. Queued(r) \in Int /\ Queued(r) <= sent[r]
  BY <1>5 DEF Queued
<1>7. n = got[r] + 1
  <2> SUFFICES ASSUME got[r] + 1 < n PROVE FALSE
    BY <1>4, <1>5
  <2>1. got[r] + 1 \in 1 .. MaxSends /\ got[r] < got[r] + 1 /\ got[r] + 1 <= Queued(r)
    BY <1>4, <1>5, <1>6, LongConnAssumption
  <2>2. PICK i \in 1 .. Len(pushq) : pushq[i] = [s |-> r, n |-> got[r] + 1]
    BY <1>1, <2>1 DEF FifoComplete
  <2>3. i # 1
    BY <1>3, <2>2
  <2>4. 1 < i
    BY <1>1, <2>3
  <2>5. pushq[1].n < pushq[i].n
    BY <1>1, <1>2, <1>3, <1>4, <1>5, <2>2, <2>4 DEF FifoSorted
  <2> QED
    BY <1>3, <1>5, <2>2, <2>5
<1>8. got' = [got EXCEPT ![r] = n]
  <2>1. Head(pushq).n = n /\ Head(pushq).s = r
    OBVIOUS
  <2>2. got' = IF Head(pushq).n = 0 THEN got
               ELSE [got EXCEPT ![Head(pushq).s] = Head(pushq).n]
    BY DEF Write
  <2> QED
    BY <2>1, <2>2
<1> QED
  BY <1>4, <1>5, <1>6, <1>7, <1>8

(* No other action writes to the socket.                                   *)
LEMMA HeardByWrite ==
  ASSUME Next PROVE Write \/ UNCHANGED got
  BY DEF Next, MainLoop, ReadFrame, Pump, Handler, ReadOpen, ReadCall,
         ReadPush, ReadClose, ReadHeartbeat, Deliver, QueueClose, Reap,
         ReapEnd, CallReturn, CallPanics, SocketEnds, Stop, PumpStart,
         ReadBad, Replied, Opened, Forward, WriteFails,
         PumpTake, PumpPush, PumpEnd, PumpCleanup, HandlerSend, HandlerRecv,
         DropReceiver, DropSender, PeerDrops, Remove, Push, Drained

(* The messages of a handler reach the socket in the order it sent them,   *)
(* none missing (tcp.rs:389-395, 481-491).                                 *)
THEOREM InOrder == Spec => DeliveredInOrder
<1>1. ASSUME IInv, [Next]_vars
      PROVE  [\A s \in Sessions : got'[s] # got[s] => got'[s] = got[s] + 1]_vars
  <2>1. CASE Write
    <3>1. PICK r \in Sessions, n \in 0 .. MaxSends : Head(pushq) = [s |-> r, n |-> n]
      BY <1>1, <2>1, HeadFrame
    <3>2. CASE n = 0
      BY <2>1, <3>1, <3>2 DEF Write
    <3>3. CASE n # 0
      <4>1. got' = [got EXCEPT ![r] = got[r] + 1]
        BY <1>1, <2>1, <3>1, <3>3, HeardNext
      <4> QED
        BY <1>1, <4>1 DEF IInv, TypeOK
    <3> QED
      BY <3>2, <3>3
  <2>2. CASE UNCHANGED got
    BY <2>2
  <2> QED
    BY <1>1, <2>1, <2>2, HeardByWrite DEF vars
<1> QED
  BY <1>1, Inductive, PTL DEF Spec, DeliveredInOrder

-----------------------------------------------------------------------------
(* LongConn implements SessionContract.                                    *)

(* The life of a session, by the place of its pump task.                   *)
LEMMA LifeOf ==
  /\ Life("none") = "new" /\ Life("opening") = "new" /\ Life("start") = "up" /\ Life("drain") = "up"
  /\ Life("push") = "up" /\ Life("cleanup") = "down" /\ Life("done") = "down"
  BY DEF Life

(* A socket just accepted is a socket of the contract.                     *)
LEMMA ContractInit ==
  ASSUME Init PROVE Contract!CInit
  BY LifeOf DEF Init, Contract!CInit

(* Steps that no part of the contract can tell from a pause.               *)
LEMMA ContractPause ==
  ASSUME TypeOK, (main = "done") <=> (main' = "done"), UNCHANGED <<sent, got, closes>>,
         \A s \in Sessions : Life(pump[s])' = Life(pump[s])
  PROVE  UNCHANGED Contract!contractVars
  BY DEF Contract!contractVars

(* Every step of the loop, of a pump or of a handler is a step of the      *)
(* contract or a pause in it.                                              *)
LEMMA ContractStep ==
  ASSUME IInv, Next PROVE [Contract!CNext]_(Contract!contractVars)
<1> DEFINE Up == {"start", "drain", "push"}
<1>0. /\ \A s \in Sessions : pump[s] \in PumpStates
      /\ pump \in [Sessions -> PumpStates] /\ closes \in [Sessions -> Nat]
      /\ sent \in [Sessions -> 0 .. MaxSends]
  BY DEF IInv, TypeOK
<1>1. CASE Opened
  <2>1. target \in Sessions /\ pump[target] = "opening" /\ main # "done" /\ main' # "done"
        /\ UNCHANGED <<sent, got, closes>>
    BY <1>1, OpenedEffect DEF IInv, handlerVars
  <2>2. \A s \in Sessions : Life(pump'[s]) = IF s = target THEN "up" ELSE Life(pump[s])
    BY <1>1, <2>1, OpenedEffect, LifeOf DEF IInv
  <2>3. Contract!Connect(target)
    BY <1>1, <2>1, <2>2, LifeOf DEF Contract!Connect
  <2> QED
    BY <2>1, <2>3 DEF Contract!CNext
<1>2. CASE Write
  <2>0. main # "done" /\ main' # "done" /\ UNCHANGED <<pump, sent, closes>>
    BY <1>2 DEF Write, handlerVars
  <2>1. PICK r \in Sessions, n \in 0 .. MaxSends : Head(pushq) = [s |-> r, n |-> n]
    BY <1>2, HeadFrame
  <2>2. CASE n = 0
    BY <1>2, <2>0, <2>1, <2>2 DEF Write, Contract!contractVars
  <2>3. CASE n # 0
    <3>1. Contract!Hear(r)
      BY <1>2, <2>0, <2>1, <2>3, HeardNext DEF Contract!Hear
    <3> QED
      BY <3>1 DEF Contract!CNext
  <2> QED
    BY <2>2, <2>3
<1>3. CASE QueueClose
  <2>2. target \in Sessions /\ target <= opens
    BY <1>3, TargetType DEF IInv, QueueClose, Push
  <2>3. pump[target] \notin {"none", "opening"} /\ closes[target] = 0
    BY <1>0, <1>3, <2>2 DEF IInv, OpenInv, TableInv, CloseInv, Closing, QueueClose, Push
  <2>4. Life(pump[target]) # "new"
    BY <1>0, <2>2, <2>3, LifeOf DEF PumpStates
  <2>5. main # "done" /\ main' # "done" /\ UNCHANGED <<pump, sent, got>>
    BY <1>3 DEF QueueClose, handlerVars, Push
  <2>6. closes' = [closes EXCEPT ![target] = 1]
    BY <1>0, <1>3, <2>2, <2>3 DEF QueueClose, Push
  <2>7. Contract!Notify(target)
    BY <2>2, <2>3, <2>4, <2>5, <2>6 DEF Contract!Notify
  <2> QED
    BY <2>2, <2>7 DEF Contract!CNext
<1>4. CASE Stop /\ main # "done"
  <2>1. Contract!Cut
    BY <1>4 DEF Contract!Cut, Stop, handlerVars
  <2> QED
    BY <2>1 DEF Contract!CNext
<1>5. ASSUME NEW s \in Sessions, HandlerSend(s)
      PROVE  Contract!CNext
  <2>1. pump[s] \in {"drain", "push"}
    BY <1>0, <1>5
       DEF HandlerSend, Started, IInv, PipeInv, Disconnected, PumpStates
  <2>2. Contract!Say(s)
    BY <1>5, <2>1, LifeOf DEF Contract!Say, HandlerSend, loopVars
  <2> QED
    BY <2>2 DEF Contract!CNext
<1>6. ASSUME NEW s \in Sessions, pump[s] \in Up, pump' = [pump EXCEPT ![s] = "cleanup"],
             UNCHANGED <<main, sent, got, closes>>
      PROVE  Contract!CNext
  <2>1. \A r \in Sessions : Life(pump'[r]) = IF r = s THEN "down" ELSE Life(pump[r])
    BY <1>0, <1>6, LifeOf
  <2>2. Life(pump[s]) = "up"
    BY <1>6, LifeOf
  <2>3. Contract!Disconnect(s)
    BY <1>6, <2>1, <2>2 DEF Contract!Disconnect
  <2> QED
    BY <2>3 DEF Contract!CNext
<1>7. ASSUME NEW s \in Sessions, NEW p \in PumpStates, Life(pump[s]) = Life(p),
             pump' = [pump EXCEPT ![s] = p], UNCHANGED <<main, sent, got, closes>>
      PROVE  UNCHANGED Contract!contractVars
  <2>1. \A r \in Sessions : Life(pump'[r]) = Life(pump[r])
    BY <1>0, <1>7
  <2> QED
    BY <1>7, <2>1, ContractPause DEF IInv
<1>8. ASSUME (main = "done") <=> (main' = "done"), UNCHANGED <<pump, sent, got, closes>>
      PROVE  UNCHANGED Contract!contractVars
  BY <1>8, ContractPause DEF IInv
<1>9. ASSUME NEW s \in Sessions, PumpStart(s) PROVE [Contract!CNext]_(Contract!contractVars)
  <2>1. UNCHANGED <<main, sent, got, closes>> /\ pump[s] = "start" /\ "drain" \in PumpStates
    BY <1>9 DEF PumpStart, loopVars, PumpStates
  <2>2. pump' = [pump EXCEPT ![s] = "drain"] \/ pump' = [pump EXCEPT ![s] = "cleanup"]
    BY <1>9 DEF PumpStart
  <2> QED
    BY <1>6, <1>7, <2>1, <2>2, LifeOf
<1>10. ASSUME NEW s \in Sessions, PumpTake(s) \/ PumpPush(s) \/ PumpCleanup(s)
       PROVE  UNCHANGED Contract!contractVars
  <2>1. UNCHANGED <<main, sent, got, closes>>
    BY <1>10
       DEF PumpTake, PumpPush, PumpCleanup, loopVars, handlerVars, Push,
           Remove
  <2>2. PICK p \in PumpStates : pump' = [pump EXCEPT ![s] = p] /\ Life(pump[s]) = Life(p)
    BY <1>10, LifeOf
       DEF PumpTake, PumpPush, PumpCleanup, PumpStates, Push, Remove
  <2> QED
    BY <1>7, <2>1, <2>2
<1>11. ASSUME NEW s \in Sessions, PumpEnd(s) PROVE Contract!CNext
  BY <1>6, <1>11 DEF PumpEnd, loopVars, handlerVars, Drained
<1>12. ASSUME NEW s \in Sessions, HandlerRecv(s) \/ DropReceiver(s) \/ DropSender(s)
       PROVE  UNCHANGED Contract!contractVars
  BY <1>8, <1>12 DEF HandlerRecv, DropReceiver, DropSender, loopVars
<1>13. ASSUME NEW id \in Ids, ReadPush(id) \/ ReadClose(id) \/ Reap(id)
       PROVE  UNCHANGED Contract!contractVars
  BY <1>8, <1>13 DEF ReadPush, ReadClose, Reap, Reading, handlerVars, Remove
<1>14. ASSUME NEW alive \in SUBSET Ids, ReadHeartbeat(alive)
       PROVE  UNCHANGED Contract!contractVars
  BY <1>8, <1>14 DEF ReadHeartbeat, Reading, handlerVars
<1>15. ASSUME \/ Deliver \/ ReapEnd \/ ReadCall \/ ReadBad \/ Replied
              \/ CallReturn \/ Forward \/ PeerDrops
       PROVE  UNCHANGED Contract!contractVars
  BY <1>8, <1>15
     DEF Deliver, ReapEnd, ReadCall, ReadBad, Replied, CallReturn, Forward,
         PeerDrops, Reading, loopVars,
         handlerVars
<1>16. ASSUME ReadOpen PROVE UNCHANGED Contract!contractVars
  <2>1. /\ UNCHANGED <<sent, got, closes>> /\ main # "done" /\ main' # "done"
        /\ pump[opens + 1] = "none"
    BY <1>16, OpenEffect DEF ReadOpen, IInv, OpenInv
  <2>2. \A s \in Sessions : Life(pump'[s]) = Life(pump[s])
    BY <1>16, <2>1, OpenEffect, LifeOf DEF IInv
  <2> QED
    BY <2>1, <2>2, ContractPause DEF IInv
<1> QED
  BY <1>16, <1>1, <1>2, <1>3, <1>4, <1>5, <1>9, <1>10, <1>11, <1>12, <1>13, <1>14,
     <1>15
     DEF Next, MainLoop, ReadFrame, Pump, Handler, SocketEnds, CallPanics,
         WriteFails

(* The socket keeps the contract of SessionContract, with conn_ids reused or *)
(* not: it implements that specification (tcp.rs:154-494).                 *)
THEOREM Implements == Spec => KeepsContract
<1>1. Init => Contract!CInit
  BY ContractInit
<1>2. IInv /\ [Next]_vars => [Contract!CNext]_(Contract!contractVars)
  <2>1. ASSUME UNCHANGED vars PROVE UNCHANGED Contract!contractVars
    BY <2>1 DEF vars, Contract!contractVars
  <2> QED
    BY <2>1, ContractStep
<1> QED
  BY <1>1, <1>2, Inductive, PTL DEF Spec, KeepsContract, Contract!CSpec
================================================================================

----------------------- MODULE OrdinarySession_proofs -----------------------
(***************************************************************************)
(* Proofs about HttpServe, and about OrdinarySession, the sessions that run*)
(* on its server.                                                          *)
(***************************************************************************)
EXTENDS OrdinarySession, FiniteSetTheorems, TLAPS

-----------------------------------------------------------------------------
(***************************************************************************)
(* Proofs about the accept loop of the HTTP server, for any number of      *)
(* clients, permits and certificate paths and channels of any capacity.    *)
(*                                                                         *)
(* The permits are conserved because a task is spawned only for the        *)
(* connection the loop has accepted last, which has no permit yet:         *)
(* NextAccepted adds that to the invariant.  That no connection uses an    *)
(* old certificate is the exclusion of the lock: Install runs only when no *)
(* task holds a read guard.                                                *)
(***************************************************************************)

(* The loop waits for a permit for a connection that has no task yet.      *)
NextAccepted == loop = "permit" => next \in Peers /\ conn[next] = "accepted"

IInv == TypeOK /\ PermitsConserved /\ NoStaleCertificate /\ NextAccepted

-----------------------------------------------------------------------------
(* A path loads as a certificate or not at all.                            *)
LEMMA LoadType ==
  ASSUME TypeOK, NEW path \in Paths
  PROVE  Load(path) \in Certs \cup {None}
BY DEF TypeOK, Load, Certs

(* The tasks are finitely many.                                            *)
LEMMA TasksFinite == IsFiniteSet(Tasks) /\ Cardinality(Tasks) \in Nat
<1>1. Tasks \subseteq Peers BY DEF Tasks
<1>2. IsFiniteSet(Peers) BY HttpServeAssumption
<1>3. IsFiniteSet(Tasks) BY <1>1, <1>2, FS_Subset
<1> QED BY <1>3, FS_CardinalityType

(* As many permits are missing as there are tasks: when one more starts,   *)
(* one less is free.                                                       *)
LEMMA TaskStarts ==
  ASSUME TypeOK, PermitsConserved, permits > 0, permits' = permits - 1,
         NEW p \in Peers, p \notin Tasks, Tasks' = Tasks \cup {p}
  PROVE  PermitsConserved' /\ permits' \in 0 .. MaxConn
<1>1. Cardinality(Tasks \cup {p}) = Cardinality(Tasks) + 1
  BY TasksFinite, FS_AddElement
<1>2. permits \in 0 .. MaxConn /\ MaxConn \in Nat BY HttpServeAssumption DEF TypeOK
<1>3. Cardinality(Tasks') = Cardinality(Tasks) + 1 BY <1>1
<1> HIDE DEF Tasks
<1> QED BY <1>2, <1>3, TasksFinite DEF PermitsConserved

(* When a task ends its permit is free again.                              *)
LEMMA TaskEnds ==
  ASSUME TypeOK, PermitsConserved, permits' = permits + 1,
         NEW p \in Tasks, Tasks' = Tasks \ {p}
  PROVE  PermitsConserved' /\ permits' \in 0 .. MaxConn
<1>1. Cardinality(Tasks \ {p}) = Cardinality(Tasks) - 1
  BY TasksFinite, FS_RemoveElement
<1>2. permits \in 0 .. MaxConn /\ MaxConn \in Nat BY HttpServeAssumption DEF TypeOK
<1>3. Cardinality(Tasks) # 0
  <2>1. Tasks # {} OBVIOUS
  <2> QED BY <2>1, TasksFinite, FS_EmptySet
<1>4. Cardinality(Tasks') = Cardinality(Tasks) - 1 BY <1>1
<1> HIDE DEF Tasks
<1> QED BY <1>2, <1>3, <1>4, TasksFinite DEF PermitsConserved

(* Nothing changes for the permits while the set of tasks stays the same.  *)
LEMMA TasksStay ==
  ASSUME PermitsConserved, permits' = permits, Tasks' = Tasks
  PROVE  PermitsConserved'
<1> HIDE DEF Tasks
<1> QED BY DEF PermitsConserved

(* A task that ends, for whatever reason and in whatever state.            *)
LEMMA EndPreserves ==
  ASSUME IInv, NEW p \in Tasks, NEW state \in {"ended", "upgraded"}, End(p, state)
  PROVE  IInv'
<1> USE DEF IInv
<1>1. p \in Peers /\ conn \in [Peers -> ConnStates] BY DEF Tasks, TypeOK
<1>2. conn' = [conn EXCEPT ![p] = state] BY DEF End
<1>3. Tasks' = Tasks \ {p} BY <1>1, <1>2 DEF Tasks
<1>4. permits' = permits + 1 BY DEF End
<1>5. PermitsConserved' /\ permits' \in 0 .. MaxConn BY <1>3, <1>4, TaskEnds
<1>6. TypeOK'
  BY <1>1, <1>2, <1>5 DEF TypeOK, End, certVars, reloadVars, ConnStates
<1>7. NoStaleCertificate'
  BY <1>1, <1>2 DEF End, certVars, NoStaleCertificate, Readers
<1>8. NextAccepted'
  BY <1>1, <1>2 DEF End, NextAccepted, Tasks
<1> QED BY <1>5, <1>6, <1>7, <1>8

(* A bounded queue stays one when its head is taken.                       *)
LEMMA TailBounded ==
  ASSUME NEW S, NEW n \in Nat, NEW q \in Seq(S), q # <<>>, Len(q) <= n
  PROVE  Head(q) \in S /\ Tail(q) \in Seq(S) /\ Len(Tail(q)) <= n
<1>1. Head(q) \in S /\ Tail(q) \in Seq(S) /\ Len(Tail(q)) = Len(q) - 1 OBVIOUS
<1>2. Len(q) \in Nat OBVIOUS
<1> QED BY <1>1, <1>2

(* And when one more is queued while there is room.                        *)
LEMMA AppendBounded ==
  ASSUME NEW S, NEW n \in Nat, NEW q \in Seq(S), NEW m \in S, Len(q) < n
  PROVE  Append(q, m) \in Seq(S) /\ Len(Append(q, m)) <= n
<1>1. Append(q, m) \in Seq(S) /\ Len(Append(q, m)) = Len(q) + 1 OBVIOUS
<1>2. Len(q) \in Nat OBVIOUS
<1> QED BY <1>1, <1>2

(* The broadcast channel drops its oldest message when it is full.         *)
LEMMA OverflowBounded ==
  ASSUME NEW S, NEW q \in Seq(S), NEW m \in S, Len(q) <= BcastCap
  PROVE  Overflow(q, m) \in Seq(S) /\ Len(Overflow(q, m)) <= BcastCap
<1>1. BcastCap \in Nat /\ BcastCap > 0 BY HttpServeAssumption
<1>2. CASE Len(q) < BcastCap BY <1>1, <1>2, AppendBounded DEF Overflow
<1>3. CASE ~(Len(q) < BcastCap)
  <2>1. Len(q) \in Nat /\ Len(q) = BcastCap BY <1>1, <1>3
  <2>2. q # <<>> BY <1>1, <2>1
  <2>3. Tail(q) \in Seq(S) /\ Len(Tail(q)) = Len(q) - 1 BY <2>2
  <2>4. Len(Tail(q)) < BcastCap BY <1>1, <2>1, <2>3
  <2>5. Overflow(q, m) = Append(Tail(q), m) BY <1>3 DEF Overflow
  <2> QED BY <1>1, <2>3, <2>4, <2>5, AppendBounded
<1> QED BY <1>2, <1>3

-----------------------------------------------------------------------------
(* The invariant holds before the first connection.                        *)
LEMMA InitHolds == Init => IInv
<1> SUFFICES ASSUME Init PROVE IInv OBVIOUS
<1> USE HttpServeAssumption
<1>1. Tasks = {} /\ Readers = {} BY DEF Init, Tasks, Readers
<1>2. TypeOK
  <2>1. disk \in [Paths -> 0 .. MaxVersion] BY DEF Init
  <2>2. cert \in Certs \cup {None} BY <2>1 DEF Init, Load, Certs
  <2> QED BY <2>1, <2>2 DEF Init, TypeOK, LoopStates, ConnStates
<1>3. PermitsConserved
  <2>1. Cardinality(Tasks) = 0 BY <1>1, FS_EmptySet
  <2>2. permits = MaxConn /\ MaxConn \in Nat BY DEF Init
  <2> HIDE DEF Tasks
  <2> QED BY <2>1, <2>2 DEF PermitsConserved
<1>4. NoStaleCertificate BY <1>1 DEF NoStaleCertificate
<1>5. NextAccepted BY DEF Init, NextAccepted
<1> QED BY <1>2, <1>3, <1>4, <1>5 DEF IInv

(* Every step keeps it.                                                    *)
LEMMA StepHolds == IInv /\ [Next]_vars => IInv'
<1> SUFFICES ASSUME IInv, [Next]_vars PROVE IInv' OBVIOUS
<1> USE DEF IInv
<1>1. ASSUME NEW p \in Peers, Accept(p) PROVE IInv'
  <2>1. conn' = [conn EXCEPT ![p] = "accepted"] /\ conn[p] = "away" /\ next' = p
    BY <1>1 DEF Accept
  <2>2. TypeOK'
    BY <1>1, <2>1 DEF Accept, TypeOK, certVars, reloadVars, LoopStates, ConnStates
  <2>3. Tasks' = Tasks BY <2>1 DEF Tasks, TypeOK
  <2>4. PermitsConserved' BY <1>1, <2>3, TasksStay DEF Accept
  <2>5. NoStaleCertificate'
    BY <1>1, <2>1 DEF Accept, NoStaleCertificate, Readers, certVars, TypeOK
  <2>6. NextAccepted' BY <2>1 DEF NextAccepted, TypeOK
  <2> QED BY <2>2, <2>4, <2>5, <2>6
<1>2. ASSUME Spawn PROVE IInv'
  <2>1. next \in Peers /\ conn[next] = "accepted" BY <1>2 DEF Spawn, NextAccepted
  <2>2. conn' = [conn EXCEPT ![next] = "spawned"] /\ permits' = permits - 1
    BY <1>2 DEF Spawn
  <2>3. next \notin Tasks /\ Tasks' = Tasks \cup {next}
    BY <2>1, <2>2 DEF Tasks, TypeOK
  <2>4. PermitsConserved' /\ permits' \in 0 .. MaxConn
    BY <1>2, <2>1, <2>2, <2>3, TaskStarts DEF Spawn, Permitted
  <2>5. TypeOK'
    BY <1>2, <2>2, <2>4
    DEF Spawn, TypeOK, certVars, reloadVars, LoopStates, ConnStates
  <2>6. NoStaleCertificate'
    BY <1>2, <2>2 DEF Spawn, NoStaleCertificate, Readers, certVars, TypeOK
  <2>7. NextAccepted' BY <1>2 DEF Spawn, NextAccepted
  <2> QED BY <2>4, <2>5, <2>6, <2>7
<1>3. ASSUME NEW p \in Peers, ReadLock(p) PROVE IInv'
  <2>1. Tasks' = Tasks BY <1>3 DEF ReadLock, Guarded, Tasks, TypeOK
  <2>2. TypeOK'
    BY <1>3 DEF ReadLock, Guarded, TypeOK, certVars, reloadVars, LoopStates, ConnStates
  <2>3. PermitsConserved' BY <1>3, <2>1, TasksStay DEF ReadLock
  <2>4. NoStaleCertificate'
    BY <1>3 DEF ReadLock, Guarded, NoStaleCertificate, Readers, certVars, TypeOK
  <2>5. NextAccepted'
    BY <1>3 DEF ReadLock, Guarded, NextAccepted, TypeOK
  <2> QED BY <2>2, <2>3, <2>4, <2>5
<1>4. ASSUME NEW p \in Peers, Handshake(p) PROVE IInv'
  <2>1. Tasks' = Tasks BY <1>4 DEF Handshake, Tasks, TypeOK
  <2>2. TypeOK'
    BY <1>4 DEF Handshake, TypeOK, certVars, reloadVars, LoopStates, ConnStates
  <2>3. PermitsConserved' BY <1>4, <2>1, TasksStay DEF Handshake
  <2>4. NoStaleCertificate'
    BY <1>4 DEF Handshake, NoStaleCertificate, Readers, certVars, TypeOK
  <2>5. NextAccepted' BY <1>4 DEF Handshake, NextAccepted, TypeOK
  <2> QED BY <2>2, <2>3, <2>4, <2>5
<1>5. ASSUME NEW p \in Peers,
             HandshakeFails(p) \/ Disconnect(p) \/ TimeOut(p) \/ Upgrade(p)
      PROVE  IInv'
  <2>1. p \in Tasks /\ \E state \in {"ended", "upgraded"} : End(p, state)
    BY <1>5 DEF HandshakeFails, Disconnect, TimeOut, Upgrade, Tasks
  <2> QED BY <2>1, EndPreserves
<1>6. ASSUME Reload PROVE IInv'
  <2>1. Head(mpsc) \in Paths \cup {Same} /\ Tail(mpsc) \in Seq(Paths \cup {Same})
        /\ Len(Tail(mpsc)) <= MpscCap
    <3>1. mpsc \in Seq(Paths \cup {Same}) /\ mpsc # <<>> /\ Len(mpsc) <= MpscCap
      BY <1>6 DEF Reload, TypeOK
    <3> QED BY <3>1, TailBounded, HttpServeAssumption
  <2>2. paths' \in Paths BY <1>6, <2>1 DEF Reload, Resolve, TypeOK
  <2>3. loading' \in Certs \cup {None} BY <1>6, <2>2, LoadType DEF Reload
  <2>4. TypeOK'
    <3>1. mpsc' = Tail(mpsc) /\ loop' \in LoopStates BY <1>6 DEF Reload, LoopStates
    <3>2. mpsc' \in Seq(Paths \cup {Same}) /\ Len(mpsc') <= MpscCap BY <2>1, <3>1
    <3>3. UNCHANGED <<next, conn, permits, cert, certOf, bcast, fwd, disk, main>>
      BY <1>6 DEF Reload
    <3> QED BY <2>2, <2>3, <3>1, <3>2, <3>3 DEF TypeOK
  <2>5. Tasks' = Tasks /\ Readers' = Readers BY <1>6 DEF Reload, Tasks, Readers
  <2>6. PermitsConserved' BY <1>6, <2>5, TasksStay DEF Reload
  <2>7. NoStaleCertificate' BY <1>6, <2>5 DEF Reload, NoStaleCertificate
  <2>8. NextAccepted' BY <1>6 DEF Reload, NextAccepted
  <2> QED BY <2>4, <2>6, <2>7, <2>8
<1>7. ASSUME Install PROVE IInv'
  <2> DEFINE waiting == {p \in Peers : conn[p] = "queued"}
  <2>1. /\ conn' = [p \in Peers |-> IF p \in waiting THEN "handshake" ELSE conn[p]]
        /\ certOf' = [p \in Peers |-> IF p \in waiting THEN loading ELSE certOf[p]]
        /\ cert' = loading /\ Readers = {} /\ loop' = "select"
    BY <1>7 DEF Install, Writable
  <2>2. TypeOK'
    BY <1>7, <2>1 DEF Install, TypeOK, reloadVars, LoopStates, ConnStates
  <2>3. Tasks' = Tasks BY <2>1 DEF Tasks, TypeOK
  <2>4. PermitsConserved' BY <1>7, <2>3, TasksStay DEF Install
  <2>5. NoStaleCertificate' BY <2>1 DEF NoStaleCertificate, Readers
  <2>6. NextAccepted' BY <2>1 DEF NextAccepted
  <2> QED BY <2>2, <2>4, <2>5, <2>6
<1>8. ASSUME ReloadNext PROVE IInv'
  <2>1. UNCHANGED <<loop, next, conn, permits, certOf, certVars, main>>
    BY <1>8 DEF ReloadNext, Renew, AskReload, ForwardTake, ForwardSend
  <2>2. Tasks' = Tasks /\ Readers' = Readers BY <2>1 DEF Tasks, Readers
  <2>3. PermitsConserved' BY <2>1, <2>2, TasksStay
  <2>4. NoStaleCertificate' BY <2>1, <2>2 DEF NoStaleCertificate, certVars
  <2>5. NextAccepted' BY <2>1 DEF NextAccepted
  <2>6. disk' \in [Paths -> 0 .. MaxVersion]
    BY <1>8, HttpServeAssumption
    DEF ReloadNext, Renew, AskReload, ForwardTake, ForwardSend, TypeOK
  <2>7. bcast' \in Seq(Paths \cup {Same}) /\ Len(bcast') <= BcastCap
    <3>1. bcast \in Seq(Paths \cup {Same}) /\ Len(bcast) <= BcastCap BY DEF TypeOK
    <3>2. ASSUME NEW m \in Paths \cup {Same}, AskReload(m)
          PROVE  bcast' \in Seq(Paths \cup {Same}) /\ Len(bcast') <= BcastCap
      <4>1. bcast' = Overflow(bcast, m) BY <3>2 DEF AskReload
      <4> QED BY <3>1, <4>1, OverflowBounded
    <3>3. ASSUME ForwardTake
          PROVE  bcast' \in Seq(Paths \cup {Same}) /\ Len(bcast') <= BcastCap
      BY <3>1, <3>3, TailBounded, HttpServeAssumption DEF ForwardTake
    <3>4. ASSUME (\E path \in Paths : Renew(path)) \/ ForwardSend PROVE bcast' = bcast
      BY <3>4 DEF Renew, ForwardSend
    <3> QED BY <1>8, <3>1, <3>2, <3>3, <3>4 DEF ReloadNext
  <2>8. mpsc' \in Seq(Paths \cup {Same}) /\ Len(mpsc') <= MpscCap
    <3>1. mpsc \in Seq(Paths \cup {Same}) /\ Len(mpsc) <= MpscCap BY DEF TypeOK
    <3>2. ASSUME ForwardSend
          PROVE  mpsc' \in Seq(Paths \cup {Same}) /\ Len(mpsc') <= MpscCap
      <4>1. fwd \in Paths \cup {Same} /\ Len(mpsc) < MpscCap /\ mpsc' = Append(mpsc, fwd)
        BY <3>2 DEF ForwardSend, TypeOK
      <4> QED BY <3>1, <4>1, AppendBounded, HttpServeAssumption
    <3>3. ASSUME \/ \E path \in Paths : Renew(path)
                 \/ \E m \in Paths \cup {Same} : AskReload(m)
                 \/ ForwardTake
          PROVE  mpsc' = mpsc
      BY <3>3 DEF Renew, AskReload, ForwardTake
    <3> QED BY <1>8, <3>1, <3>2, <3>3 DEF ReloadNext
  <2>9. fwd' \in Paths \cup {Same, None}
    BY <1>8 DEF ReloadNext, Renew, AskReload, ForwardTake, ForwardSend, TypeOK
  <2>10. TypeOK' BY <2>1, <2>6, <2>7, <2>8, <2>9 DEF TypeOK, certVars
  <2> QED BY <2>3, <2>4, <2>5, <2>10
<1>9. ASSUME Leave \/ Shutdown \/ Return \/ UNCHANGED vars PROVE IInv'
  <2>1. /\ UNCHANGED <<next, conn, permits, certOf, certVars, reloadVars>>
        /\ loop' \in {loop, "done"}
        /\ main' \in {main, "stopping", "returned"}
    BY <1>9 DEF Leave, Shutdown, Return, vars
  <2>2. Tasks' = Tasks /\ Readers' = Readers BY <2>1 DEF Tasks, Readers
  <2>3. PermitsConserved' BY <2>1, <2>2, TasksStay
  <2>4. TypeOK' BY <2>1 DEF TypeOK, certVars, reloadVars, LoopStates
  <2>5. NoStaleCertificate' BY <2>1, <2>2 DEF NoStaleCertificate, certVars
  <2>6. NextAccepted' BY <2>1 DEF NextAccepted
  <2> QED BY <2>3, <2>4, <2>5, <2>6
<1> QED
  BY <1>1, <1>2, <1>3, <1>4, <1>5, <1>6, <1>7, <1>8, <1>9
  DEF Next, Serving, LoopNext, ConnNext

(* The invariant holds in every reachable state.                           *)
THEOREM Inductive == Spec => []IInv
BY InitHolds, StepHolds, PTL DEF Spec

-----------------------------------------------------------------------------
(* Types: the number of free permits stays between 0 and max_connections   *)
(* and no channel of the reload exceeds its capacity.                      *)
THEOREM TypeCorrect == Spec => []TypeOK
<1>1. IInv => TypeOK BY DEF IInv
<1> QED BY <1>1, Inductive, PTL

(* No permit is lost or made up, whatever ends a connection.               *)
THEOREM PermitsHold == Spec => []PermitsConserved
<1>1. IInv => PermitsConserved BY DEF IInv
<1> QED BY <1>1, Inductive, PTL

(* So that at most max_connections are in their handshake or served with   *)
(* HTTP, an SSE stream included, at a time.  Sockets that were upgraded are*)
(* not among them: each of them has given its permit back.                 *)
THEOREM HttpBounded == Spec => [](Cardinality(Tasks) <= MaxConn)
<1>1. IInv => Cardinality(Tasks) <= MaxConn
  <2> SUFFICES ASSUME IInv PROVE Cardinality(Tasks) <= MaxConn OBVIOUS
  <2>1. permits \in 0 .. MaxConn /\ MaxConn \in Nat
    BY HttpServeAssumption DEF IInv, TypeOK
  <2>2. permits + Cardinality(Tasks) = MaxConn BY DEF IInv, PermitsConserved
  <2> HIDE DEF Tasks
  <2> QED BY <2>1, <2>2, TasksFinite
<1> QED BY <1>1, Inductive, PTL

(* A connection is never served with a certificate that was replaced.      *)
THEOREM CertificatesCurrent == Spec => []NoStaleCertificate
<1>1. IInv => NoStaleCertificate BY DEF IInv
<1> QED BY <1>1, Inductive, PTL

-----------------------------------------------------------------------------
(***************************************************************************)
(* Proofs about OrdinarySession, for any number of peers, capacity and     *)
(* number of messages: the sessions leave the server of HttpServe what it  *)
(* is, a client is sent the handler's messages in order and none twice,    *)
(* and an SSE stream that ends by itself is complete.                      *)
(*                                                                         *)
(* The argument: while the sender runs and no close was sent, the channel  *)
(* holds the messages between the last one written and the last one sent,  *)
(* one after the other, with at most one close among them.                 *)
(***************************************************************************)

SessionType ==
  /\ kind \in [Peers -> {"none", "ws", "sse"}]
  /\ hand \in [Peers -> {"none", "run", "done"}]
  /\ out \in [Peers -> Seq(Nat)]
  /\ sender \in [Peers -> {"none", "run", "done"}]
  /\ sent \in [Peers -> Nat] /\ got \in [Peers -> Nat]
  /\ closed \in [Peers -> {"", "close", "end"}]

(* The messages from m + 1 to n with the close in place z, if that is one. *)
Numbered(q, m, n) ==
  \E z \in 1 .. Len(q) + 1 :
    /\ \A i \in DOMAIN q : q[i] = IF i < z THEN m + i ELSE IF i = z THEN 0 ELSE m + i - 1
    /\ n = IF z <= Len(q) THEN m + Len(q) - 1 ELSE m + Len(q)

SessionOK(p) ==
  /\ kind[p] = "none" => /\ out[p] = <<>> /\ sent[p] = 0 /\ got[p] = 0
                         /\ closed[p] = "" /\ sender[p] = "none"
  /\ kind[p] = "sse" => conn[p] \in {"serving", "ended"}
  /\ closed[p] = "end" => sender[p] = "done"
  /\ kind[p] = "sse" /\ closed[p] = "close" => sender[p] = "done"
  /\ sender[p] = "run" /\ closed[p] = "" => Numbered(out[p], got[p], sent[p])
  /\ kind[p] = "sse" /\ closed[p] = "end" /\ conn[p] = "serving" => got[p] = sent[p]

SessionInv == SessionType /\ \A p \in Peers : SessionOK(p)

-----------------------------------------------------------------------------
(* The numbering as the channel is used.                                   *)
LEMMA NumberedEmpty ==
  ASSUME NEW m \in Nat, NEW n \in Nat
  PROVE  Numbered(<<>>, m, n) <=> m = n
<1>1. Len(<<>>) = 0 /\ DOMAIN <<>> = {} /\ 1 .. 0 + 1 = {1}
  OBVIOUS
<1> QED
  BY <1>1 DEF Numbered

LEMMA NumberedSend ==
  ASSUME NEW q \in Seq(Nat), NEW m \in Nat, NEW n \in Nat, Numbered(q, m, n)
  PROVE  Numbered(Append(q, n + 1), m, n + 1)
<1> DEFINE r == Append(q, n + 1)
<1>1. PICK z \in 1 .. Len(q) + 1 :
        /\ \A i \in DOMAIN q : q[i] = IF i < z THEN m + i ELSE IF i = z THEN 0 ELSE m + i - 1
        /\ n = IF z <= Len(q) THEN m + Len(q) - 1 ELSE m + Len(q)
  BY DEF Numbered
<1>2. /\ Len(q) \in Nat /\ Len(r) = Len(q) + 1 /\ DOMAIN r = 1 .. Len(q) + 1
      /\ DOMAIN q = 1 .. Len(q) /\ r[Len(q) + 1] = n + 1
      /\ \A i \in DOMAIN q : r[i] = q[i]
  OBVIOUS
<1> HIDE DEF r
<1>3. CASE z <= Len(q)
  <2>1. ASSUME NEW i \in DOMAIN r
        PROVE  r[i] = IF i < z THEN m + i ELSE IF i = z THEN 0 ELSE m + i - 1
    <3>1. CASE i \in DOMAIN q
      BY <1>1, <1>2, <3>1
    <3>2. CASE i = Len(q) + 1
      <4>1. r[i] = n + 1 /\ n = m + Len(q) - 1 /\ z \in Nat /\ i > z /\ i \in Nat
        BY <1>1, <1>2, <1>3, <3>2
      <4> QED
        BY <1>2, <3>2, <4>1
    <3> QED
      BY <1>2, <3>1, <3>2
  <2>2. n + 1 = m + Len(r) - 1 /\ z <= Len(r) /\ z \in 1 .. Len(r) + 1
    BY <1>1, <1>2, <1>3
  <2>3. Numbered(r, m, n + 1)
    BY <2>1, <2>2 DEF Numbered
  <2> QED
    BY <2>3 DEF r
<1>4. CASE z = Len(q) + 1
  <2> DEFINE y == Len(r) + 1
  <2>1. ASSUME NEW i \in DOMAIN r
        PROVE  r[i] = IF i < y THEN m + i ELSE IF i = y THEN 0 ELSE m + i - 1
    <3>1. i \in Nat /\ i < y
      BY <1>1, <1>2
    <3>2. r[i] = m + i
      BY <1>1, <1>2, <1>4, SMTT(60)
    <3> QED
      BY <3>1, <3>2
  <2>2. n + 1 = m + Len(r) /\ ~(y <= Len(r)) /\ y \in 1 .. Len(r) + 1
    BY <1>1, <1>2, <1>4
  <2>3. Numbered(r, m, n + 1)
    BY <2>1, <2>2 DEF Numbered
  <2> QED
    BY <2>3 DEF r
<1> QED
  BY <1>2, <1>3, <1>4

LEMMA NumberedClose ==
  ASSUME NEW q \in Seq(Nat), NEW m \in Nat, NEW n \in Nat, Numbered(q, m, n),
         \A i \in DOMAIN q : q[i] # 0
  PROVE  Numbered(Append(q, 0), m, n)
<1> DEFINE r == Append(q, 0)
<1>1. PICK z \in 1 .. Len(q) + 1 :
        /\ \A i \in DOMAIN q : q[i] = IF i < z THEN m + i ELSE IF i = z THEN 0 ELSE m + i - 1
        /\ n = IF z <= Len(q) THEN m + Len(q) - 1 ELSE m + Len(q)
  BY DEF Numbered
<1>2. /\ Len(q) \in Nat /\ Len(r) = Len(q) + 1 /\ DOMAIN r = 1 .. Len(q) + 1
      /\ DOMAIN q = 1 .. Len(q) /\ r[Len(q) + 1] = 0
      /\ \A i \in DOMAIN q : r[i] = q[i]
  OBVIOUS
<1> HIDE DEF r
<1>3. z = Len(q) + 1
  BY <1>1, <1>2
<1>4. \A i \in DOMAIN r : r[i] = IF i < z THEN m + i ELSE IF i = z THEN 0 ELSE m + i - 1
  BY <1>1, <1>2, <1>3
<1>5. n = m + Len(r) - 1 /\ z <= Len(r) /\ z \in 1 .. Len(r) + 1
  BY <1>1, <1>2, <1>3
<1>6. Numbered(r, m, n)
  BY <1>4, <1>5 DEF Numbered
<1> QED
  BY <1>6 DEF r

LEMMA NumberedTake ==
  ASSUME NEW q \in Seq(Nat), q # <<>>, NEW m \in Nat, NEW n \in Nat, Numbered(q, m, n),
         Head(q) # 0
  PROVE  Head(q) = m + 1 /\ Numbered(Tail(q), m + 1, n)
<1> DEFINE r == Tail(q)
<1>1. PICK z \in 1 .. Len(q) + 1 :
        /\ \A i \in DOMAIN q : q[i] = IF i < z THEN m + i ELSE IF i = z THEN 0 ELSE m + i - 1
        /\ n = IF z <= Len(q) THEN m + Len(q) - 1 ELSE m + Len(q)
  BY DEF Numbered
<1>2. /\ Len(q) \in Nat /\ Len(q) > 0 /\ Len(r) = Len(q) - 1 /\ DOMAIN r = 1 .. Len(q) - 1
      /\ DOMAIN q = 1 .. Len(q) /\ Head(q) = q[1]
      /\ \A i \in DOMAIN r : r[i] = q[i + 1]
  OBVIOUS
<1> HIDE DEF r
<1>3. z > 1 /\ Head(q) = m + 1
  <2>1. 1 \in DOMAIN q /\ Head(q) = q[1] /\ z \in Nat /\ z >= 1
    BY <1>2
  <2>2. q[1] = IF 1 < z THEN m + 1 ELSE IF 1 = z THEN 0 ELSE m + 1 - 1
    BY <1>1, <2>1
  <2>3. z # 1
    BY <2>1, <2>2
  <2> QED
    BY <2>1, <2>2, <2>3
<1> DEFINE y == z - 1
<1>7. z \in Nat /\ z <= Len(q) + 1 /\ y \in Nat /\ y >= 1 /\ z = y + 1
  BY <1>1, <1>2, <1>3
<1> HIDE DEF y
<1>4. ASSUME NEW i \in DOMAIN r
      PROVE  r[i] = IF i < y THEN (m + 1) + i ELSE IF i = y THEN 0 ELSE (m + 1) + i - 1
  <2>1. i \in Nat /\ i + 1 \in DOMAIN q /\ r[i] = q[i + 1]
    BY <1>2, SMTT(60)
  <2>2. q[i + 1] = IF i + 1 < z THEN m + (i + 1) ELSE IF i + 1 = z THEN 0 ELSE m + (i + 1) - 1
    BY <1>1, <2>1
  <2>3. (i + 1 < z <=> i < y) /\ (i + 1 = z <=> i = y)
    BY <1>7, <2>1
  <2>4. m + (i + 1) = (m + 1) + i /\ m + (i + 1) - 1 = (m + 1) + i - 1
    <3>1. \A a, b \in Nat : a + (b + 1) = (a + 1) + b /\ a + (b + 1) - 1 = (a + 1) + b - 1
      OBVIOUS
    <3> QED
      BY <2>1, <3>1
  <2> QED
    BY <2>1, <2>2, <2>3, <2>4
<1>5. n = (IF y <= Len(r) THEN (m + 1) + Len(r) - 1 ELSE (m + 1) + Len(r)) /\ y \in 1 .. Len(r) + 1
  <2>1. n = IF z <= Len(q) THEN m + Len(q) - 1 ELSE m + Len(q)
    BY <1>1
  <2>2. Len(q) = Len(r) + 1 /\ Len(r) \in Nat
    BY <1>2
  <2>3. (z <= Len(q)) <=> (y <= Len(r))
    BY <1>7, <2>2
  <2>4. m + Len(q) - 1 = (m + 1) + Len(r) - 1 /\ m + Len(q) = (m + 1) + Len(r)
    BY <2>2
  <2>5. y \in 1 .. Len(r) + 1
    BY <1>7, <2>2
  <2> QED
    BY <2>1, <2>3, <2>4, <2>5
<1>6. Numbered(r, m + 1, n)
  BY <1>4, <1>5 DEF Numbered
<1> QED
  BY <1>3, <1>6 DEF r

-----------------------------------------------------------------------------
(* The server goes its way, with sessions or without.                      *)
LEMMA SessionServes ==
  ASSUME SessionNext PROVE [Next]_vars
<1>1. ASSUME NEW p \in Peers, StartWs(p) PROVE Next
  BY <1>1 DEF StartWs, Next, SessionNext
<1>2. CASE Serving
  BY <1>2 DEF Next, SessionNext
<1>3. ASSUME NEW p \in Peers, StartSse(p) \/ HandlerNext(p) \/ TaskNext(p) \/ ClientNext(p)
      PROVE  UNCHANGED vars
  BY <1>3 DEF StartSse, HandlerNext, TaskNext, ClientNext, Send, SendClose, Recv, HandlerReturns,
              Write, StopSender, ReceiveEnd, PassClose, StopReceiver, Receive, ClientLeaves
<1> QED
  BY <1>1, <1>2, <1>3 DEF SessionNext

(* Sessions of ordinary routes leave the server what it is without them:   *)
(* all that holds of its permits, certificates and connections holds with  *)
(* sessions on them (http.rs:1865-2160).                                   *)
THEOREM SessionsKeepServer == SessionSpec => Spec
<1>1. SessionInit => Init
  BY DEF SessionInit
<1>2. [SessionNext]_allVars => [Next]_vars
  <2>1. ASSUME UNCHANGED allVars PROVE UNCHANGED vars
    BY <2>1 DEF allVars
  <2> QED
    BY <2>1, SessionServes
<1> QED
  BY <1>1, <1>2, PTL DEF SessionSpec, Spec

-----------------------------------------------------------------------------
(* A peer that a step does not concern keeps its session.                  *)
LEMMA OthersOK ==
  ASSUME NEW p \in Peers, SessionOK(p),
         kind'[p] = kind[p], out'[p] = out[p], sender'[p] = sender[p],
         sent'[p] = sent[p], got'[p] = got[p], closed'[p] = closed[p],
         \/ conn'[p] = conn[p]
         \/ kind[p] = "none"
         \/ conn[p] = "serving" /\ conn'[p] = "ended"
  PROVE  SessionOK(p)'
BY DEF SessionOK

(* A connection that is served is left, or ends, and is not taken up again *)
(* but by the handshake or the request that starts a session on it.        *)
LEMMA ServedEnds ==
  ASSUME IInv, Serving, NEW p \in Peers, conn[p] \in {"serving", "ended"}
  PROVE  conn'[p] = conn[p] \/ (conn[p] = "serving" /\ conn'[p] = "ended")
<1> USE DEF IInv
<1>0. conn \in [Peers -> ConnStates]
  BY DEF TypeOK
<1>1. CASE Spawn
  <2>1. conn[next] = "accepted" /\ conn' = [conn EXCEPT ![next] = "spawned"]
    BY <1>1 DEF Spawn, NextAccepted
  <2> QED
    BY <1>0, <2>1
<1>2. CASE Install
  BY <1>0, <1>2 DEF Install
<1>3. ASSUME NEW r \in Peers, Accept(r) PROVE conn'[p] = conn[p]
  BY <1>0, <1>3 DEF Accept
<1>4. ASSUME NEW r \in Peers,
             ReadLock(r) \/ Handshake(r) \/ HandshakeFails(r) \/ Disconnect(r) \/ TimeOut(r)
      PROVE  conn'[p] = conn[p] \/ (conn[p] = "serving" /\ conn'[p] = "ended")
  BY <1>0, <1>4 DEF ReadLock, Handshake, HandshakeFails, Disconnect, TimeOut, End
<1>5. ASSUME Reload \/ Leave \/ ReloadNext \/ Shutdown \/ Return PROVE conn' = conn
  BY <1>5 DEF Reload, Leave, ReloadNext, Shutdown, Return, Renew, AskReload, ForwardTake, ForwardSend
<1> QED
  BY <1>1, <1>2, <1>3, <1>4, <1>5 DEF Serving, LoopNext, ConnNext

(* Each action keeps the types of the sessions.                            *)
LEMMA SessionTypeStep ==
  ASSUME SessionType, SessionNext PROVE SessionType'
<1>1. ASSUME UNCHANGED sessionVars PROVE SessionType'
  BY <1>1 DEF SessionType, sessionVars, taskVars
<1>2. ASSUME NEW p \in Peers, StartWs(p) \/ StartSse(p) PROVE SessionType'
  BY <1>2 DEF StartWs, StartSse, SessionType
<1>3. ASSUME NEW p \in Peers, Send(p) \/ SendClose(p) PROVE SessionType'
  <2>1. sent[p] \in Nat /\ out[p] \in Seq(Nat)
    BY DEF SessionType
  <2>2. Append(out[p], sent[p] + 1) \in Seq(Nat) /\ Append(out[p], 0) \in Seq(Nat)
    BY <2>1
  <2>3. UNCHANGED <<kind, hand, sender, got, closed>>
    BY <1>3 DEF Send, SendClose, taskVars
  <2>4. out' \in [Peers -> Seq(Nat)]
    <3>1. CASE Send(p)
      BY <2>2, <3>1 DEF Send, SessionType
    <3>2. CASE SendClose(p)
      BY <2>2, <3>2 DEF SendClose, SessionType
    <3> QED
      BY <1>3, <3>1, <3>2
  <2>5. sent' \in [Peers -> Nat]
    <3>1. CASE Send(p)
      <4>1. sent[p] + 1 \in Nat /\ sent' = [sent EXCEPT ![p] = sent[p] + 1]
        BY <2>1, <3>1 DEF Send
      <4> QED
        BY <4>1 DEF SessionType
    <3>2. CASE SendClose(p)
      <4>1. sent' = sent
        BY <3>2 DEF SendClose
      <4> QED
        BY <4>1 DEF SessionType
    <3> QED
      BY <1>3, <3>1, <3>2
  <2> QED
    BY <2>3, <2>4, <2>5 DEF SessionType
<1>4. ASSUME NEW p \in Peers, Write(p) PROVE SessionType'
  <2>1. out[p] \in Seq(Nat) /\ out[p] # <<>>
    BY <1>4 DEF Write, SessionType
  <2>2. Tail(out[p]) \in Seq(Nat) /\ Head(out[p]) \in Nat
    BY <2>1
  <2> QED
    BY <1>4, <2>2 DEF Write, SessionType
<1>5. ASSUME NEW p \in Peers, Recv(p) \/ HandlerReturns(p) \/ StopSender(p) PROVE SessionType'
  BY <1>5 DEF Recv, HandlerReturns, StopSender, SessionType, taskVars
<1>6. ASSUME NEW p \in Peers, ReceiveEnd(p) \/ PassClose(p) \/ StopReceiver(p) \/ ClientNext(p)
      PROVE  SessionType'
  BY <1>6 DEF ReceiveEnd, PassClose, StopReceiver, ClientNext, Receive, ClientLeaves, SessionType,
              taskVars
<1> QED
  BY <1>1, <1>2, <1>3, <1>4, <1>5, <1>6 DEF SessionNext, HandlerNext, TaskNext

(* What the sender takes from the channel: see Write.                      *)
LEMMA WriteEffect ==
  ASSUME SessionInv, NEW p \in Peers, Write(p)
  PROVE  /\ got'[p] # got[p] => got'[p] = got[p] + 1 /\ closed[p] = ""
         /\ SessionOK(p)'
         /\ \A r \in Peers : r # p => got'[r] = got[r]
<1> USE DEF SessionInv
<1> DEFINE m == Head(out[p])
           lost == kind[p] = "ws" /\ (gone[p] \/ closed[p] = "close")
           ends == lost \/ (kind[p] = "sse" /\ m = 0)
<1>1. /\ sender[p] = "run" /\ out[p] # <<>> /\ out'[p] = Tail(out[p]) /\ kind' = kind /\ conn' = conn
      /\ closed'[p] = (IF m = 0 /\ ~lost THEN "close" ELSE closed[p])
      /\ got'[p] = (IF m = 0 \/ lost THEN got[p] ELSE m)
      /\ sender'[p] = (IF ends THEN "done" ELSE "run")
      /\ sent' = sent
  BY DEF Write, Consumed, SessionType, vars
<1>2. \A r \in Peers : r # p => got'[r] = got[r]
  BY DEF Write, SessionType
<1>3. kind[p] \in {"ws", "sse"} /\ closed[p] \in {"", "close"} /\ (kind[p] = "sse" => closed[p] = "")
  BY <1>1 DEF SessionOK, SessionType
<1>4. kind[p] = "ws" /\ closed[p] = "close" => lost
  OBVIOUS
<1>5. out[p] \in Seq(Nat) /\ got[p] \in Nat /\ sent[p] \in Nat
  BY DEF SessionType
<1> HIDE DEF m, lost, ends
<1>6. CASE m # 0 /\ ~lost
  <2>1. closed[p] = "" /\ ~ends
    BY <1>3, <1>4, <1>6 DEF ends
  <2>2. m = got[p] + 1 /\ Numbered(Tail(out[p]), got[p] + 1, sent[p])
    BY <1>1, <1>5, <1>6, <2>1, NumberedTake DEF SessionOK, m
  <2>3. got'[p] = got[p] + 1 /\ closed'[p] = "" /\ sender'[p] = "run"
    BY <1>1, <1>6, <2>1, <2>2
  <2> QED
    BY <1>1, <1>2, <2>1, <2>2, <2>3 DEF SessionOK
<1>7. CASE m = 0 \/ lost
  <2>1. got'[p] = got[p] /\ closed'[p] # "end" /\ (~lost => closed'[p] = "close")
    BY <1>1, <1>3, <1>7
  <2>2. lost \/ kind[p] = "sse" => sender'[p] = "done"
    BY <1>1, <1>7 DEF ends
  <2>3. lost => sender'[p] # "run"
    BY <2>2
  <2> QED
    BY <1>1, <1>2, <1>3, <2>1, <2>2, <2>3 DEF SessionOK
<1> QED
  BY <1>6, <1>7

(* Each action keeps the sessions as they should be.                       *)
LEMMA SessionStep ==
  ASSUME IInv, SessionInv, SessionNext PROVE SessionInv'
<1> USE DEF SessionInv
<1>0. SessionType'
  BY SessionTypeStep
<1>1. ASSUME Serving, UNCHANGED sessionVars, NEW r \in Peers PROVE SessionOK(r)'
  <2>1. kind[r] \in {"none", "sse"} \/ kind[r] = "ws"
    BY DEF SessionType
  <2>2. kind[r] = "sse" => conn[r] \in {"serving", "ended"}
    BY DEF SessionOK
  <2>3. kind[r] = "sse" => conn'[r] = conn[r] \/ (conn[r] = "serving" /\ conn'[r] = "ended")
    BY <1>1, <2>2, ServedEnds
  <2>4. kind[r] # "sse" => SessionOK(r)'
    BY <1>1, <2>1 DEF SessionOK, sessionVars, taskVars
  <2> QED
    BY <1>1, <2>3, <2>4, OthersOK DEF sessionVars, taskVars
<1>2. ASSUME NEW p \in Peers, NEW r \in Peers, StartWs(p) \/ StartSse(p) PROVE SessionOK(r)'
  <2>1. kind[p] = "none" /\ UNCHANGED <<out, sent, got, closed>>
    BY <1>2 DEF StartWs, StartSse
  <2>2. CASE r # p
    <3>1. kind'[r] = kind[r] /\ sender'[r] = sender[r]
      BY <1>2, <2>2 DEF StartWs, StartSse, SessionType
    <3>2. conn'[r] = conn[r]
      <4>1. CASE StartWs(p)
        BY <2>2, <4>1 DEF StartWs, Upgrade, End, IInv, TypeOK
      <4>2. CASE StartSse(p)
        BY <4>2 DEF StartSse, vars
      <4> QED
        BY <1>2, <4>1, <4>2
    <3> QED
      BY <2>1, <3>1, <3>2, OthersOK
  <2>3. CASE r = p
    <3>1. out'[p] = <<>> /\ sent'[p] = 0 /\ got'[p] = 0 /\ closed'[p] = ""
      BY <2>1 DEF SessionOK
    <3>2. Numbered(<<>>, 0, 0)
      BY NumberedEmpty
    <3>3. kind'[p] \in {"ws", "sse"} /\ (kind'[p] = "sse" => conn'[p] = "serving")
      BY <1>2 DEF StartWs, StartSse, SessionType, vars
    <3> QED
      BY <2>3, <3>1, <3>2, <3>3 DEF SessionOK
  <2> QED
    BY <2>2, <2>3
<1>3. ASSUME NEW p \in Peers, NEW r \in Peers, Send(p) \/ SendClose(p) PROVE SessionOK(r)'
  <2>1. UNCHANGED <<kind, sender, got, closed>> /\ conn' = conn /\ sender[p] = "run"
    BY <1>3 DEF Send, SendClose, taskVars, vars, Consumed
  <2>2. CASE r # p
    <3>1. out'[r] = out[r] /\ sent'[r] = sent[r]
      BY <1>3, <2>2 DEF Send, SendClose, SessionType
    <3> QED
      BY <2>1, <3>1, OthersOK
  <2>3. CASE r = p
    <3>1. out[p] \in Seq(Nat) /\ got[p] \in Nat /\ sent[p] \in Nat
      BY DEF SessionType
    <3>2. closed[p] = "" => Numbered(out[p], got[p], sent[p])
      BY <2>1 DEF SessionOK
    <3>3. closed[p] = "" => Numbered(out'[p], got[p], sent'[p])
      <4>1. CASE Send(p)
        <5>1. out'[p] = Append(out[p], sent[p] + 1) /\ sent'[p] = sent[p] + 1
          BY <4>1 DEF Send, SessionType
        <5> QED
          BY <3>1, <3>2, <5>1, NumberedSend
      <4>2. CASE SendClose(p)
        <5>1. /\ out'[p] = Append(out[p], 0) /\ sent'[p] = sent[p]
              /\ \A i \in DOMAIN out[p] : out[p][i] # 0
          BY <4>2 DEF SendClose, SessionType
        <5> QED
          BY <3>1, <3>2, <5>1, NumberedClose
      <4> QED
        BY <1>3, <4>1, <4>2
    <3> QED
      BY <2>1, <2>3, <3>3 DEF SessionOK
  <2> QED
    BY <2>2, <2>3
<1>4. ASSUME NEW p \in Peers, NEW r \in Peers, Write(p) PROVE SessionOK(r)'
  <2>1. CASE r # p
    <3>1. /\ kind' = kind /\ conn' = conn /\ sent' = sent /\ out'[r] = out[r]
          /\ sender'[r] = sender[r] /\ got'[r] = got[r] /\ closed'[r] = closed[r]
      BY <1>4, <2>1 DEF Write, SessionType, vars
    <3> QED
      BY <3>1, OthersOK
  <2> QED
    BY <1>4, <2>1, WriteEffect
<1>5. ASSUME NEW p \in Peers, NEW r \in Peers, StopSender(p) PROVE SessionOK(r)'
  <2>1. UNCHANGED <<kind, out, sent, got>> /\ conn' = conn /\ sender[p] = "run" /\ MayStop(p)
    BY <1>5 DEF StopSender, vars
  <2>2. CASE r # p
    <3>1. sender'[r] = sender[r] /\ closed'[r] = closed[r]
      BY <1>5, <2>2 DEF StopSender, SessionType
    <3> QED
      BY <2>1, <3>1, OthersOK
  <2>3. CASE r = p
    <3>1. sender'[p] = "done" /\ closed'[p] = IF closed[p] = "" THEN "end" ELSE closed[p]
      BY <1>5 DEF StopSender, SessionType
    <3>2. kind[p] = "sse" /\ conn[p] = "serving" => out[p] = <<>> /\ closed[p] = ""
      BY <2>1 DEF MayStop, SessionOK, SessionType
    <3>3. kind[p] = "sse" /\ conn[p] = "serving" => got[p] = sent[p]
      <4>1. got[p] \in Nat /\ sent[p] \in Nat
        BY DEF SessionType
      <4>2. closed[p] = "" => Numbered(out[p], got[p], sent[p])
        BY <2>1 DEF SessionOK
      <4>3. Numbered(<<>>, got[p], sent[p]) => got[p] = sent[p]
        BY <4>1, NumberedEmpty
      <4> QED
        BY <3>2, <4>2, <4>3
    <3> QED
      BY <2>1, <2>3, <3>1, <3>3 DEF SessionOK
  <2> QED
    BY <2>2, <2>3
<1>6. ASSUME NEW p \in Peers, NEW r \in Peers,
             \/ Recv(p) \/ HandlerReturns(p) \/ ReceiveEnd(p) \/ PassClose(p) \/ StopReceiver(p)
             \/ ClientNext(p)
      PROVE  SessionOK(r)'
  <2>1. UNCHANGED <<kind, out, sender, sent, got, closed>> /\ conn' = conn
    BY <1>6 DEF Recv, HandlerReturns, ReceiveEnd, PassClose, StopReceiver, ClientNext, Receive,
                ClientLeaves, taskVars, vars
  <2> QED
    BY <2>1, OthersOK
<1>7. ASSUME NEW r \in Peers PROVE SessionOK(r)'
  <2>1. CASE Serving /\ UNCHANGED sessionVars
    BY <1>1, <2>1
  <2>2. ASSUME NEW p \in Peers,
               StartWs(p) \/ StartSse(p) \/ HandlerNext(p) \/ TaskNext(p) \/ ClientNext(p)
        PROVE  SessionOK(r)'
    BY <1>2, <1>3, <1>4, <1>5, <1>6, <2>2 DEF HandlerNext, TaskNext
  <2> QED
    BY <2>1, <2>2 DEF SessionNext
<1> QED
  BY <1>0, <1>7

(* The sessions stay numbered in every behaviour.                          *)
THEOREM SessionsInductive == SessionSpec => []SessionInv
<1>1. SessionInit => SessionInv
  <2> SUFFICES ASSUME SessionInit PROVE SessionInv
    OBVIOUS
  <2>1. SessionType
    <3>1. <<>> \in Seq(Nat)
      OBVIOUS
    <3> QED
      BY <3>1 DEF SessionInit, SessionType
  <2>2. ASSUME NEW p \in Peers PROVE SessionOK(p)
    BY DEF SessionInit, SessionOK
  <2> QED
    BY <2>1, <2>2 DEF SessionInv
<1>2. IInv /\ SessionInv /\ [SessionNext]_allVars => SessionInv'
  <2>1. ASSUME SessionInv, UNCHANGED allVars PROVE SessionInv'
    BY <2>1 DEF allVars, vars, sessionVars, taskVars, SessionInv, SessionType, SessionOK
  <2> QED
    BY <2>1, SessionStep
<1>3. SessionSpec => []IInv
  BY SessionsKeepServer, Inductive, PTL
<1> QED
  BY <1>1, <1>2, <1>3, PTL DEF SessionSpec

(* A client is sent the messages of its handler in order, none left out and *)
(* none twice, and none after a close (http.rs:1913-1938, 2135-2146).      *)
THEOREM InOrder == SessionSpec => WrittenInOrder
<1>1. SessionInv /\ [SessionNext]_allVars
        => [\A p \in Peers : got'[p] # got[p] => got'[p] = got[p] + 1 /\ closed[p] = ""]_allVars
  <2> SUFFICES ASSUME SessionInv, SessionNext
               PROVE  \A p \in Peers : got'[p] # got[p] => got'[p] = got[p] + 1 /\ closed[p] = ""
    OBVIOUS
  <2>1. ASSUME NEW r \in Peers, Write(r)
        PROVE  \A p \in Peers : got'[p] # got[p] => got'[p] = got[p] + 1 /\ closed[p] = ""
    BY <2>1, WriteEffect
  <2>2. ASSUME NEW r \in Peers,
               \/ StartWs(r) \/ StartSse(r) \/ HandlerNext(r) \/ ClientNext(r) \/ StopSender(r)
               \/ ReceiveEnd(r) \/ PassClose(r) \/ StopReceiver(r)
        PROVE  got' = got
    BY <2>2 DEF StartWs, StartSse, HandlerNext, ClientNext, Send, SendClose, Recv, HandlerReturns,
                StopSender, ReceiveEnd, PassClose, StopReceiver, Receive, ClientLeaves
  <2>3. UNCHANGED sessionVars => got' = got
    BY DEF sessionVars
  <2> QED
    BY <2>1, <2>2, <2>3 DEF SessionNext, TaskNext
<1> QED
  BY <1>1, SessionsInductive, PTL DEF SessionSpec, WrittenInOrder

(* A stream that ends by itself while its connection is served has given   *)
(* the client all that the handler sent (http.rs:2106-2146).               *)
THEOREM StreamsComplete == SessionSpec => []StreamComplete
<1>1. SessionInv => StreamComplete
  BY DEF SessionInv, SessionOK, StreamComplete
<1> QED
  BY <1>1, SessionsInductive, PTL
=============================================================================

------------------------------ MODULE HttpServe ------------------------------
(***************************************************************************)
(* The accept loop of the HTTP(S) server, serve of transport/http.rs, with *)
(* the task of each connection, the semaphore that limits them, the lock   *)
(* around the TLS acceptor, the two channels a certificate reload passes,  *)
(* and run() of app/mod.rs, which stops the servers.                       *)
(*                                                                         *)
(* The loop is one task.  Two branches of its select! wait again inside:   *)
(* an accepted connection for a permit, a reload for the write lock.       *)
(* Meanwhile the loop sees neither connections nor reloads nor shutdown.   *)
(*                                                                         *)
(* A certificate is the path it was read from and the version of the files *)
(* there; files that are missing or do not parse are a version as well.    *)
(*                                                                         *)
(* A definition Bug... is a plausible mistake in the one that follows it.  *)
(***************************************************************************)
EXTENDS Integers, Sequences, FiniteSets

CONSTANTS
  Peers,       (* clients that may connect, once each                       *)
  MaxConn,     (* max_connections                                           *)
  Timed,       (* request_timeout_secs > 0                                  *)
  Paths,       (* certificate paths                                         *)
  Original,    (* the path given to https()                                 *)
  BcastCap,    (* capacity of the application's broadcast channel           *)
  MpscCap,     (* capacity of the channel to the loop (16)                  *)
  MaxReloads,  (* reload messages: bound of the model                       *)
  MaxVersion,  (* versions of the files at a path: bound of the model       *)
  Broken,      (* versions that are missing or do not parse                 *)
  None         (* no message, path or certificate                           *)

ASSUME HttpServeAssumption ==
  /\ IsFiniteSet(Peers)
  /\ MaxConn \in Nat \ {0} /\ BcastCap \in Nat \ {0} /\ MpscCap \in Nat \ {0}
  /\ MaxReloads \in Nat /\ MaxVersion \in Nat
  /\ Timed \in BOOLEAN
  /\ Original \in Paths
  /\ Broken \subseteq Nat
  /\ None \notin Paths

(* A reload message: Some(path), or Same, the message None.                *)
Same == "same"
Certs == [path : Paths, version : 0 .. MaxVersion]

VARIABLES
  loop,     (* where the accept loop is                                     *)
  next,     (* the connection it has accepted and has no permit for yet     *)
  loading,  (* the certificate it waits for the write lock to install       *)
  conn,     (* where the task of each connection is                         *)
  permits,  (* free permits of conn_semaphore                               *)
  cert,     (* the TLS acceptor: its certificate, or None                   *)
  certOf,   (* the certificate a connection was set up with                 *)
  paths,    (* cert_paths: where a reload without a path reads              *)
  disk,     (* version of the files at each path                            *)
  bcast,    (* the broadcast channel of reloads                             *)
  fwd,      (* the message the forwarding task holds                        *)
  mpsc,     (* the channel from that task to the loop                       *)
  asked,    (* history: reloads asked for so far, the last message and the  *)
            (* version its path had then                                    *)
  main      (* where run() is                                               *)

reloadVars == <<bcast, fwd, mpsc, asked, disk>>
certVars == <<cert, loading, paths>>
vars == <<loop, next, conn, permits, certOf, certVars, reloadVars, main>>

(* Where the loop is: in select!, waiting for a permit, waiting for the    *)
(* write lock, left.                                                       *)
LoopStates == {"select", "permit", "write", "done"}
(* accepted: waits for a permit with the loop; spawned: its task has one;  *)
(* queued: behind a writer for the read lock; handshake, serving: holds    *)
(* the read lock; upgraded: the socket was taken over by a WebSocket task. *)
ConnStates == {"away", "accepted", "spawned", "queued", "handshake", "serving",
               "upgraded", "ended"}

(* Tasks that hold a permit, and those that hold the read lock as well.    *)
Tasks == {p \in Peers : conn[p] \in {"spawned", "queued", "handshake", "serving"}}
Readers == {p \in Peers : conn[p] \in {"handshake", "serving"}}

(* build_tls_acceptor: nothing for files that are missing or do not parse. *)
Load(path) == IF disk[path] \in Broken THEN None ELSE [path |-> path, version |-> disk[path]]

Init ==
  /\ loop = "select" /\ next = None /\ loading = None
  /\ conn = [p \in Peers |-> "away"]
  /\ permits = MaxConn
  /\ disk \in [Paths -> 0 .. MaxVersion]
  /\ cert = Load(Original)
  /\ certOf = [p \in Peers |-> None]
  /\ paths = Original
  /\ bcast = <<>> /\ fwd = None /\ mpsc = <<>>
  /\ asked = [n |-> 0, m |-> None, v |-> 0]
  /\ main = "wait"

-----------------------------------------------------------------------------
(* The accept branch: accept, then wait for a permit inside the branch.    *)
Accept(p) ==
  /\ loop = "select"
  /\ conn[p] = "away"
  /\ loop' = "permit" /\ next' = p
  /\ conn' = [conn EXCEPT ![p] = "accepted"]
  /\ UNCHANGED <<permits, certOf, certVars, reloadVars, main>>

BugPermitted == TRUE
Permitted == permits > 0

(* The permit moves into the task that is spawned for the connection.      *)
Spawn ==
  /\ loop = "permit"
  /\ Permitted
  /\ permits' = permits - 1
  /\ conn' = [conn EXCEPT ![next] = "spawned"]
  /\ loop' = "select" /\ next' = None
  /\ UNCHANGED <<certOf, certVars, reloadVars, main>>

-----------------------------------------------------------------------------
(* The task of a connection.                                               *)

(* What a task does with the read guard: handshake, or serve in plain.     *)
Guarded == IF cert = None THEN "serving" ELSE "handshake"

(* tls.read().await: behind the loop if that waits to write.               *)
ReadLock(p) ==
  /\ conn[p] = "spawned"
  /\ IF loop = "write"
     THEN conn' = [conn EXCEPT ![p] = "queued"] /\ certOf' = certOf
     ELSE conn' = [conn EXCEPT ![p] = Guarded] /\ certOf' = [certOf EXCEPT ![p] = cert]
  /\ UNCHANGED <<loop, next, permits, certVars, reloadVars, main>>

Handshake(p) ==
  /\ conn[p] = "handshake"
  /\ conn' = [conn EXCEPT ![p] = "serving"]
  /\ UNCHANGED <<loop, next, permits, certOf, certVars, reloadVars, main>>

(* The task ends: its permit and its read guard are dropped.               *)
BugEnd(p, state) ==
  /\ conn' = [conn EXCEPT ![p] = state]
  /\ permits' = permits
  /\ UNCHANGED <<loop, next, certOf, certVars, reloadVars, main>>
End(p, state) ==
  /\ conn' = [conn EXCEPT ![p] = state]
  /\ permits' = permits + 1
  /\ UNCHANGED <<loop, next, certOf, certVars, reloadVars, main>>

(* The handshake fails, or takes more than ten seconds.                    *)
HandshakeFails(p) == conn[p] = "handshake" /\ End(p, "ended")

(* The client closes, or an error ends the connection.                     *)
Disconnect(p) == conn[p] = "serving" /\ End(p, "ended")

(* request_timeout_secs after its start a connection is dropped, whatever  *)
(* it is doing.                                                            *)
BugTimeOut(p) == Timed /\ conn[p] = "serving" /\ certOf[p] = None /\ End(p, "ended")
TimeOut(p) == Timed /\ conn[p] = "serving" /\ End(p, "ended")

(* A WebSocket upgrade: hyper hands the socket over and its future ends.   *)
Upgrade(p) == conn[p] = "serving" /\ End(p, "upgraded")

-----------------------------------------------------------------------------
(* Reloads.                                                                *)

(* The application changes the files at a path.                            *)
Renew(path) ==
  /\ disk[path] < MaxVersion
  /\ disk' = [disk EXCEPT ![path] = @ + 1]
  /\ UNCHANGED <<loop, next, conn, permits, certOf, certVars, bcast, fwd, mpsc, asked,
                 main>>

(* reload_tx.send: a full broadcast channel drops its oldest message.      *)
BugOverflow(q, m) == IF Len(q) < BcastCap THEN Append(q, m) ELSE q
Overflow(q, m) == IF Len(q) < BcastCap THEN Append(q, m) ELSE Append(Tail(q), m)

AskReload(m) ==
  /\ asked.n < MaxReloads
  /\ asked' = [n |-> asked.n + 1, m |-> m, v |-> IF m = Same THEN 0 ELSE disk[m]]
  /\ bcast' = Overflow(bcast, m)
  /\ UNCHANGED <<loop, next, conn, permits, certOf, certVars, fwd, mpsc, disk, main>>

(* The forwarding task: recv (skipping what it lagged behind), then send.  *)
ForwardTake ==
  /\ fwd = None /\ bcast # <<>>
  /\ fwd' = Head(bcast) /\ bcast' = Tail(bcast)
  /\ UNCHANGED <<loop, next, conn, permits, certOf, certVars, mpsc, asked, disk, main>>
ForwardSend ==
  /\ fwd # None /\ Len(mpsc) < MpscCap
  /\ mpsc' = Append(mpsc, fwd) /\ fwd' = None
  /\ UNCHANGED <<loop, next, conn, permits, certOf, certVars, bcast, asked, disk, main>>

(* The reload branch: the path of the message is kept before the files are *)
(* read; files that do not load leave the acceptor as it is.               *)
Resolve(m) == IF m = Same THEN paths ELSE m

Reload ==
  /\ loop = "select" /\ mpsc # <<>>
  /\ mpsc' = Tail(mpsc)
  /\ paths' = Resolve(Head(mpsc))
  /\ loading' = Load(paths')
  /\ loop' = IF loading' = None THEN "select" ELSE "write"
  /\ UNCHANGED <<next, conn, permits, cert, certOf, bcast, fwd, asked, disk, main>>

(* The write lock: no reader is left.  Readers queued behind it get their  *)
(* guards when it is released.                                             *)
BugWritable == TRUE
Writable == Readers = {}
Install ==
  /\ loop = "write"
  /\ Writable
  /\ cert' = loading /\ loading' = None
  /\ LET waiting == {p \in Peers : conn[p] = "queued"} IN
       /\ conn' = [p \in Peers |-> IF p \in waiting THEN "handshake" ELSE conn[p]]
       /\ certOf' = [p \in Peers |-> IF p \in waiting THEN loading ELSE certOf[p]]
  /\ loop' = "select"
  /\ UNCHANGED <<next, permits, paths, reloadVars, main>>

-----------------------------------------------------------------------------
(* run(): Ctrl+C, or the failure of another server, stops all of them; it  *)
(* returns when the loop of each has ended.  Connections are not waited    *)
(* for, and with the return the process ends.                              *)
Shutdown ==
  /\ main = "wait"
  /\ main' = "stopping"
  /\ UNCHANGED <<loop, next, conn, permits, certOf, certVars, reloadVars>>

Leave ==
  /\ main = "stopping"
  /\ loop = "select"
  /\ loop' = "done"
  /\ UNCHANGED <<next, conn, permits, certOf, certVars, reloadVars, main>>

Return ==
  /\ main = "stopping" /\ loop = "done"
  /\ main' = "returned"
  /\ UNCHANGED <<loop, next, conn, permits, certOf, certVars, reloadVars>>

-----------------------------------------------------------------------------
(* Everything but an upgrade, which OrdinarySession composes with the      *)
(* session that takes the socket over.                                     *)
LoopNext == Spawn \/ Reload \/ Install \/ Leave \/ \E p \in Peers : Accept(p)
ConnNext ==
  \E p \in Peers :
    ReadLock(p) \/ Handshake(p) \/ HandshakeFails(p) \/ Disconnect(p) \/ TimeOut(p)
ReloadNext ==
  \/ \E path \in Paths : Renew(path)
  \/ \E m \in Paths \cup {Same} : AskReload(m)
  \/ ForwardTake \/ ForwardSend
Serving == LoopNext \/ ConnNext \/ ReloadNext \/ Shutdown \/ Return

Next == main # "returned" /\ (Serving \/ \E p \in Peers : Upgrade(p))
Spec == Init /\ [][Next]_vars

-----------------------------------------------------------------------------
(* Properties of the accept loop (http.rs 403-515).                        *)

TypeOK ==
  /\ loop \in LoopStates /\ main \in {"wait", "stopping", "returned"}
  /\ next \in Peers \cup {None}
  /\ conn \in [Peers -> ConnStates]
  /\ permits \in 0 .. MaxConn
  /\ cert \in Certs \cup {None} /\ loading \in Certs \cup {None}
  /\ certOf \in [Peers -> Certs \cup {None}]
  /\ paths \in Paths
  /\ disk \in [Paths -> 0 .. MaxVersion]
  /\ bcast \in Seq(Paths \cup {Same}) /\ Len(bcast) <= BcastCap
  /\ mpsc \in Seq(Paths \cup {Same}) /\ Len(mpsc) <= MpscCap
  /\ fwd \in Paths \cup {Same, None}

(* No permit is lost or made up: every connection holds one from its start *)
(* until it closes, fails its handshake, times out or is upgraded.  This   *)
(* is less than max_connections promises (app/mod.rs 563-565, 673-684): an *)
(* upgrade ends the task that held the permit, so that an open WebSocket   *)
(* is not counted, and any number of them can be open.                     *)
PermitsConserved == permits + Cardinality(Tasks) = MaxConn

(* A connection that is served, or in its handshake, uses the certificate  *)
(* in force: a reload waits for connections with the old one.              *)
NoStaleCertificate == \A p \in Readers : certOf[p] = cert
=============================================================================

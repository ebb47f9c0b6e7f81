------------------------------ MODULE Registry ------------------------------
(***************************************************************************)
(* The application builder: what service! and AFast::service collect and   *)
(* the tables run() makes of it (app/mod.rs, service/mod.rs, lib.rs).      *)
(*                                                                         *)
(* A handler tree is the sequence of its leaves in the order of the tree,  *)
(* each with the names of the groups above it.  A stable id is the pair    *)
(* that is hashed; the hash itself is taken to be injective.               *)
(*                                                                         *)
(* A leaf: is (what tells it from all others), fn (the function's name),   *)
(* groups, kind ("binary", "ordinary"), method, pattern, policy (None or   *)
(* the name of a rate limit), long.  A WebSocket or SSE route: is, fn,     *)
(* pattern.  A service: name ("" for none), leaves, ws, sse, hooks.        *)
(***************************************************************************)
EXTENDS Router

CONSTANT GlobalHooks   (* hooks of AFast::hook, in order *)

ASSUME HooksAssumption == GlobalHooks \in Seq(STRING)

(* What a developer may register.  The text of a route is trimmed of       *)
(* slashes before it is split, and a group without a name is no group.     *)
Written == {p \in Seq(Segments) : p # <<Static("")>>}
Groups == Seq(STRING \ {""})
Handlers ==
  [is : STRING, fn : STRING, groups : Groups, kind : {"binary", "ordinary"}, method : STRING,
   pattern : Written, policy : STRING \cup {None}, long : BOOLEAN]
Sockets == [is : STRING, fn : STRING, groups : {<<>>}, pattern : Written, policy : {None}]
ServiceRecords ==
  [name : STRING, leaves : Seq(Handlers), ws : Seq(Sockets), sse : Seq(Sockets),
   hooks : Seq(STRING)]

(* register_with_path: the service's name and the function's, not the      *)
(* groups between them; ordinary handlers keep the id 0.                   *)
StableId(service, leaf) == <<service, leaf.fn>>

EmptyApp == [services |-> <<>>, table |-> <<>>, routes |-> <<>>, ws |-> <<>>, sse |-> <<>>]

Binary(leaf) == leaf.kind = "binary"
Ordinary(leaf) == leaf.kind = "ordinary"
TopLevel(leaf) == leaf.groups = <<>>

(* A route, with the service it belongs to and the key of its hooks.       *)
Route(service, leaf, pattern) ==
  [method |-> leaf.method, pattern |-> pattern, service |-> service, of |-> leaf]
Key(service, pattern) == <<service, pattern>>
Map(f(_), seq) == [i \in DOMAIN seq |-> f(seq[i])]

(* The elements of a sequence at the positions S, in order.                *)
Pick(seq, S) ==
  [k \in 1 .. Cardinality(S) |-> seq[CHOOSE i \in S : Cardinality({j \in S : j < i}) = k - 1]]

BinaryIds(svc) == {StableId(svc.name, leaf) : leaf \in {l \in Range(svc.leaves) : Binary(l)}}

(* build_handler_table: handlers of one name share an id, and the last of  *)
(* them the table; only different names would be reported.                 *)
BuildTable(table, svc) ==
  LET of(id) == {j \in DOMAIN svc.leaves :
                   Binary(svc.leaves[j]) /\ StableId(svc.name, svc.leaves[j]) = id}
  IN  Over([id \in BinaryIds(svc) |-> svc.leaves[Max(of(id))]], table)

(* collect_ordinary_from_tree: groups are a prefix of the path.            *)
FromTree(svc) ==
  Map(LAMBDA leaf : Route(svc.name, leaf, Map(Static, leaf.groups) \o Parse(leaf.pattern)),
      Pick(svc.leaves, {j \in DOMAIN svc.leaves : Ordinary(svc.leaves[j])}))

(* Routes of the service itself, which ordinary_route recorded as well.    *)
OwnRoutes(svc) ==
  Map(LAMBDA leaf : Route(svc.name, leaf, Parse(leaf.pattern)),
      Pick(svc.leaves, {j \in DOMAIN svc.leaves :
                          Ordinary(svc.leaves[j]) /\ TopLevel(svc.leaves[j])}))

SocketRoutes(svc, routes) ==
  Map(LAMBDA r : [pattern |-> Parse(r.pattern), service |-> svc.name, of |-> r], routes)

(* collect_routes.                                                         *)
CollectRoutes(app, svc) ==
  [app EXCEPT !.table = BuildTable(@, svc),
              !.routes = @ \o OwnRoutes(svc) \o FromTree(svc),
              !.ws = @ \o SocketRoutes(svc, svc.ws),
              !.sse = @ \o SocketRoutes(svc, svc.sse)]

(* AFast::service: a service of a name seen before is merged into that     *)
(* one, all but its hooks.                                                 *)
AddService(app, svc) ==
  LET same == {i \in DOMAIN app.services :
                 svc.name # "" /\ app.services[i].name = svc.name}
      collected == CollectRoutes(app, svc)
      i == CHOOSE i \in same : TRUE
      merged == [app.services[i] EXCEPT !.leaves = @ \o svc.leaves, !.ws = @ \o svc.ws,
                                        !.sse = @ \o svc.sse]
  IN  IF same = {} THEN [collected EXCEPT !.services = Append(@, svc)]
      ELSE [collected EXCEPT !.services[i] = merged]

-----------------------------------------------------------------------------
(* The tables of run().                                                    *)

HooksOf(svc) == GlobalHooks \o svc.hooks

(* assign_hooks_recursive: hooks of a binary handler, by id.               *)
HandlerHooks(app) ==
  LET with(id) == {i \in DOMAIN app.services : id \in BinaryIds(app.services[i])}
  IN  [id \in UNION {BinaryIds(svc) : svc \in Range(app.services)} |->
         HooksOf(app.services[Max(with(id))])]

(* named_hooks: the hooks of a service are added once for each of its      *)
(* ordinary paths, then for each of its WebSocket and SSE routes.          *)
OrdinaryOf(app, svc, pattern) ==
  {i \in DOMAIN app.routes : app.routes[i].service = svc.name /\ app.routes[i].pattern = pattern}
SocketsOf(svc, pattern) ==
  {i \in DOMAIN (svc.ws \o svc.sse) : Parse((svc.ws \o svc.sse)[i].pattern) = pattern}

BugAdds(app, svc, pattern) ==
  Cardinality(OrdinaryOf(app, svc, pattern)) + Cardinality(SocketsOf(svc, pattern))
Adds(app, svc, pattern) ==
  (IF OrdinaryOf(app, svc, pattern) # {} THEN 1 ELSE 0) + Cardinality(SocketsOf(svc, pattern))

Times(seq, n) == [i \in 1 .. n * Len(seq) |-> seq[((i - 1) % Len(seq)) + 1]]

HooksAt(app, key) ==
  LET added(svc) == IF svc.name = key[1] THEN Times(HooksOf(svc), Adds(app, svc, key[2])) ELSE <<>>
      hooks[n \in 0 .. Len(app.services)] ==
        IF n = 0 THEN <<>> ELSE hooks[n - 1] \o added(app.services[n])
  IN  hooks[Len(app.services)]

NamedHooks(app) ==
  LET patterns(svc) == {r.pattern : r \in {q \in Range(app.routes) : q.service = svc.name}}
                         \cup {Parse(r.pattern) : r \in Range(svc.ws \o svc.sse)}
  IN  [key \in UNION {{Key(svc.name, p) : p \in patterns(svc)} : svc \in Range(app.services)} |->
         HooksAt(app, key)]

(* The policies the rate limiter knows: of handlers at the top of their    *)
(* service, by the bare name of the function.                              *)
Limited(leaf) == TopLevel(leaf) /\ leaf.policy # None
Limits(svc, fn) == {j \in DOMAIN svc.leaves : Limited(svc.leaves[j]) /\ svc.leaves[j].fn = fn}
Policies(app) ==
  LET leaves == UNION {Range(svc.leaves) : svc \in Range(app.services)}
      last(fn) == Max({i \in DOMAIN app.services : Limits(app.services[i], fn) # {}})
  IN  [fn \in {leaf.fn : leaf \in {l \in leaves : Limited(l)}} |->
         app.services[last(fn)].leaves[Max(Limits(app.services[last(fn)], fn))].policy]

(* serve: one trie per method, and one each for WebSocket and SSE routes.  *)
PatternsOf(routes, method) ==
  [i \in {j \in DOMAIN routes : routes[j].method = method} |-> routes[i].pattern]
Patterns(routes) == [i \in DOMAIN routes |-> routes[i].pattern]

Methods == {"GET", "POST", "OPTIONS"}

Tables(app) ==
  [app       |-> app,
   byId      |-> HandlerHooks(app),
   byKey     |-> NamedHooks(app),
   policies  |-> Policies(app),
   tries     |-> [m \in Methods |-> Trie(PatternsOf(app.routes, m), Len(app.routes))],
   ws        |-> Trie(Patterns(app.ws), Len(app.ws)),
   sse       |-> Trie(Patterns(app.sse), Len(app.sse))]
=============================================================================

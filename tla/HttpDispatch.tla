---------------------------- MODULE HttpDispatch ----------------------------
(***************************************************************************)
(* From the services of an application to the answer of a request:         *)
(* services are added, run() builds the tables, and handle_request of      *)
(* transport/http.rs takes each request to a route, a built-in path or     *)
(* nothing, past the rate limiter and the hooks, to a handler.             *)
(*                                                                         *)
(* A request: method, path, the WebSocket headers upgrade and key, origin  *)
(* (None, or a site), auth (whether it has the credentials of /doc), body  *)
(* (TooLarge, TooShort, or the id of a handler with its arguments).        *)
(*                                                                         *)
(* A definition Bug... is a plausible mistake in the one that follows it.  *)
(***************************************************************************)
EXTENDS Registry

CONSTANTS
  Services,      (* the services that may be added, once each                *)
  Requests,      (* the requests that may come                               *)
  Sites,         (* the origins CORS allows, {} without CORS                 *)
  SocketSites,   (* the origins of WebSockets, {} for any                    *)
  WsMerged       (* ws() and http() share the address                        *)

ASSUME ServicesAssumption == Services \subseteq ServiceRecords
ASSUME RequestsAssumption ==
  \A r \in Requests : r.method \in Methods /\ r.path \in Seq(STRING) /\ r.path # <<"">>

VARIABLES
  app,      (* the application being built                                   *)
  tables,   (* what run() made of it, None before                            *)
  req,      (* the request being handled, or None                            *)
  at,       (* how far it is                                                 *)
  target,   (* where handle_request sends it                                 *)
  guards,   (* the hooks that returned a guard, in the order of the calls    *)
  ran,      (* history: the handler that ran for it, None if none did        *)
  checked,  (* history: the policy it was checked against, or None           *)
  closed,   (* history: the guards called back, and with what                *)
  resp      (* its response                                                  *)

vars == <<app, tables, req, at, target, guards, ran, checked, closed, resp>>

Stages == {"idle", "route", "limit", "before", "call", "after", "answered"}
TooLarge == <<"large">>
TooShort == <<"short">>
Nothing == [kind |-> "none", route |-> None, params |-> {}]

Init ==
  /\ app = EmptyApp /\ tables = None
  /\ req = None /\ at = "idle" /\ target = Nothing
  /\ guards = <<>> /\ ran = None /\ checked = None /\ closed = <<>>
  /\ resp = None

-----------------------------------------------------------------------------
(* Building and starting the application.                                  *)
Add(svc) ==
  /\ tables = None
  /\ \A i \in DOMAIN app.services : ~(svc.name = "" /\ app.services[i] = svc)
  /\ \A leaf \in Range(svc.leaves), i \in DOMAIN app.services :
       \A other \in Range(app.services[i].leaves) : other.is # leaf.is
  /\ app' = AddService(app, svc)
  /\ UNCHANGED <<tables, req, at, target, guards, ran, checked, closed, resp>>

Run ==
  /\ tables = None /\ app.services # <<>>
  /\ tables' = Tables(app) /\ app' = EmptyApp
  /\ UNCHANGED <<req, at, target, guards, ran, checked, closed, resp>>

Receive(r) ==
  /\ tables # None /\ at = "idle"
  /\ req' = r /\ at' = "route"
  /\ UNCHANGED <<app, tables, target, guards, ran, checked, closed, resp>>

-----------------------------------------------------------------------------
(* Responses.  inject_cors adds the header for an allowed origin; which    *)
(* responses pass it is up to the caller.                                  *)
AllowedOrigin == req.origin \in Sites
Answer(status, by, cors) ==
  /\ resp' = [status |-> status, by |-> by, cors |-> cors /\ AllowedOrigin]
  /\ at' = "answered"

(* error_response, not_found and method_not_allowed on the way to a        *)
(* handler, without CORS.                                                  *)
Refuse(status) ==
  /\ Answer(status, "server", FALSE)
  /\ UNCHANGED <<app, tables, req, target, guards, ran, checked, closed>>

-----------------------------------------------------------------------------
(* Where a request goes.                                                   *)

Builtins == {"_api", "code", "doc", "_ws"}
First(path) == IF path = <<>> THEN "" ELSE Head(path)

To(kind, hit) == [kind |-> kind, route |-> hit.route, params |-> hit.params]
Hit == MatchPath(tables.tries[req.method], req.path)

BugDeferred == FALSE
Deferred == CatchAllOnly(tables.tries[req.method], req.path)

(* The last resort: a catch-all, limited, hooked and called like others.   *)
Fallback == IF Hit.route # None THEN To("ordinary", Hit) ELSE Nothing

(* Ordinary routes but catch-alls, SSE, WebSockets, built-in paths, and    *)
(* then a catch-all.                                                       *)
Target ==
  LET hit == Hit
      sse == MatchPath(tables.sse, req.path)
      ws == MatchPath(tables.ws, req.path)
  IN  IF hit.route # None /\ ~Deferred THEN To("ordinary", hit)
      ELSE IF req.method = "GET" /\ sse.route # None THEN To("sse", sse)
      ELSE IF req.method = "GET" /\ req.upgrade /\ ws.route # None THEN To("ws", ws)
      ELSE IF First(req.path) \in Builtins THEN [Nothing EXCEPT !.kind = First(req.path)]
      ELSE Fallback

(* OPTIONS from an allowed origin is answered before anything else.        *)
Preflight ==
  /\ at = "route" /\ req.method = "OPTIONS" /\ AllowedOrigin
  /\ Answer(204, "server", TRUE)
  /\ UNCHANGED <<app, tables, req, target, guards, ran, checked, closed>>

Dispatch ==
  /\ at = "route" /\ ~(req.method = "OPTIONS" /\ AllowedOrigin)
  /\ target' = Target /\ at' = "limit"
  /\ UNCHANGED <<app, tables, req, guards, ran, checked, closed, resp>>

-----------------------------------------------------------------------------
(* What stands before a handler.                                           *)

(* The route that was found, the handler of the request and the hooks it   *)
(* runs under.                                                             *)
Found ==
  IF target.kind = "ordinary" THEN tables.app.routes[target.route]
  ELSE IF target.kind = "sse" THEN tables.app.sse[target.route]
  ELSE tables.app.ws[target.route]
Called == IF target.kind = "_api" THEN tables.app.table[req.body] ELSE Found.of

Kept(hooks, key) == IF key \in DOMAIN hooks THEN hooks[key] ELSE <<>>
Hooks ==
  IF target.kind = "_api" THEN Kept(tables.byId, req.body)
  ELSE Kept(tables.byKey, Key(Found.service, Found.pattern))

(* handle_api: the body is read up to the limit, the handler looked up.    *)
ApiRefused ==
  /\ at = "limit" /\ target.kind = "_api"
  /\ \/ req.method # "POST" /\ Refuse(405)
     \/ /\ req.method = "POST"
        /\ \/ req.body = TooLarge /\ Refuse(413)
           \/ req.body = TooShort /\ Refuse(400)
           \/ req.body \notin DOMAIN tables.app.table \cup {TooLarge, TooShort} /\ Refuse(404)
           \/ /\ req.body \in DOMAIN tables.app.table
              /\ tables.app.table[req.body].long
              /\ Refuse(400)
ApiFound ==
  /\ req.method = "POST" /\ req.body \in DOMAIN tables.app.table
  /\ ~tables.app.table[req.body].long

(* A handler that has a policy is refused or let through by the limiter;   *)
(* SSE is not limited.                                                     *)
BugLimitApplies == target.kind \in {"ordinary", "ws"} /\ Deferred = FALSE
LimitApplies == target.kind \in {"ordinary", "ws", "_api"}

Limit ==
  /\ at = "limit" /\ target.kind \in {"ordinary", "ws", "sse", "_api"}
  /\ target.kind = "_api" => ApiFound
  /\ LET policy == IF LimitApplies THEN Lookup(tables.policies, Called.fn) ELSE None IN
       /\ checked' = policy
       /\ \/ /\ at' = "before"
             /\ UNCHANGED resp
          \/ /\ policy # None
             /\ Answer(429, "server", FALSE)
  /\ UNCHANGED <<app, tables, req, target, guards, ran, closed>>

(* handle_ordinary_ws_upgrade: key and origin, then 101.                   *)
OriginRefused == SocketSites # {} /\ req.origin \notin SocketSites
WsRefused ==
  /\ at = "before" /\ target.kind = "ws"
  /\ \/ ~req.key /\ Refuse(400)
     \/ req.key /\ OriginRefused /\ Refuse(403)

(* before_request, or on_connect, of each hook, which may decline a guard. *)
Before ==
  /\ at = "before"
  /\ target.kind = "ws" => req.key /\ ~OriginRefused
  /\ \E kept \in SUBSET DOMAIN Hooks : guards' = Pick(Hooks, kept)
  /\ at' = "call"
  /\ UNCHANGED <<app, tables, req, target, ran, checked, closed, resp>>

-----------------------------------------------------------------------------
(* The handler, and what becomes of its result.                            *)

(* An ordinary handler runs when all its arguments were extracted, and an  *)
(* error it returns is turned into a response there: Ok for the hooks.     *)
OrdinaryOutcomes ==
  {[ran |-> TRUE, hook |-> "response", status |-> 200],
   [ran |-> TRUE, hook |-> "response", status |-> 500],
   [ran |-> FALSE, hook |-> "error", status |-> 400],
   [ran |-> FALSE, hook |-> "error", status |-> 500]}
(* A binary handler: its own error, errors of decoding and validation.     *)
ApiOutcomes ==
  {[ran |-> TRUE, hook |-> "response", status |-> 200],
   [ran |-> TRUE, hook |-> "error", status |-> 200],
   [ran |-> TRUE, hook |-> "error", status |-> 500],
   [ran |-> FALSE, hook |-> "error", status |-> 400]}
(* The handlers of sockets and streams run on, on tasks of their own.      *)
SessionOutcomes == {[ran |-> TRUE, hook |-> "open", status |-> IF target.kind = "ws" THEN 101 ELSE 200]}

Outcomes == IF target.kind = "ordinary" THEN OrdinaryOutcomes
            ELSE IF target.kind = "_api" THEN ApiOutcomes
            ELSE SessionOutcomes

Call ==
  /\ at = "call"
  /\ \E outcome \in Outcomes :
       /\ ran' = IF outcome.ran THEN Called ELSE None
       /\ resp' = [status |-> outcome.status, by |-> outcome.hook, cors |-> FALSE]
  /\ at' = "after"
  /\ UNCHANGED <<app, tables, req, target, guards, checked, closed>>

(* on_response or on_error of each guard, of binary handlers the last      *)
(* first.                                                                  *)
BugToClose == IF target.kind = "_api" /\ resp.by = "response" THEN Reverse(guards) ELSE <<>>
ToClose ==
  IF target.kind = "_api" THEN Reverse(guards)
  ELSE IF target.kind = "ordinary" THEN guards
  ELSE <<>>

PassesCors == target.kind \in {"ordinary", "_api"}

After ==
  /\ at = "after"
  /\ closed' = Map(LAMBDA hook : [hook |-> hook, told |-> resp.by], ToClose)
  /\ Answer(resp.status, "handler", PassesCors)
  /\ UNCHANGED <<app, tables, req, target, guards, ran, checked>>

-----------------------------------------------------------------------------
(* Built-in paths without a handler.  The limiter may refuse /code and     *)
(* /doc when a policy is set for them.                                     *)
Langs == {"ts", "js", "kt", "rs", "cs"}
Named(name) == name # "" /\ \E svc \in Range(tables.app.services) : svc.name = name

(* handle_code: /code/service/language.                                    *)
CodeStatus ==
  IF Len(req.path) # 3 THEN 400
  ELSE IF req.path[3] \notin Langs THEN 400
  ELSE IF Named(req.path[2]) THEN 200 ELSE 404
Code ==
  /\ at = "limit" /\ target.kind = "code"
  /\ IF req.method # "GET" THEN Refuse(405)
     ELSE \E status \in {429, CodeStatus} : Refuse(status)

(* handle_doc: /doc and /doc/service.                                      *)
DocStatus ==
  IF Len(req.path) > 2 THEN 400
  ELSE IF Len(req.path) = 1 THEN 200
  ELSE IF Named(req.path[2]) THEN 200 ELSE 404
Doc ==
  /\ at = "limit" /\ target.kind = "doc"
  /\ IF req.method # "GET" THEN Refuse(405)
     ELSE IF ~req.auth THEN Refuse(401)
     ELSE \E status \in {429, DocStatus} : Refuse(status)

(* handle_ws_upgrade.                                                      *)
Upgrade ==
  /\ at = "limit" /\ target.kind = "_ws"
  /\ \/ ~WsMerged /\ Refuse(404)
     \/ WsMerged /\ ~(req.upgrade /\ req.key) /\ Refuse(400)
     \/ WsMerged /\ req.upgrade /\ req.key /\ Refuse(IF OriginRefused THEN 403 ELSE 101)

NotFound == at = "limit" /\ target.kind = "none" /\ Refuse(404)

(* The next request.  The guards of a session are left to its own task.    *)
Done ==
  /\ at = "answered"
  /\ req' = None /\ at' = "idle" /\ target' = Nothing
  /\ guards' = <<>> /\ ran' = None /\ checked' = None /\ closed' = <<>>
  /\ resp' = None
  /\ UNCHANGED <<app, tables>>

Builtin == Code \/ Doc \/ Upgrade \/ NotFound
Handled == ApiRefused \/ Limit \/ WsRefused \/ Before \/ Call \/ After
Next ==
  \/ \E svc \in Services : Add(svc)
  \/ Run
  \/ \E r \in Requests : Receive(r)
  \/ Preflight \/ Dispatch \/ Handled \/ Builtin \/ Done

Spec == Init /\ [][Next]_vars

-----------------------------------------------------------------------------
(* Properties of dispatch (http.rs 736-1420, app/mod.rs 944-1255).         *)

Routed == at \in Stages \ {"idle", "route"} /\ resp # [status |-> 204, by |-> "server", cors |-> TRUE]
Ordinaries == PatternsOf(tables.app.routes, req.method)

(* The tries find the route that is the most specific of all that match,   *)
(* the last of equal ones (not the first that matches, which a comment at  *)
(* http.rs 686 says), and find none only when none matches.  A handler     *)
(* finds its path parameters under its own names and nothing left over from*)
(* routes that were tried before, when routes agree on the names of shared *)
(* segments and none uses a name twice.                                    *)
RoutedToBest ==
  Routed =>
    LET best == Best(Ordinaries, req.path) IN
    /\ target.kind = "ordinary" =>
         /\ target.route = best
         /\ NamesAgree(Ordinaries) /\ NamesApart(Ordinaries) =>
              target.params = Entries(Captures(tables.app.routes[target.route].pattern, req.path))
    /\ target.kind = "none" => best = None
    /\ target.kind = "sse" => target.route = Best(Patterns(tables.app.sse), req.path)
    /\ target.kind = "ws" => target.route = Best(Patterns(tables.app.ws), req.path)

(* A built-in path is served by the framework, whatever catch-alls there   *)
(* are among the ordinary routes, unless an ordinary route begins with that*)
(* name or a parameter in its place, or a WebSocket or SSE route has that  *)
(* name, a parameter or a catch-all first: these are asked before the      *)
(* built-in paths, catch-alls too, although a comment (http.rs 687-690) and*)
(* core-concepts.md 292 put the built-in paths before every catch-all.     *)
BuiltinReachable ==
  Routed /\ First(req.path) \in Builtins =>
    \/ target.kind = First(req.path)
    \/ \E p \in Range(Ordinaries) :
         p # <<>> /\ (p[1].kind = "param" \/ p[1] = Static(First(req.path)))
    \/ \E p \in Range(Patterns(tables.app.sse)) \cup Range(Patterns(tables.app.ws)) :
         p # <<>> /\ (p[1].kind # "static" \/ p[1] = Static(First(req.path)))

(* Each guard is told of the outcome exactly once, and binary handlers     *)
(* unwind their guards in the reverse order of their calls.                *)
GuardsPaired ==
  at = "answered" /\ target.kind \in {"ordinary", "_api"} /\ resp.by = "handler" =>
    /\ Len(closed) = Len(guards)
    /\ \A i \in DOMAIN guards :
         /\ \E j \in DOMAIN closed : closed[j].hook = guards[i]
         /\ target.kind = "_api" => closed[Len(guards) + 1 - i].hook = guards[i]

(* A handler of a service with a name runs under the global hooks and      *)
(* those of the service, each once, unless its path is also that of another*)
(* kind of route of the service, or of another WebSocket or SSE route.     *)
AloneAt(svc, pattern) ==
  IF target.kind = "ordinary" THEN SocketsOf(svc, pattern) = {}
  ELSE OrdinaryOf(tables.app, svc, pattern) = {} /\ Cardinality(SocketsOf(svc, pattern)) = 1

HooksRunOnce ==
  at = "call" =>
    \A svc \in Range(tables.app.services) :
      LET mine == IF target.kind = "_api" THEN req.body[1] = svc.name
                  ELSE Found.service = svc.name /\ AloneAt(svc, Found.pattern)
      IN  svc.name # "" /\ mine => Hooks = HooksOf(svc)

(* A handler at the top of its service with a rate limit of its own never  *)
(* runs unchecked, however it was reached, unless another of that name has *)
(* a different one.                                                        *)
LimitedBeforeRun ==
  ran # None /\ ran.policy # None /\ TopLevel(ran)
    /\ (\A svc \in Range(tables.app.services) : \A leaf \in Range(svc.leaves) :
          leaf.fn = ran.fn => leaf.policy \in {None, ran.policy})
    => checked = ran.policy

(* Docs (core-concepts.md): built-in endpoints are never intercepted by    *)
(* catch-all routes.                                                       *)
NeverIntercepted ==
  Routed /\ target.kind = "ordinary" /\ First(req.path) \in Builtins =>
    Head(tables.app.routes[target.route].pattern).kind # "rest"
=============================================================================

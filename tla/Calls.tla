-------------------------------- MODULE Calls --------------------------------
(***************************************************************************)
(* Calls of one method of a generated client, from the arguments to the    *)
(* value the caller gets: the client's cache, the customs (or headers)     *)
(* functions it asks, its validation, the bytes or the HTTP request it     *)
(* sends, what the server's extractors make of them, and the way back.     *)
(* Several callers share the client.  How requests and replies are carried *)
(* is the matter of Client.tla: here each request is answered.             *)
(* A definition Bug... is a plausible mistake in the one that follows it.  *)
(*                                                                         *)
(* An api is a record: the lang of the client, whether the handler is      *)
(* ordinary (JSON over HTTP) or binary, its params in the order of the     *)
(* signature, what it returns (ret), its cache in seconds, the path of its *)
(* route, the service it belongs to.  A trial is an api with its callers,  *)
(* the args they pass, the logins the functions may give, its answers.     *)
(***************************************************************************)
EXTENDS JsClient, KtClient, CsClient, RsClient

CONSTANTS
  Trials,   \* the apis considered, a sequence
  MaxNow    \* bound: the last second

(* The method of a binary trial takes what its functions and its callers   *)
(* give for its parameters.                                                *)
Given(vals, ps) == IsSeq(vals) /\ Len(vals) = Len(ps) /\ \A i \in DOMAIN ps : vals[i] \in Values[ps[i].ty]

IsTrial(t) ==
  LET a == t.api IN
  /\ a.lang \in {"ts", "js", "kt", "cs", "rs"} /\ a.ordinary \in BOOLEAN /\ a.cache \in Nat
  /\ a.lang = "rs" => ~a.ordinary /\ a.cache = 0
  /\ ~a.ordinary =>
       /\ IsSeq(a.params)
       /\ \A p \in Range(a.params) : p.x \in {"Custom", "Data"} /\ p.ty \in Types /\ p.ty.k # "unit"
       /\ LET cs == Of(a.params, "Custom") IN \A given \in t.logins : Given(given, cs)
       /\ LET ds == Of(a.params, "Data") IN \A args \in t.args : Given(args, ds)
       /\ a.ret \in Types /\ t.answers \subseteq Values[a.ret]
  /\ a.ordinary => \A v \in t.answers : v = [n \in DOMAIN v |-> v[n]]
  /\ IsSeq(a.service)
  /\ \A h \in Range(a.service) :
       IsSeq(h.params) /\ h.ret \in Types /\ \A p \in Range(h.params) : p.ty \in Types /\ IsNamed(p.ty)

ASSUME TrialsAssumption == \A i \in DOMAIN Trials : IsTrial(Trials[i])

VARIABLES
  which,    \* the trial made, by its place among the Trials
  api,      \* its api
  login,    \* what the customs or headers functions give now
  now,      \* Date.now
  cache,    \* the entry of the method in _cache, or None
  call,     \* the call of each caller
  got       \* history: the answers that arrived, and when

vars == <<which, api, login, now, cache, call, got>>

trial == Trials[which]

-----------------------------------------------------------------------------
(* The generated code, by language. *)

Preflight(a, customs, args) ==
  CASE a.lang = "ts" -> TsPreflight(a.params, customs, args)
    [] a.lang = "js" -> JsPreflight(a.params, customs, args)
    [] a.lang = "kt" -> KtPreflight(a.params, customs, args)
    [] a.lang = "cs" -> CsPreflight(a.params, customs, args)
    [] a.lang = "rs" -> RsPreflight(a.params, customs, args)

Binary(a, customs, args) ==
  CASE a.lang = "ts" -> TsRequest(a.params, customs, args)
    [] a.lang = "js" -> JsRequest(a.params, customs, args)
    [] a.lang = "kt" -> KtRequest(a.params, customs, args)
    [] a.lang = "cs" -> CsRequest(a.params, customs, args)
    [] a.lang = "rs" -> RsRequest(a.params, customs, args)

Http(a, given, args) ==
  CASE a.lang = "ts" -> [url |-> TsUrl(a, args), headers |-> TsHeaders(a, given), body |-> TsBody(a, args.body)]
    [] a.lang = "js" -> [url |-> JsUrl(a, args), headers |-> JsHeaders(a, given), body |-> JsBody(a, args.body)]
    [] a.lang = "kt" -> [url |-> KtUrl(a, args), headers |-> KtHeaders(a, given), body |-> KtBody(a, args.body)]
    [] a.lang = "cs" -> [url |-> CsUrl(a, args), headers |-> CsHeaders(a, given), body |-> CsBody(a, args.body)]

Return(a, bytes) ==
  CASE a.lang = "ts" -> TsReturn(a.ret, bytes)
    [] a.lang = "js" -> JsReturn(a.ret, bytes)
    [] a.lang = "kt" -> KtReturn(a.ret, bytes)
    [] a.lang = "cs" -> CsReturn(a.ret, bytes)
    [] a.lang = "rs" -> RsReturn(a.ret, bytes)

OrdinaryReturn(a, json) ==
  CASE a.lang = "ts" -> TsOrdinaryReturn(a.ret, json)
    [] a.lang = "js" -> JsOrdinaryReturn(a.ret, json)
    [] a.lang = "kt" -> KtOrdinaryReturn(a.ret, json)
    [] a.lang = "cs" -> CsOrdinaryReturn(a.ret, json)

CacheRequest(a, args) ==
  CASE a.lang = "ts" -> IF a.ordinary THEN TsOrdinaryCacheRequest(a, args) ELSE TsCacheRequest(a.params, args)
    [] a.lang = "js" -> IF a.ordinary THEN JsOrdinaryCacheRequest(a, args) ELSE JsCacheRequest(a.params, args)
    [] a.lang = "kt" -> IF a.ordinary THEN KtOrdinaryCacheRequest(a, args) ELSE KtCacheRequest(a.params, args)
    [] a.lang = "cs" -> IF a.ordinary THEN CsOrdinaryCacheRequest(a, args) ELSE CsCacheRequest(a.params, args)

-----------------------------------------------------------------------------
Outcome(how, value) == [how |-> how, value |-> value]
Idle == [at |-> "idle", args |-> None, since |-> 0, given |-> None, request |-> None,
         arrived |-> None, answer |-> None, reply |-> None, outcome |-> None]

Init ==
  /\ which \in DOMAIN Trials
  /\ api = trial.api
  /\ login \in trial.logins
  /\ now = 0
  /\ cache = None
  /\ call = [c \in trial.callers |-> Idle]
  /\ got = {}

(* The method starts by looking at the cache, unless the caller forces it. *)
BugHit(args) == cache # None /\ CacheRequest(api, args) = cache.request
Hit(args) == cache # None /\ now < cache.expiry /\ CacheRequest(api, args) = cache.request

Start(c, args, force) ==
  /\ call[c].at = "idle"
  /\ LET hit == api.cache > 0 /\ ~force /\ Hit(args)
     IN  call' = [call EXCEPT ![c].at = IF hit THEN "done" ELSE "asking", ![c].args = args, ![c].since = now,
                              ![c].outcome = IF hit THEN Outcome("cached", cache.answer) ELSE None]
  /\ UNCHANGED <<which, api, login, now, cache, got>>

StartAny(c) == \E args \in trial.args, force \in (IF api.cache > 0 THEN BOOLEAN ELSE {FALSE}) : Start(c, args, force)

(* The functions the application registered are awaited. *)
Ask(c) ==
  /\ call[c].at = "asking"
  /\ call' = [call EXCEPT ![c].at = "ready", ![c].given = login]
  /\ UNCHANGED <<which, api, login, now, cache, got>>

(* Validation throws, or the request leaves. *)
Send(c) ==
  /\ call[c].at = "ready"
  /\ LET given == call[c].given
         args  == call[c].args
     IN  call' = IF ~api.ordinary /\ ~Preflight(api, given, args)
                 THEN [call EXCEPT ![c].at = "done", ![c].outcome = Outcome("refused", None)]
                 ELSE [call EXCEPT ![c].at = "sent",
                                   ![c].request = IF api.ordinary THEN Http(api, given, args)
                                                  ELSE Binary(api, given, args)]
  /\ UNCHANGED <<which, api, login, now, cache, got>>

(* The server extracts the arguments and runs the handler on them, or      *)
(* refuses the request.                                                    *)
Arrived(a, request) ==
  IF a.ordinary THEN Extract(a, request.url, request.headers, request.body) ELSE Extracted(a.params, request)

Serve(c, answer) ==
  /\ call[c].at = "sent"
  /\ LET arrived == Arrived(api, call[c].request)
     IN  call' = [call EXCEPT ![c].at = "answered", ![c].arrived = arrived, ![c].answer = answer,
                    ![c].reply = IF arrived = Broken THEN None
                                 ELSE Outcome("bytes", IF api.ordinary THEN answer ELSE ServerWrite[api.ret][answer])]
  /\ UNCHANGED <<which, api, login, now, cache, got>>

(* The client decodes the answer, and keeps it from now on. *)
Receive(c) ==
  /\ call[c].at = "answered"
  /\ LET broken == call[c].reply = None
         value  == IF api.ordinary THEN OrdinaryReturn(api, call[c].reply.value) ELSE Return(api, call[c].reply.value)
     IN
     /\ call' = [call EXCEPT ![c].at = "done",
                             ![c].outcome = IF broken THEN Outcome("error", None) ELSE Outcome("answer", value)]
     /\ IF broken \/ api.cache = 0 THEN UNCHANGED <<cache, got>>
        ELSE /\ cache' = [request |-> CacheRequest(api, call[c].args), answer |-> value, expiry |-> now + api.cache]
             /\ got' = got \cup {[args |-> call[c].args, value |-> value, at |-> now]}
  /\ UNCHANGED <<which, api, login, now>>

(* Time matters to the cache alone. *)
Tick == api.cache > 0 /\ now < MaxNow /\ now' = now + 1 /\ UNCHANGED <<which, api, login, cache, call, got>>

(* The user of the application changes. *)
Login == login' \in trial.logins \ {login} /\ UNCHANGED <<which, api, now, cache, call, got>>

Next ==
  \/ \E c \in DOMAIN call : StartAny(c) \/ Ask(c) \/ Send(c) \/ (\E a \in trial.answers : Serve(c, a)) \/ Receive(c)
  \/ Tick
  \/ Login

Spec == Init /\ [][Next]_vars

-----------------------------------------------------------------------------
(***************************************************************************)
(* What the generators rely on and nothing sees to.  The properties below  *)
(* are proved of trials that are so (Calls_proofs), and checked on some.   *)
(***************************************************************************)
(* The clients write customs first, those that are structs; C# none.       *)
InOrder(a) ==
  ~a.ordinary => LET cs == Of(a.params, "Custom") IN
                 /\ a.params = cs \o Of(a.params, "Data")
                 /\ \A i \in DOMAIN cs : IsStruct(cs[i])
                 /\ a.lang = "cs" => cs = <<>>

(* The readers know the sign of an integer, and have room for its digits;  *)
(* the JSON knows the names of fields.                                     *)
Readable(a, answers) ==
  IF a.ordinary
  THEN \A v \in answers : CASE a.lang = "kt" -> \A n \in DOMAIN v : Len(n) <= 1
                           [] a.lang = "cs" -> DOMAIN v = {}
                           [] OTHER         -> TRUE
  ELSE \A t \in Within[a.ret] : CASE a.lang \in {"ts", "js"} -> TsNumber(t)
                                   [] a.lang = "kt"          -> StrictNumber(TRUE, t)
                                   [] OTHER                  -> TRUE

(* No rule of the items of a list is looked for on the list (in JavaScript *)
(* and TypeScript), and the payload of a variant is not an Option.         *)
PayloadThere(t) == t.k = "enum" => \A x \in Range(t.variants) : IsTuple(x) => x.fields[1].ty.k # "opt"
Checkable(a) ==
  ~a.ordinary => \A p \in Range(a.params) : \A t \in Within[p.ty] :
    /\ PayloadThere(t)
    /\ a.lang \in {"ts", "js"} /\ t.k = "vec" => TsPasses[t.of][Array]

(* Calls with different arguments have different cache keys.               *)
ToldApart(t) == t.api.cache > 0 => \A x, y \in t.args : CacheRequest(t.api, x) = CacheRequest(t.api, y) => x = y

(* A name means one type, in signatures and in the declarations of fields, *)
(* and a type that a method names by its path is nowhere named by its own. *)
Names(service) == NamedBy(service) \cup UNION {UNION {NamedIn(t) : t \in Range(Nested[u[2]])} : u \in UsedBy(service)}
Unambiguous(service) ==
  LET names == Names(service)
  IN  /\ \A p, q \in names : p[1] = q[1] => p[2] = q[2]
      /\ \A p \in NamedBy(service) : p[1] # p[2].name => \A q \in names : q[1] # p[2].name

-----------------------------------------------------------------------------
Served(c) == \/ call[c].at = "answered"
             \/ call[c].at = "done" /\ call[c].outcome.how \in {"answer", "error"}

(* What was given for the parameters, in the order of the signature. *)
Passed(c) ==
  LET Nth(i, x) == Cardinality({j \in 1..i : api.params[j].x = x})
  IN  [i \in DOMAIN api.params |->
         IF api.params[i].x = "Custom" THEN call[c].given[Nth(i, "Custom")] ELSE call[c].args[Nth(i, "Data")]]

(* The server takes a value that obeys every rule of its type. *)
Accepted(t, v) == ServerRead[t][ServerWrite[t][v]].ok
AllAccepted(c) == \A i \in DOMAIN api.params : Accepted(api.params[i].ty, Passed(c)[i])

(* The handler runs on exactly what the functions and the caller gave,     *)
(* decoded by a reader that knows nothing of the writer, and it runs       *)
(* unless a rule of the server forbids it.                                 *)
ArgumentsArrive ==
  \A c \in DOMAIN call : ~api.ordinary /\ Served(c) =>
    call[c].arrived = IF AllAccepted(c) THEN Passed(c) ELSE Broken

(* The client's validation is a copy of the server's: it never refuses     *)
(* what the server would have taken.                                       *)
PreflightSound ==
  \A c \in DOMAIN call : call[c].at = "done" /\ call[c].outcome.how = "refused" => ~AllAccepted(c)

(* What the caller gets is what the handler returned. *)
AnswerArrives ==
  \A c \in DOMAIN call : call[c].at = "done" /\ call[c].outcome.how = "answer" =>
    call[c].outcome.value = call[c].answer

(* An answer out of the cache was given to a call with the same arguments, *)
(* and arrived less than the time of the cache ago.                        *)
CacheHonest ==
  \A c \in DOMAIN call : call[c].at = "done" /\ call[c].outcome.how = "cached" =>
    \E g \in got : /\ g.args = call[c].args
                   /\ g.value = call[c].outcome.value
                   /\ call[c].since \in g.at .. g.at + api.cache - 1

(* An ordinary handler finds in the path, the query, the body and the      *)
(* headers what the caller and the functions put there.                    *)
OrdinaryArrives ==
  \A c \in DOMAIN call : api.ordinary /\ Served(c) =>
    LET a == call[c].arrived
        given == FoldLeft(LAMBDA acc, h : h @@ acc, <<>>, call[c].given)
    IN  /\ a # Broken
        /\ a.params = call[c].args.params
        /\ a.queries = call[c].args.queries
        /\ a.body = call[c].args.body
        /\ \A n \in DOMAIN given \cap DOMAIN a.headers : a.headers[n] = given[n]

(* Every type that a method or a declaration names is declared under that  *)
(* name.                                                                   *)
TypesDeclared ==
  api.lang = "ts" => Mentions(api.service) \subseteq Exports(api.service)
=============================================================================

----------------------------- MODULE MCDispatch -----------------------------
(* HttpDispatch for TLC: a few services whose routes overlap, and requests *)
(* that tell them apart.                                                   *)
EXTENDS HttpDispatch

Leaf(is, fn, groups, kind, method, pattern, policy) ==
  [is |-> is, fn |-> fn, groups |-> groups, kind |-> kind, method |-> method,
   pattern |-> pattern, policy |-> policy, long |-> FALSE]
Api(is, fn, groups, policy) == Leaf(is, fn, groups, "binary", "", <<>>, policy)
Get(is, groups, pattern, policy) == Leaf(is, is, groups, "ordinary", "GET", pattern, policy)
Socket(is, pattern) ==
  [is |-> is, fn |-> is, pattern |-> pattern, policy |-> None, groups |-> <<>>]

S(text) == Static(text)
Id == Param("id")

Web ==
  [name |-> "web", hooks |-> <<"h1">>,
   leaves |-> << Api("find", "find", <<>>, "p"),
                 [Api("watch", "watch", <<>>, None) EXCEPT !.long = TRUE],
                 Get("user", <<>>, <<S("users"), Id>>, "p"),
                 Get("spa", <<>>, <<CatchAll("")>>, "p"),
                 Get("files", <<"files">>, <<CatchAll("rest")>>, None) >>,
   ws |-> << Socket("chat", <<S("chat")>>) >>, sse |-> <<>>]

(* Merged into Web, or Web into it.                                        *)
More ==
  [name |-> "web", hooks |-> <<>>,
   leaves |-> << Api("drop", "drop", <<"admin">>, None),
                 Get("me", <<>>, <<S("users"), S("me")>>, None),
                 Get("posts", <<>>, <<S("users"), Id, S("posts")>>, "q") >>,
   ws |-> <<>>, sse |-> << Socket("news", <<S("news"), Id>>) >>]

Pages ==
  [name |-> "pages", hooks |-> <<"h2">>,
   leaves |-> << Get("root", <<>>, <<>>, None),
                 Get("edit", <<>>, <<Param("page"), S("edit")>>, None),
                 Leaf("save", "save", <<>>, "ordinary", "POST", <<Param("page"), S("edit")>>, None) >>,
   ws |-> <<>>, sse |-> <<>>]

(* A service without a name.                                               *)
Anonymous ==
  [name |-> "", hooks |-> <<"h1">>,
   leaves |-> << Get("about", <<>>, <<S("about")>>, None),
                 Leaf("all", "all", <<"users">>, "ordinary", "POST", <<CatchAll("any")>>, None) >>,
   ws |-> <<>>, sse |-> <<>>]

MCServices == {Web, More, Pages, Anonymous}

PageServices == {Web, Pages}

Plain == [method |-> "GET", path |-> <<>>, upgrade |-> FALSE, key |-> FALSE,
          origin |-> "good", auth |-> TRUE, body |-> TooShort]
At(path) == [Plain EXCEPT !.path = path]
Post(path) == [At(path) EXCEPT !.method = "POST"]
Invoke(body) == [Post(<<"_api">>) EXCEPT !.body = body]
Ws(path) == [At(path) EXCEPT !.upgrade = TRUE, !.key = TRUE]

MCRequests ==
  {At(<<>>), At(<<"users", "me">>), At(<<"users", "7">>), At(<<"users", "me", "posts">>),
   At(<<"users", "edit">>), At(<<"users">>), At(<<"files", "a">>), At(<<"about">>), At(<<"doc">>),
   At(<<"doc", "web">>), At(<<"doc", "web", "x">>), At(<<"code", "web", "ts">>), At(<<"code", "no", "ts">>),
   At(<<"code">>), At(<<"_api">>), At(<<"news", "1">>), At(<<"chat">>),
   [At(<<"doc">>) EXCEPT !.auth = FALSE],
   Post(<<"users", "edit">>), Post(<<"none">>), Post(<<"doc">>), Post(<<"code">>),
   [At(<<"users">>) EXCEPT !.method = "OPTIONS"],
   Ws(<<"chat">>), [Ws(<<"chat">>) EXCEPT !.key = FALSE], [Ws(<<"chat">>) EXCEPT !.origin = "bad"],
   Ws(<<"_ws">>), [Ws(<<"_ws">>) EXCEPT !.origin = "bad"], At(<<"_ws">>),
   Invoke(TooShort), Invoke(TooLarge), Invoke(<<"web", "find">>), Invoke(<<"web", "watch">>),
   Invoke(<<"web", "drop">>), Invoke(<<"web", "gone">>)}

MCGlobalHooks == <<"g">>
=============================================================================

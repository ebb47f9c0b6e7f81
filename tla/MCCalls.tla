------------------------------- MODULE MCCalls -------------------------------
(***************************************************************************)
(* The handlers tried.  A language gets the handlers whose generated code  *)
(* compiles: in requests, Kotlin takes the integers i32 and i64, Rust only *)
(* outside of Option, Vec and enums; in C# an Option of a number, a reply  *)
(* with an enum and a Custom do not compile.                               *)
(***************************************************************************)
EXTENDS Calls

Strings == {<<>>, <<1>>, <<2, 1>>}

I(w) == IntType(w, TRUE)
U(w) == IntType(w, FALSE)

(* A struct with everything a language can write. *)
Kind(n) == Enum(<<"Kind">>, <<
  Variant("Plain", <<>>),
  Variant("Sized", <<Field(Payload, n, <<Bound("gte", 1)>>)>>),
  Variant("Named", <<Field(<<"label">>, Str, <<Length(1, 2)>>), Skipped(<<"memo">>, Str, "afast")>>)>>)
Simple == Enum(<<"Simple">>, <<Variant("Plain", <<>>), Variant("Noted", <<Field(Payload, Str, <<>>)>>)>>)
Size(n, least) == Field(<<"size">>, n, <<Bound("gt", least), Bound("lte", 1)>>)
Full(n) == Struct(<<"Item">>, <<
  Field(<<"name">>, Str, <<Length(1, 1)>>), Size(Opt(n), 0), Skipped(<<"note">>, Str, ""),
  Field(<<"kind">>, Kind(n), <<>>)>>)
Mark     == Struct(<<"Mark">>, <<Field(<<"text">>, Opt(Str), <<Length(1, 1)>>)>>)
Below(n) == Struct(<<"Item">>, <<Size(n, -1), Field(<<"marks">>, Vec(Mark), <<>>), Field(<<"at">>, U(8), <<>>)>>)
CsItem == Struct(<<"Item">>, <<
  Field(<<"name">>, Str, <<Length(1, 1)>>), Size(I(4), 0), Field(<<"nick">>, Opt(Str), <<Length(1, 2)>>),
  Field(<<"flags">>, Vec(Bool), <<>>)>>)
RsItem == Struct(<<"Item">>, <<
  Field(<<"name">>, Str, <<Length(1, 1)>>), Field(<<"nick">>, Opt(Str), <<Length(1, 2)>>),
  Field(<<"kind">>, Simple, <<>>), Field(<<"tags">>, Vec(Str), <<>>), Field(<<"at">>, U(8), <<>>)>>)

Token == Struct(<<"Token">>, <<Field(<<"text">>, Str, <<Length(0, 1)>>)>>)
Key   == Struct(<<"Key">>, <<Field(<<"id">>, Str, <<OneOf({<<1>>, <<2, 1>>})>>)>>)
Done  == Struct(<<"Done">>, <<Field(<<"ok">>, Bool, <<>>)>>)

(***************************************************************************)
(* The values tried of a type: the ends of the range of an integer, of 8   *)
(* cells without sign the doubles next to them and to where doubles have   *)
(* gaps, and every combination of what is tried of the parts.              *)
(***************************************************************************)
RECURSIVE Tried(_)
Tried(t) ==
  LET Fields(fs) == FoldLeft(LAMBDA acc, f : {(f.name :> v) @@ g : v \in Tried(f.ty), g \in acc},
                             {<<>>}, Included(fs))
  IN
  CASE t = U(8)       -> {0, Exact - 1, Exact + 2, Base^8 - 8}
    [] t.k = "int"    -> {0, 1, -1, Base^t.w \div 2 - 1, Base^t.w \div 2, Base^t.w - 1, -(Base^t.w \div 2)}
                           \cap Numbers(t)
    [] t.k = "bool"   -> BOOLEAN
    [] t.k = "str"    -> Strings
    [] t.k = "unit"   -> {None}
    [] t.k = "opt"    -> {None} \cup Tried(t.of)
    [] t.k = "vec"    -> LET v == CHOOSE x \in Tried(t.of) : TRUE
                         IN  {<<>>} \cup {<<x>> : x \in Tried(t.of)} \cup {<<x, v>> : x \in Tried(t.of)}
    [] t.k = "struct" -> Fields(t.fields)
    [] t.k = "enum"   -> UNION {LET x == t.variants[i] IN
                                IF x.fields = <<>> THEN {<<x.name, None>>}
                                ELSE IF IsTuple(x) THEN {<<x.name, v>> : v \in Tried(x.fields[1].ty)}
                                ELSE {<<x.name, v>> : v \in Fields(x.fields)} : i \in DOMAIN t.variants}

P(x, t) == [x |-> x, ty |-> t]
ArgsOf(params, x) == FoldLeft(LAMBDA acc, p : {Append(a, v) : a \in acc, v \in Tried(p.ty)}, {<<>>},
                              SelectSeq(params, LAMBDA p : p.x = x))

Api(lang, params, ret, answers, seconds, callers) ==
  [api     |-> [lang |-> lang, ordinary |-> FALSE, params |-> params, ret |-> ret, cache |-> seconds, path |-> <<>>,
                name |-> <<"Api">>, service |-> <<>>],
   callers |-> callers, args |-> ArgsOf(params, "Data"), logins |-> ArgsOf(params, "Custom"), answers |-> answers]

OkAnswers == {<<"ok">> :> TRUE}
Save(lang, item) == Api(lang, <<P("Custom", Token), P("Data", item)>>, Done, OkAnswers, 0, {"c1"})
Load(lang, t)    == Api(lang, <<P("Data", Key), P("Data", Done)>>, Opt(t), {None} \cup Tried(t), 0, {"c1"})
List(lang)       == Api(lang, <<P("Data", Key)>>, Done, Tried(Done), 2, {"c1", "c2"})
Tell(lang)       == Api(lang, <<P("Data", Key)>>, Unit, {None}, 0, {"c1"})

BinaryApis ==
  <<Save("ts", Full(I(2))), Save("js", Full(I(2))), Save("ts", Below(I(4))), Save("js", Below(I(4))),
    Save("kt", Full(I(4))), Save("rs", RsItem), Api("cs", <<P("Data", CsItem)>>, Done, OkAnswers, 0, {"c1"}),
    Load("ts", Full(I(2))), Load("js", Full(I(2))), Load("kt", Full(I(2))), Load("rs", Full(I(2))),
    Load("ts", Below(U(4))), Load("js", Below(U(4))), Load("cs", Below(U(4))), Load("rs", Below(U(4))),
    Load("cs", CsItem), Load("kt", Full(I(4))),
    Tell("ts"), Tell("js"), Tell("kt"), Tell("cs"), Tell("rs")>>
CachedApis == <<List("ts"), List("js"), List("kt")>>

-----------------------------------------------------------------------------
(* Ordinary handlers: GET /users/:id and POST /users/:id/:name.            *)
Texts(unsafe) == {<<"a">>, <<"b", "c">>} \cup IF unsafe THEN {<<"a", "&", "b">>, <<"=">>, <<" ", "%">>} ELSE {}
W(name, t) == Field(name, t, <<>>)
Objects(f) == FoldLeft(LAMBDA acc, n : {(n :> v) @@ g : v \in f[n], g \in acc}, {<<>>}, SetToSeq(DOMAIN f))
Id == <<"id">>    Name == <<"name">>    Search == <<"search">>    Page == <<"page">>
TokenName == <<"token">>    Title == <<"post", "title">>    OneTitle == <<"title">>

OrdinaryApi(lang, path, params, args, logins, answers, seconds) ==
  [api     |-> [lang |-> lang, ordinary |-> TRUE, params |-> params, ret |-> <<>>, cache |-> seconds, path |-> path,
                name |-> <<"Api">>, service |-> <<>>],
   callers |-> {"c1"}, args |-> args, logins |-> logins, answers |-> answers]
Args(params, queries, body) == {[params |-> p, queries |-> q, body |-> b] : p \in params, q \in queries, b \in body}

UserPath == <<Routes!Static(<<"users">>), Routes!Param(Id)>>
PostPath == UserPath \o <<Routes!Param(Name)>>
UserId   == Struct(<<"UserId">>, <<W(Id, U(1))>>)
PostId   == Struct(<<"PostId">>, <<W(Id, U(1)), W(Name, Str)>>)
Asked    == Struct(<<"Asked">>, <<W(Search, Opt(Str)), W(Page, Opt(U(1)))>>)
Post(n)  == Struct(<<"Post">>, <<W(n, Str)>>)
Auth     == Struct(<<"Auth">>, <<W(TokenName, Opt(Str)), W(<<"content", "type">>, Str)>>)
None0    == {<<>>}

Show(lang, unsafe) ==
  OrdinaryApi(lang, UserPath, <<P("Param", UserId), P("Query", Asked), P("Header", Auth)>>,
    Args([{Id} -> {0, 3}], Objects((Search :> ({None} \cup Texts(unsafe))) @@ (Page :> {None, 0, 2})), None0),
    {<<TokenName :> t>> : t \in {None, <<"t">>}}, [{Id} -> {1}], 0)
Publish(lang, n, pathTexts) ==
  OrdinaryApi(lang, PostPath, <<P("Header", Auth), P("Param", PostId), P("Body", Post(n))>>,
    Args(Objects((Id :> {0, 3}) @@ (Name :> pathTexts)), None0, Objects(n :> Texts(TRUE))),
    {<<TokenName :> t>> : t \in {None, <<"t">>}}, [{n} -> Texts(TRUE)], 2)
Visit(lang) ==
  OrdinaryApi(lang, PostPath, <<P("Param", PostId)>>,
    Args(Objects((Id :> {0, 3}) @@ (Name :> Texts(FALSE))), None0, None0), {<<>>}, {<<>>}, 0)

OrdinaryApis ==
  <<Show("ts", TRUE), Show("js", TRUE), Show("kt", FALSE), Visit("cs"),
    Publish("ts", Title, Texts(FALSE)), Publish("js", Title, Texts(FALSE)), Publish("kt", OneTitle, Texts(FALSE))>>

-----------------------------------------------------------------------------
(* Services whose types are nested in one another, in every order of three *)
(* handlers; no type that a method names by its path is named by a field.  *)
User    == Struct(<<"User">>, <<W("key", Key), W("kinds", Vec(Kind(I(2))))>>)
H(prefix, params, ret, ordinary) == [prefix |-> prefix, params |-> params, ret |-> ret, ordinary |-> ordinary]
Handlers == <<H(<<"Users", "List">>, <<P("Custom", Token), P("Data", Full(I(2)))>>, Vec(User), FALSE),
              H(<<"Users", "Get">>, <<P("Data", Done)>>, Opt(User), FALSE),
              H(<<"Show">>, <<P("Param", UserId), P("Header", Auth)>>, Struct(<<"Page">>, <<W("last", Opt(Key))>>), TRUE)>>
Orders == SetToSeq({s \in [1..3 -> 1..3] : Cardinality(Range(s)) = 3})
Typed(service) == [List("ts") EXCEPT !.api.service = service, !.api.cache = 0, !.callers = {"c1"}]
TypedApis == [i \in DOMAIN Orders |-> Typed([j \in 1..3 |-> Handlers[Orders[i][j]]])]

PassApis    == BinaryApis \o CachedApis \o OrdinaryApis \o TypedApis
TsNegatives == <<Load("ts", Struct(<<"Balance">>, <<Field(<<"cents">>, I(8), <<>>)>>))>>

-----------------------------------------------------------------------------
(* The types the trials name, those a type is made of before it.           *)
Named(a) ==
  Range(FieldTypes(a.params)) \cup (IF a.ordinary THEN {} ELSE {a.ret})
  \cup UNION {Range(FieldTypes(a.service[i].params)) \cup {a.service[i].ret} : i \in DOMAIN a.service}

RECURSIVE WithParts(_), Depth(_)
WithParts(ts) == LET all == ts \cup UNION {Parts(t) : t \in ts} IN IF all = ts THEN ts ELSE WithParts(all)
Depth(t) == IF Parts(t) = {} THEN 1 ELSE 1 + FoldSet(LAMBDA x, y : IF x > y THEN x ELSE y, 0, {Depth(u) : u \in Parts(t)})

AllTypes == LET trials == Trials IN WithParts(UNION {Named(trials[i].api) : i \in DOMAIN trials})
MCLayers == LET all == AllTypes
                Layer(n) == {t \in all : Depth(t) = n}
            IN  <<Layer(1), Layer(2), Layer(3), Layer(4), Layer(5), Layer(6)>>
MCValues == LET all == AllTypes IN [t \in all |-> Tried(t)]

(* What the proofs ask of the trials holds of these. *)
ASSUME TrialsAreSo ==
  Trials = TsNegatives
  \/ \A i \in DOMAIN Trials : LET t == Trials[i] IN
       InOrder(t.api) /\ Readable(t.api, t.answers) /\ Checkable(t.api) /\ ToldApart(t) /\ Unambiguous(t.api.service)

MCUnsafe == {"&", "=", "/", ":", " ", "%"}
=============================================================================

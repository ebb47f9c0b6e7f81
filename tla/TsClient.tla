------------------------------ MODULE TsClient ------------------------------
(***************************************************************************)
(* The methods codegen/ts.rs generates.  The generators write TypeScript   *)
(* text that follows the TagMeta of a type; what is modelled is what that  *)
(* text does with a value.  A missing member is Undef, and a comparison    *)
(* with it is false.                                                       *)
(*                                                                         *)
(* A definition Bug... is a plausible mistake in the one that follows it.  *)
(***************************************************************************)
EXTENDS Web

CONSTANT Array   \* in the checks of the items of a list: the list itself

(* What is missing is no number, and no value of a type; nor is the Array. *)
ASSUME UndefAssumption ==
  /\ Undef \notin Int
  /\ \A t \in Types : /\ Undef \notin Values[t] /\ Array \notin Values[t]
                      /\ t.k = "enum" => \A v \in Values[t] : v[2] # Undef /\ v[2] # Array

(***************************************************************************)
(* _writer and _reader.  wI8 is wU8, wI64 is wU64, wU64 writes two halves; *)
(* rI8 is rU8 and rI64 is rU64, which never give a negative number.        *)
(***************************************************************************)
TsWriteInt(t, n) == IF t.w = 8 THEN Digits(4, n % Pow[4]) \o Digits(4, n \div Pow[4]) ELSE Digits(t.w, n)

(* A number is a double.  Of the 64 bits of 8 cells it has room for 53, as *)
(* here for 13 of 16: up to Exact it is exact, above that the nearest one  *)
(* is taken, of two the even one.                                          *)
Exact == 2 * Pow[6]
Spacing(n) == IF n < Exact THEN 1 ELSE IF n < 2 * Exact THEN 2 ELSE IF n < 4 * Exact THEN 4 ELSE 8
Double(n) ==
  LET gap  == Spacing(n)
      half == n \div gap
      left == 2 * (n % gap)
  IN  gap * (IF left > gap \/ (left = gap /\ half % 2 = 1) THEN half + 1 ELSE half)

(* Past the end d[o] is undefined, which the bit operations take for 0.    *)
(* rU64 adds two halves, as doubles.                                       *)
BugTsReadInt(t, d) ==
  LET ds == [i \in 1..t.w |-> IF i <= Len(d) THEN d[i] ELSE 0]
  IN  Got(IF t.w = 1 /\ d = <<>> THEN Undef ELSE IF t.w = 8 THEN Double(Unsigned(ds)) ELSE Unsigned(ds),
          Rest(d, t.w))

TsReadInt(t, d) ==
  LET ds == [i \in 1..t.w |-> IF i <= Len(d) THEN d[i] ELSE 0]
  IN  Got(IF t.w = 1 /\ d = <<>> THEN Undef
          ELSE CASE t.w = 1        -> Unsigned(ds)
                 [] t.w \in {2, 4} -> Number(t, ds)
                 [] t.w = 8        -> Double(Unsigned(ds)),
          Rest(d, t.w))

(* The types whose values are read as they were written. *)
TsNumber(t) == t.k = "int" => t.w \in {2, 4} \/ \A n \in Values[t] : n >= 0 /\ (t.w = 8 => Double(n) = n)

TsReadByte(d) == IF d = <<>> THEN Got(Undef, d) ELSE Got(Head(d), Tail(d))

(* generate_request_serialize.  A tag that names no variant writes nothing. *)
TsWriteOf(write, t) ==
  [v \in Values[t] |->
    CASE t.k = "int"    -> TsWriteInt(t, v)
      [] t.k = "bool"   -> <<IF v THEN 1 ELSE 0>>
      [] t.k = "str"    -> TsWriteInt(U32, Len(v)) \o v
      [] t.k = "vec"    -> TsWriteInt(U32, Len(v)) \o FlattenSeq([i \in DOMAIN v |-> write[t.of][v[i]]])
      [] t.k = "opt"    -> IF v = None THEN <<0>> ELSE <<1>> \o write[t.of][v]
      [] t.k = "struct" -> WriteFields(write, t.fields, v)
      [] t.k = "enum"   -> LET named == {i \in DOMAIN t.variants : t.variants[i].name = v[1]}
                               i == CHOOSE j \in named : TRUE
                               x == t.variants[i]
                           IN  IF named = {} THEN <<>>
                               ELSE Digits(TagWidth, i - 1)
                                    \o (IF IsTuple(x) THEN write[x.fields[1].ty][v[2]]
                                        ELSE WriteFields(write, x.fields, v[2]))]

TsWrite[t \in Types] == TsWriteOf([u \in Parts(t) |-> TsWrite[u]], t)

(* response_expr.  A switch on an unknown tag falls through to undefined. *)
TsReadFields(read, fields, d) ==
  LET r == ReadAll(read, FieldTypes(Included(fields)), d)
  IN  Got(FromFields(Included(fields), r.v), r.rest)

TsReadVariant(read, x, d) ==
  LET r == IF IsTuple(x) THEN read[x.fields[1].ty][d] ELSE TsReadFields(read, x.fields, d)
  IN  Got(<<x.name, IF x.fields = <<>> THEN None ELSE r.v>>, r.rest)

TsReadOf(read, t) ==
  [d \in Cells |->
    CASE t.k = "int"    -> TsReadInt(t, d)
      [] t.k = "bool"   -> LET r == TsReadByte(d) IN Got(r.v = 1, r.rest)
      [] t.k = "str"    -> LET n == TsReadInt(U32, d).v
                               x == Rest(d, 4)
                           IN  Got(SubSeq(x, 1, IF n > Len(x) THEN Len(x) ELSE n), Rest(x, n))
      [] t.k = "vec"    -> ReadAll(read, [i \in 1..TsReadInt(U32, d).v |-> t.of], Rest(d, 4))
      [] t.k = "opt"    -> LET r == TsReadByte(d) IN IF r.v = 1 THEN read[t.of][r.rest] ELSE Got(None, r.rest)
      [] t.k = "struct" -> TsReadFields(read, t.fields, d)
      [] t.k = "enum"   -> LET i == TsReadInt(IntType(TagWidth, FALSE), d) IN
                           IF i.v = Undef \/ i.v \notin 0..Len(t.variants) - 1 THEN Got(Undef, i.rest)
                           ELSE TsReadVariant(read, t.variants[i.v + 1], i.rest)]

TsRead[t \in Types] == TsReadOf([u \in Parts(t) |-> TsRead[u]], t)

(* generate_return. *)
TsReturn(t, d) == IF t.k = "unit" THEN None ELSE TsRead[t][d].v

(***************************************************************************)
(* generate_validation.  Of a field of type Vec<T>, the checks of T look   *)
(* for the members of T on the Array, where they are undefined (no field   *)
(* is taken to be named like a member that arrays have, such as length).   *)
(* A look at a member of undefined or of null throws.                      *)
(***************************************************************************)
TsMember(v, n) == IF v = Array THEN Undef ELSE v[n]

IsNamed(t)       == t.k \in {"struct", "enum"}
HasRules(f)      == \E i \in DOMAIN f.rules : f.rules[i].plain
HasStructure(f)  == f.ty \in Types /\ IsNamed(Structure[f.ty])

(* emit_validation_checks: !(x > n), x.length < min, ![..].includes(x). *)
BugTsCheck(r, x) == x # Undef /\ LET n == IF x = None THEN 0 ELSE x IN
                    CASE r.k = "gt"  -> n > r.n
                      [] r.k = "gte" -> n > r.n
                      [] r.k = "lt"  -> n < r.n
                      [] r.k = "lte" -> n < r.n
                      [] r.k = "len" -> x # None /\ Len(x) >= r.min /\ Len(x) <= r.max
                      [] r.k = "of"  -> x \in r.vals

TsCheck(r, x) == x # Undef /\ LET n == IF x = None THEN 0 ELSE x IN
                 CASE r.k = "gt"  -> n > r.n
                   [] r.k = "gte" -> n >= r.n
                   [] r.k = "lt"  -> n < r.n
                   [] r.k = "lte" -> n <= r.n
                   [] r.k = "len" -> x # None /\ Len(x) >= r.min /\ Len(x) <= r.max
                   [] r.k = "of"  -> x \in r.vals
TsChecks(f, x) == \A i \in DOMAIN f.rules : f.rules[i].plain => TsCheck(f.rules[i], x)

(* Nothing there: each check looks at a member, as does the question       *)
(* whether an Option with a structure is null.                             *)
TsFieldsPassNothing(passes, fields) ==
  \A i \in DOMAIN Included(fields) :
    LET f == Included(fields)[i]
    IN  ~HasRules(f) /\ IF f.ty.k = "opt" THEN ~HasStructure(f) ELSE passes[f.ty][Undef]

TsFieldsPass(passes, fields, v) ==
  IF v = Undef THEN TsFieldsPassNothing(passes, fields)
  ELSE \A i \in DOMAIN Included(fields) :
         LET f == Included(fields)[i]
             x == TsMember(v, f.name)
         IN  \/ f.ty.k = "opt" /\ x \in {None, Undef}
             \/ TsChecks(f, x) /\ passes[f.ty][x]

(* generate_enum_validation: a payload is never asked whether it is null.  *)
(* A variant with something to check looks at the tag, which is none of    *)
(* the names when it is undefined.                                         *)
TsVariantsPass(passes, variants, v) ==
  CASE v = Undef -> \A i \in DOMAIN variants : \A f \in Range(variants[i].fields) : ~HasRules(f) /\ ~HasStructure(f)
    [] v = Array -> TRUE
    [] OTHER     -> \A i \in DOMAIN variants :
         LET x == variants[i] IN
         v[1] = x.name /\ x.fields # <<>> =>
           IF IsTuple(x) THEN TsChecks(x.fields[1], v[2]) /\ passes[x.fields[1].ty][v[2]]
           ELSE TsFieldsPass(passes, x.fields, v[2])

(* What a field holds is checked by the kind of its structure, whatever it *)
(* is wrapped in: FALSE where the checks throw.                            *)
TsPassesOf(passes, t) ==
  [v \in Values[t] \cup {Undef, Array} |->
    CASE t.k = "opt"    -> passes[t.of][IF v = None THEN Undef ELSE v]
      [] t.k = "vec"    -> passes[t.of][IF v = Undef THEN Undef ELSE Array]
      [] t.k = "struct" -> TsFieldsPass(passes, t.fields, v)
      [] t.k = "enum"   -> TsVariantsPass(passes, t.variants, v)
      [] OTHER          -> TRUE]

TsPasses[t \in Types] == TsPassesOf([u \in Parts(t) |-> TsPasses[u]], t)

(***************************************************************************)
(* handler_method: what the customs functions gave is validated and        *)
(* written first, then the arguments, whatever the order of the signature. *)
(* Only the fields of structs are validated, and only customs that are     *)
(* structs are written.                                                    *)
(***************************************************************************)
TsValid(ps, vals)  == \A i \in DOMAIN ps : IsStruct(ps[i]) => TsPasses[ps[i].ty][vals[i]]

TsPreflight(params, customs, args) == TsValid(Of(params, "Custom"), customs) /\ TsValid(Of(params, "Data"), args)

BugTsRequest(params, customs, args) ==
  LET cs == Of(params, "Custom")
      ds == Of(params, "Data")
  IN  FlattenSeq([i \in DOMAIN ds |-> TsWrite[ds[i].ty][args[i]]])
      \o FlattenSeq([i \in DOMAIN cs |-> IF IsStruct(cs[i]) THEN TsWrite[cs[i].ty][customs[i]] ELSE <<>>])

TsRequest(params, customs, args) ==
  LET cs == Of(params, "Custom")
      ds == Of(params, "Data")
  IN  FlattenSeq([i \in DOMAIN cs |-> IF IsStruct(cs[i]) THEN TsWrite[cs[i].ty][customs[i]] ELSE <<>>])
      \o FlattenSeq([i \in DOMAIN ds |-> TsWrite[ds[i].ty][args[i]]])

(* The cache compares JSON.stringify of the arguments. *)
TsCacheRequest(params, args) == args

-----------------------------------------------------------------------------
(***************************************************************************)
(* ordinary_handler_method_ts.  url.replace takes the first occurrence of  *)
(* the colon and the name, be it the start of a longer name.               *)
(***************************************************************************)
TsFilled(path, name, text) ==
  LET hits == {i \in DOMAIN path : path[i].kind = "param" /\ IsPrefix(name, path[i].text)}
      i    == Min(hits)
  IN  IF hits = {} THEN path
      ELSE [path EXCEPT ![i] = Routes!Static(text \o SubSeq(@.text, Len(name) + 1, Len(@.text)))]

TsPath(api, params) ==
  FoldLeft(LAMBDA acc, f : TsFilled(acc, f.name, Escape(Text(f.ty, params[f.name]))),
           api.path, Included(FieldsOf(api.params, "Param")))

(* URLSearchParams *)
BugTsQuery(api, queries) ==
  LET given == SelectSeq(Included(FieldsOf(api.params, "Query")), LAMBDA f : queries[f.name] # None)
  IN  Join([i \in DOMAIN given |-> given[i].name \o <<"=">> \o Text(given[i].ty, queries[given[i].name])], "&")

TsQuery(api, queries) ==
  LET given == SelectSeq(Included(FieldsOf(api.params, "Query")), LAMBDA f : queries[f.name] # None)
  IN  Join([i \in DOMAIN given |-> EscapeForm(given[i].name) \o <<"=">>
                                   \o EscapeForm(Text(given[i].ty, queries[given[i].name]))], "&")

TsUrl(api, args) == [path |-> Sent(TsPath(api, args.params)), query |-> TsQuery(api, args.queries)]

(* The headers functions run after Content-Type is set, and override it.   *)
JsonType(api) == IF FieldsOf(api.params, "Body") = <<>> THEN <<>>
                 ELSE <<"content", "type">> :> <<"application/json">>
TsHeaders(api, given) == FoldLeft(LAMBDA acc, h : NotNull(h) @@ acc, JsonType(api), given)

TsBody(api, body) == body

TsOrdinaryCacheRequest(api, args) == <<TsUrl(api, args), args.body>>

(* The answer is what response.json() gives. *)
TsOrdinaryReturn(fields, json) == json

-----------------------------------------------------------------------------
(***************************************************************************)
(* The type declarations.  A type that a method takes or returns is        *)
(* declared under a name made of the path of the handler; everything else  *)
(* refers to types by their own name.                                      *)
(***************************************************************************)
(* prefixed_type: a prefix that the name already begins with, or that ends *)
(* with what the name begins with, is not repeated.                        *)
Prefixed(prefix, name) ==
  LET overlaps == {i \in 2..Len(prefix) : IsPrefix(SubSeq(prefix, i, Len(prefix)), name)}
  IN  IF IsPrefix(prefix, name) THEN name
      ELSE IF overlaps # {} THEN SubSeq(prefix, 1, Min(overlaps) - 1) \o name
      ELSE prefix \o name

(* ordinary_suffix *)
Suffix(kind) == CASE kind = "Query" -> "Query" [] kind = "Param" -> "PathParams"
                  [] kind = "Body" -> "Body" [] OTHER -> "Response"

TypeName(h, kind, t) ==
  CASE kind \in {"Custom", "Header"} -> t.name
    [] h.ordinary                    -> Append(h.prefix, Suffix(kind))
    [] OTHER                         -> Prefixed(h.prefix, t.name)

(* The fields a declaration lists (type_def_for). *)
Listed(t) == IF t.k = "struct" THEN Included(t.fields)
             ELSE FlattenSeq([i \in DOMAIN t.variants |-> Included(t.variants[i].fields)])

(* extract_nested_types: a type, then those of its fields, each declared   *)
(* unless its name was emitted before.                                     *)
NestedOf(nested, t) ==
  IF t.k \in {"opt", "vec"} THEN nested[t.of]
  ELSE IF IsNamed(t) THEN <<t>> \o FlattenSeq([i \in DOMAIN Listed(t) |-> nested[Listed(t)[i].ty]])
  ELSE <<>>

Nested[t \in Types] == NestedOf([u \in Parts(t) |-> Nested[u]], t)

Emit(acc, t) ==
  IF t.name \in acc.emitted THEN acc
  ELSE [emitted |-> acc.emitted \cup {t.name}, declared |-> acc.declared \cup {<<t.name, t>>}]

BugDeclareNested(acc, t) == Emit(acc, t)
DeclareNested(acc, t) ==
  LET upTo[i \in 0..Len(Nested[t])] == IF i = 0 THEN acc ELSE Emit(upTo[i - 1], Nested[t][i])
  IN  upTo[Len(Nested[t])]

(* What a handler adds.  Both names count as emitted, one is declared. *)
Declare(acc, name, t) ==
  IF name \in acc.emitted THEN acc
  ELSE DeclareNested([emitted  |-> acc.emitted \cup {name, t.name},
                      declared |-> acc.declared \cup {<<name, t>>}], t)

(* The types of a handler, in the order handler_type_exports takes them.   *)
Uses(h) == [i \in DOMAIN h.params |-> <<h.params[i].x, h.params[i].ty>>]
           \o (IF IsNamed(Structure[h.ret]) THEN <<<<"return", Structure[h.ret]>>>> ELSE <<>>)

TypeExports(acc, h) ==
  LET upTo[i \in 0..Len(Uses(h))] ==
        IF i = 0 THEN acc ELSE LET u == Uses(h)[i] IN Declare(upTo[i - 1], TypeName(h, u[1], u[2]), u[2])
  IN  upTo[Len(Uses(h))]

(* collect_type_exports *)
Exports(service) ==
  LET upTo[i \in 0..Len(service)] ==
        IF i = 0 THEN [emitted |-> {}, declared |-> {}] ELSE TypeExports(upTo[i - 1], service[i])
  IN  upTo[Len(service)].declared

(* What signatures refer to, and what the declaration of a type refers to: *)
(* names, and the types meant.                                             *)
UsedBy(service)  == UNION {Range(Uses(service[i])) : i \in DOMAIN service}
NamedBy(service) == UNION {{<<TypeName(service[i], u[1], u[2]), u[2]>> : u \in Range(Uses(service[i]))} : i \in DOMAIN service}
NamedIn(t)       == {<<Structure[f.ty].name, Structure[f.ty]>> : f \in {g \in Range(Listed(t)) : IsNamed(Structure[g.ty])}}
Mentions(service) == NamedBy(service) \cup UNION {NamedIn(d[2]) : d \in Exports(service)}
=============================================================================
